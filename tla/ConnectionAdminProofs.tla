------------------------- MODULE ConnectionAdminProofs -------------------------
(***************************************************************************)
(* What ConnectionAdmin guarantees for every set of ids, secrets, bundles, *)
(* processes and failures.                                                 *)
(***************************************************************************)
EXTENDS ConnectionAdmin, SequenceTheorems, WellFoundedInduction, TLAPS

-------------------------------------------------------------------------------
(***************************************************************************)
(* What the helpers of ConnectionFile return: the sequence operations the  *)
(* mutators build their new file with keep it a file, keep its ids         *)
(* distinct, and point at no slot they were not given.                     *)
(***************************************************************************)
\* RemoveAt drops one row and closes the gap.
LEMMA RemoveAtProperties ==
    ASSUME NEW S, NEW s \in Seq(S), NEW i \in 1 .. Len(s)
    PROVE  /\ RemoveAt(s, i) \in Seq(S)
           /\ Len(RemoveAt(s, i)) = Len(s) - 1
           /\ \A j \in 1 .. Len(s) - 1 :
                 RemoveAt(s, i)[j] = IF j < i THEN s[j] ELSE s[j + 1]
  <1> DEFINE u == SubSeq(s, 1, i - 1)
             v == SubSeq(s, i + 1, Len(s))
  <1>0. Len(s) \in Nat /\ i \in Nat /\ \A k \in 1 .. Len(s) : s[k] \in S
    BY LenProperties, ElementOfSeq
  <1>1. /\ u \in Seq(S) /\ Len(u) = i - 1
        /\ \A k \in 1 .. i - 1 : u[k] = s[k]
    <2>1. \A k \in 1 .. i - 1 : s[k] \in S  BY <1>0
    <2> QED  BY <1>0, <2>1, SubSeqProperties, Z3
  <1>2. /\ v \in Seq(S) /\ Len(v) = Len(s) - i
        /\ \A k \in 1 .. Len(s) - i : v[k] = s[k + i]
    <2>1. \A k \in i + 1 .. Len(s) : s[k] \in S  BY <1>0
    <2>2. /\ v \in Seq(S)
          /\ Len(v) = IF i + 1 <= Len(s) THEN Len(s) - (i + 1) + 1 ELSE 0
          /\ \A k \in 1 .. Len(s) - (i + 1) + 1 : v[k] = s[(i + 1) + k - 1]
      BY <1>0, <2>1, SubSeqProperties, i + 1 \in Int, Len(s) \in Int
    <2> QED  BY <1>0, <2>2
  <1>3. /\ u \o v \in Seq(S)
        /\ Len(u \o v) = Len(u) + Len(v)
        /\ \A k \in 1 .. Len(u) + Len(v) :
              (u \o v)[k] = IF k <= Len(u) THEN u[k] ELSE v[k - Len(u)]
    BY <1>1, <1>2, ConcatProperties
  <1>4. RemoveAt(s, i) = u \o v  BY DEF RemoveAt
  <1> HIDE DEF u, v
  <1>5. ASSUME NEW j \in 1 .. Len(s) - 1
        PROVE  (u \o v)[j] = IF j < i THEN s[j] ELSE s[j + 1]
    <2>1. CASE j < i  BY <1>0, <1>1, <1>2, <1>3, <2>1
    <2>2. CASE ~(j < i)
      <3>1. (u \o v)[j] = v[j - (i - 1)]  BY <1>0, <1>1, <1>2, <1>3, <2>2
      <3>2. j - (i - 1) \in 1 .. Len(s) - i  BY <1>0, <2>2
      <3>3. v[j - (i - 1)] = s[(j - (i - 1)) + i]  BY <1>2, <3>2
      <3>4. (j - (i - 1)) + i = j + 1  BY <1>0
      <3> QED  BY <2>2, <3>1, <3>3, <3>4
    <2> QED  BY <2>1, <2>2
  <1>6. Len(u \o v) = Len(s) - 1  BY <1>0, <1>1, <1>2, <1>3
  <1> QED  BY <1>3, <1>4, <1>5, <1>6

\* InsertAt opens a gap and fills it.
LEMMA InsertAtProperties ==
    ASSUME NEW S, NEW s \in Seq(S), NEW i \in 1 .. Len(s) + 1, NEW e \in S
    PROVE  /\ InsertAt(s, i, e) \in Seq(S)
           /\ Len(InsertAt(s, i, e)) = Len(s) + 1
           /\ \A j \in 1 .. Len(s) + 1 :
                 InsertAt(s, i, e)[j] = IF j < i THEN s[j]
                                        ELSE IF j = i THEN e ELSE s[j - 1]
  <1> DEFINE u == SubSeq(s, 1, i - 1)
             v == SubSeq(s, i, Len(s))
             w == u \o <<e>>
  <1>0. Len(s) \in Nat /\ i \in Nat /\ \A k \in 1 .. Len(s) : s[k] \in S
    BY LenProperties, ElementOfSeq
  <1>1. /\ u \in Seq(S) /\ Len(u) = i - 1
        /\ \A k \in 1 .. i - 1 : u[k] = s[k]
    <2>1. \A k \in 1 .. i - 1 : s[k] \in S  BY <1>0
    <2>2. /\ u \in Seq(S)
          /\ Len(u) = IF 1 <= i - 1 THEN (i - 1) - 1 + 1 ELSE 0
          /\ \A k \in 1 .. (i - 1) - 1 + 1 : u[k] = s[1 + k - 1]
      BY <1>0, <2>1, SubSeqProperties, i - 1 \in Int, 1 \in Int
    <2> QED  BY <1>0, <2>2
  <1>2. /\ v \in Seq(S) /\ Len(v) = Len(s) - i + 1
        /\ \A k \in 1 .. Len(s) - i + 1 : v[k] = s[k + i - 1]
    <2>1. \A k \in i .. Len(s) : s[k] \in S  BY <1>0
    <2>2. /\ v \in Seq(S)
          /\ Len(v) = IF i <= Len(s) THEN Len(s) - i + 1 ELSE 0
          /\ \A k \in 1 .. Len(s) - i + 1 : v[k] = s[i + k - 1]
      BY <1>0, <2>1, SubSeqProperties, i \in Int, Len(s) \in Int
    <2> QED  BY <1>0, <2>2
  <1>3. /\ w \in Seq(S) /\ Len(w) = i
        /\ \A k \in 1 .. i : w[k] = IF k < i THEN s[k] ELSE e
    <2>1. <<e>> \in Seq(S) /\ Len(<<e>>) = 1 /\ <<e>>[1] = e  OBVIOUS
    <2>2. /\ w \in Seq(S)
          /\ Len(w) = Len(u) + Len(<<e>>)
          /\ \A k \in 1 .. Len(u) + Len(<<e>>) :
                w[k] = IF k <= Len(u) THEN u[k] ELSE <<e>>[k - Len(u)]
      BY <1>1, <2>1, ConcatProperties
    <2> HIDE DEF u, w
    <2>3. ASSUME NEW k \in 1 .. i  PROVE  w[k] = IF k < i THEN s[k] ELSE e
      <3>1. CASE k < i  BY <1>0, <1>1, <2>1, <2>2, <3>1
      <3>2. CASE k = i
        <4>1. k - Len(u) = 1  BY <1>0, <1>1, <3>2
        <4> QED  BY <1>0, <1>1, <2>1, <2>2, <3>2, <4>1
      <3> QED  BY <1>0, <3>1, <3>2
    <2> QED  BY <1>0, <1>1, <2>1, <2>2, <2>3
  <1>4. /\ w \o v \in Seq(S)
        /\ Len(w \o v) = Len(w) + Len(v)
        /\ \A k \in 1 .. Len(w) + Len(v) :
              (w \o v)[k] = IF k <= Len(w) THEN w[k] ELSE v[k - Len(w)]
    <2>1. w \in Seq(S) /\ v \in Seq(S)  BY <1>2, <1>3
    <2> HIDE DEF u, v, w
    <2> QED  BY <2>1, ConcatProperties
  <1>5. InsertAt(s, i, e) = w \o v  BY DEF InsertAt
  <1> HIDE DEF u, v, w
  <1>6. ASSUME NEW j \in 1 .. Len(s) + 1
        PROVE  (w \o v)[j] = IF j < i THEN s[j]
                             ELSE IF j = i THEN e ELSE s[j - 1]
    <2>1. CASE j <= i  BY <1>0, <1>2, <1>3, <1>4, <2>1
    <2>2. CASE j > i
      <3>1. (w \o v)[j] = v[j - i]  BY <1>0, <1>2, <1>3, <1>4, <2>2
      <3>2. j - i \in 1 .. Len(s) - i + 1  BY <1>0, <2>2
      <3>3. v[j - i] = s[(j - i) + i - 1]  BY <1>2, <3>2
      <3>4. (j - i) + i - 1 = j - 1  BY <1>0
      <3> QED  BY <1>0, <2>2, <3>1, <3>3, <3>4
    <2>3. j \in Int /\ i \in Int  BY <1>0
    <2>4. j <= i \/ j > i  BY <2>3
    <2> QED  BY <2>1, <2>2, <2>4
  <1>7. Len(w \o v) = Len(s) + 1  BY <1>0, <1>2, <1>3, <1>4
  <1> QED  BY <1>4, <1>5, <1>6, <1>7

\* The rows of the file "move_to" leaves are the rows it found, each once.
Permuted(from, index, j) ==
    LET k == IF j < index + 1 THEN j ELSE j - 1
    IN  IF j = index + 1 THEN from ELSE IF k < from THEN k ELSE k + 1

LEMMA MovedRows ==
    ASSUME NEW S, NEW s \in Seq(S), NEW from \in 1 .. Len(s), NEW index \in 0 .. Len(s) - 1
    PROVE  /\ moved(s, from, index) \in Seq(S)
           /\ Len(moved(s, from, index)) = Len(s)
           /\ \A j \in 1 .. Len(s) :
                 /\ Permuted(from, index, j) \in 1 .. Len(s)
                 /\ moved(s, from, index)[j] = s[Permuted(from, index, j)]
           /\ \A j, k \in 1 .. Len(s) :
                 Permuted(from, index, j) = Permuted(from, index, k) => j = k
  <1> DEFINE u == RemoveAt(s, from)
  <1>0. Len(s) \in Nat /\ from \in Nat /\ index \in Nat /\ s[from] \in S
    BY LenProperties, ElementOfSeq
  <1>1. /\ u \in Seq(S) /\ Len(u) = Len(s) - 1
        /\ \A j \in 1 .. Len(s) - 1 : u[j] = IF j < from THEN s[j] ELSE s[j + 1]
    BY RemoveAtProperties
  <1> HIDE DEF u
  <1>2. index + 1 \in 1 .. Len(u) + 1  BY <1>0, <1>1
  <1>3. /\ InsertAt(u, index + 1, s[from]) \in Seq(S)
        /\ Len(InsertAt(u, index + 1, s[from])) = Len(u) + 1
        /\ \A j \in 1 .. Len(u) + 1 :
              InsertAt(u, index + 1, s[from])[j] =
                  IF j < index + 1 THEN u[j]
                  ELSE IF j = index + 1 THEN s[from] ELSE u[j - 1]
    <2> DEFINE row == index + 1
               e == s[from]
    <2>1. e \in S /\ row \in 1 .. Len(u) + 1  BY <1>0, <1>2
    <2>2. u \in Seq(S)  BY <1>1
    <2> SUFFICES /\ InsertAt(u, row, e) \in Seq(S)
                 /\ Len(InsertAt(u, row, e)) = Len(u) + 1
                 /\ \A j \in 1 .. Len(u) + 1 :
                       InsertAt(u, row, e)[j] = IF j < row THEN u[j]
                                                ELSE IF j = row THEN e ELSE u[j - 1]
      OBVIOUS
    <2> HIDE DEF row, e
    <2>3. InsertAt(u, row, e) \in Seq(S)  BY <2>1, <2>2, InsertAtProperties
    <2>4. Len(InsertAt(u, row, e)) = Len(u) + 1  BY <2>1, <2>2, InsertAtProperties
    <2>5. \A j \in 1 .. Len(u) + 1 :
              InsertAt(u, row, e)[j] = IF j < row THEN u[j]
                                       ELSE IF j = row THEN e ELSE u[j - 1]
      BY <2>1, <2>2, InsertAtProperties
    <2> QED  BY <2>3, <2>4, <2>5
  <1>4. moved(s, from, index) = InsertAt(u, index + 1, s[from])  BY DEF moved, u
  <1>5. \A j \in 1 .. Len(s) : Permuted(from, index, j) \in 1 .. Len(s)
    BY <1>0 DEF Permuted
  <1>6. \A j, k \in 1 .. Len(s) :
            Permuted(from, index, j) = Permuted(from, index, k) => j = k
    BY <1>0 DEF Permuted
  <1>7. ASSUME NEW j \in 1 .. Len(s)
        PROVE  moved(s, from, index)[j] = s[Permuted(from, index, j)]
    <2>1. CASE j < index + 1
      <3>1. j \in 1 .. Len(u) + 1 /\ j \in 1 .. Len(s) - 1
        BY <1>0, <1>1, <2>1
      <3>2. InsertAt(u, index + 1, s[from])[j] = u[j]
        BY <1>3, <2>1, <3>1
      <3>3. u[j] = s[IF j < from THEN j ELSE j + 1]
        BY <1>1, <3>1
      <3>4. Permuted(from, index, j) = IF j < from THEN j ELSE j + 1
        BY <1>0, <2>1 DEF Permuted
      <3> QED  BY <1>4, <3>2, <3>3, <3>4
    <2>2. CASE j = index + 1
      BY <1>0, <1>1, <1>3, <1>4, <2>2 DEF Permuted
    <2>3. CASE j > index + 1
      <3>1. moved(s, from, index)[j] = u[j - 1]  BY <1>0, <1>1, <1>3, <1>4, <2>3
      <3>2. j - 1 \in 1 .. Len(s) - 1 /\ (j - 1) + 1 = j  BY <1>0, <2>3
      <3> QED  BY <1>0, <1>1, <2>3, <3>1, <3>2 DEF Permuted
    <2> QED  BY <1>0, <2>1, <2>2, <2>3
  <1>8. Len(moved(s, from, index)) = Len(s)  BY <1>0, <1>1, <1>3, <1>4
  <1> QED  BY <1>3, <1>4, <1>5, <1>6, <1>7, <1>8

\* A non-empty set of rows has a last one.
LEMMA LastRow ==
    ASSUME NEW n \in Nat, NEW R, R \subseteq 1 .. n, R # {}
    PROVE  \E i \in R : \A j \in R : j <= i
  <1> DEFINE T == {n - i : i \in R}
  <1>1. T \subseteq Nat /\ T # {}
    <2>1. \A i \in R : n - i \in Nat  OBVIOUS
    <2>2. PICK i \in R : TRUE  OBVIOUS
    <2>3. n - i \in T  OBVIOUS
    <2> QED  BY <2>1, <2>3
  <1>2. PICK x \in T : \A y \in T : ~(<<y, x>> \in OpToRel(<, Nat))
    BY <1>1, WFMin, NatLessThanWellFounded
  <1>3. \A y \in T : ~(y < x)  BY <1>1, <1>2 DEF OpToRel
  <1>4. PICK i \in R : x = n - i  OBVIOUS
  <1>5. \A j \in R : j <= i  BY <1>3, <1>4
  <1> QED  BY <1>5
-------------------------------------------------------------------------------
(***************************************************************************)
(* The same operations, seen as what they do to the rows of a file.        *)
(***************************************************************************)
Rows(file) == {file[i] : i \in DOMAIN file}

LEMMA FileDomain ==
    ASSUME NEW file \in Files
    PROVE  /\ Len(file) \in Nat
           /\ DOMAIN file = 1 .. Len(file)
           /\ \A i \in DOMAIN file : file[i] \in Entries
  BY LenProperties, ElementOfSeq DEF Files

\* Append: one row more, under an id the file did not have.
LEMMA AppendRow ==
    ASSUME NEW file \in Files, NEW entry \in Entries
    PROVE  /\ Append(file, entry) \in Files
           /\ Rows(Append(file, entry)) = Rows(file) \cup {entry}
           /\ UniqueIds(file) /\ find_index(file, entry.id) = {}
                 => UniqueIds(Append(file, entry))
  <1> DEFINE g == Append(file, entry)
  <1>1. Len(file) \in Nat /\ DOMAIN file = 1 .. Len(file)  BY FileDomain
  <1>2. /\ g \in Files /\ Len(g) = Len(file) + 1
        /\ \A i \in 1 .. Len(file) : g[i] = file[i]
        /\ g[Len(file) + 1] = entry
    BY AppendProperties DEF Files
  <1>3. DOMAIN g = 1 .. Len(file) + 1  BY <1>2, FileDomain
  <1> HIDE DEF g
  <1>4. Rows(g) = Rows(file) \cup {entry}
    <2>1. \A i \in DOMAIN g : g[i] \in Rows(file) \cup {entry}
      BY <1>1, <1>2, <1>3 DEF Rows
    <2>2. \A i \in DOMAIN file : i \in DOMAIN g /\ g[i] = file[i]
      BY <1>1, <1>2, <1>3
    <2>3. Len(file) + 1 \in DOMAIN g  BY <1>1, <1>3
    <2> QED  BY <1>2, <2>1, <2>2, <2>3 DEF Rows
  <1>5. ASSUME UniqueIds(file), find_index(file, entry.id) = {}
        PROVE  UniqueIds(g)
    <2> SUFFICES ASSUME NEW i \in DOMAIN g, NEW j \in DOMAIN g, g[i].id = g[j].id
                 PROVE  i = j
      BY DEF UniqueIds
    <2>1. \A k \in 1 .. Len(file) : file[k].id # entry.id
      BY <1>1, <1>5 DEF find_index
    <2> QED  BY <1>1, <1>2, <1>3, <1>5, <2>1 DEF UniqueIds
  <1> QED  BY <1>2, <1>4, <1>5 DEF g

\* Replacing the rows of one id where they stand: the other rows stay.
LEMMA ReplaceRows ==
    ASSUME NEW file \in Files, NEW entry \in Entries, NEW R,
           R = find_index(file, entry.id)
    PROVE  LET g == [i \in DOMAIN file |-> IF i \in R THEN entry ELSE file[i]]
           IN  /\ g \in Files
               /\ Rows(g) \subseteq {entry} \cup {x \in Rows(file) : x.id # entry.id}
               /\ \A x \in Rows(file) : x.id # entry.id => x \in Rows(g)
               /\ R # {} => entry \in Rows(g)
               /\ UniqueIds(file) => UniqueIds(g)
  <1> DEFINE g == [i \in DOMAIN file |-> IF i \in R THEN entry ELSE file[i]]
  <1>1. Len(file) \in Nat /\ DOMAIN file = 1 .. Len(file)  BY FileDomain
  <1>2. g \in Files
    <2>1. \A i \in 1 .. Len(file) : (IF i \in R THEN entry ELSE file[i]) \in Entries
      BY <1>1, FileDomain
    <2>2. g \in [1 .. Len(file) -> Entries]  BY <1>1, <2>1
    <2> QED  BY <1>1, <2>2 DEF Files
  <1>3. Rows(g) \subseteq {entry} \cup {x \in Rows(file) : x.id # entry.id}
    BY DEF Rows, find_index
  <1>4. ASSUME UniqueIds(file)
        PROVE  UniqueIds(g)
    <2>1. \A i \in DOMAIN g : g[i].id = file[i].id  BY DEF find_index
    <2> QED  BY <1>4, <2>1 DEF UniqueIds
  <1>5. \A x \in Rows(file) : x.id # entry.id => x \in Rows(g)
    <2>1. \A i \in DOMAIN file : file[i].id # entry.id => g[i] = file[i]  BY DEF find_index
    <2> QED  BY <2>1 DEF Rows
  <1>6. R # {} => entry \in Rows(g)
    <2>1. \A i \in R : i \in DOMAIN g /\ g[i] = entry  BY DEF find_index
    <2> QED  BY <2>1 DEF Rows
  <1> QED  BY <1>2, <1>3, <1>4, <1>5, <1>6

\* Editing one row without changing its id.
LEMMA EditRow ==
    ASSUME NEW file \in Files, NEW i \in DOMAIN file, NEW entry \in Entries,
           entry.id = file[i].id, UniqueIds(file)
    PROVE  /\ [file EXCEPT ![i] = entry] \in Files
           /\ Rows([file EXCEPT ![i] = entry]) =
                  {entry} \cup {x \in Rows(file) : x.id # entry.id}
           /\ UniqueIds([file EXCEPT ![i] = entry])
  <1> DEFINE R == find_index(file, entry.id)
  <1>1. R = {i}  BY DEF find_index, UniqueIds
  <1>2. [file EXCEPT ![i] = entry] =
            [j \in DOMAIN file |-> IF j \in R THEN entry ELSE file[j]]
    BY <1>1
  <1>3. R # {}  BY <1>1
  <1> DEFINE g == [j \in DOMAIN file |-> IF j \in R THEN entry ELSE file[j]]
  <1>4. /\ g \in Files /\ UniqueIds(g) /\ entry \in Rows(g)
        /\ Rows(g) \subseteq {entry} \cup {x \in Rows(file) : x.id # entry.id}
        /\ \A x \in Rows(file) : x.id # entry.id => x \in Rows(g)
    BY <1>3, ReplaceRows
  <1>5. Rows(g) = {entry} \cup {x \in Rows(file) : x.id # entry.id}
    <2> HIDE DEF g
    <2> QED  BY <1>4
  <1> QED  BY <1>2, <1>4, <1>5

\* Vec::remove: what is left is the other rows.
LEMMA RemoveRow ==
    ASSUME NEW file \in Files, NEW i \in DOMAIN file, UniqueIds(file)
    PROVE  /\ RemoveAt(file, i) \in Files
           /\ Rows(RemoveAt(file, i)) = {x \in Rows(file) : x.id # file[i].id}
           /\ UniqueIds(RemoveAt(file, i))
  <1> DEFINE g == RemoveAt(file, i)
             k(j) == IF j < i THEN j ELSE j + 1
  <1>1. Len(file) \in Nat /\ DOMAIN file = 1 .. Len(file)  BY FileDomain
  <1>2. /\ g \in Files /\ Len(g) = Len(file) - 1
        /\ \A j \in 1 .. Len(file) - 1 : g[j] = IF j < i THEN file[j] ELSE file[j + 1]
    BY <1>1, RemoveAtProperties DEF Files
  <1>3. DOMAIN g = 1 .. Len(file) - 1  BY <1>2, FileDomain
  <1> HIDE DEF g
  <1>4. \A j \in DOMAIN g : k(j) \in DOMAIN file \ {i} /\ g[j] = file[k(j)]
    BY <1>1, <1>2, <1>3
  <1>5. \A j, l \in DOMAIN g : k(j) = k(l) => j = l  BY <1>1, <1>3
  <1>6. ASSUME NEW l \in DOMAIN file \ {i}
        PROVE  \E j \in DOMAIN g : k(j) = l
    <2>1. CASE l < i
      <3>1. l \in DOMAIN g /\ k(l) = l  BY <1>1, <1>3, <2>1
      <3> QED  BY <3>1
    <2>2. CASE l > i
      <3>1. l - 1 \in DOMAIN g /\ k(l - 1) = l  BY <1>1, <1>3, <2>2
      <3> QED  BY <3>1
    <2> QED  BY <1>1, <2>1, <2>2
  <1> HIDE DEF k
  <1>7. Rows(g) \subseteq {x \in Rows(file) : x.id # file[i].id}
    BY <1>4 DEF Rows, UniqueIds
  <1>8. {x \in Rows(file) : x.id # file[i].id} \subseteq Rows(g)
    BY <1>4, <1>6 DEF Rows
  <1>9. UniqueIds(g)  BY <1>4, <1>5 DEF UniqueIds
  <1> QED  BY <1>2, <1>7, <1>8, <1>9 DEF g

\* Vec::remove and Vec::insert: the same rows in another order.
LEMMA MoveRow ==
    ASSUME NEW file \in Files, NEW i \in DOMAIN file, NEW index \in 0 .. Len(file) - 1,
           UniqueIds(file)
    PROVE  /\ moved(file, i, index) \in Files
           /\ Rows(moved(file, i, index)) = Rows(file)
           /\ UniqueIds(moved(file, i, index))
  <1> DEFINE g == moved(file, i, index)
             k(j) == Permuted(i, index, j)
  <1>1. Len(file) \in Nat /\ DOMAIN file = 1 .. Len(file)  BY FileDomain
  <1>2. /\ g \in Files /\ Len(g) = Len(file)
        /\ \A j \in 1 .. Len(file) : k(j) \in 1 .. Len(file) /\ g[j] = file[k(j)]
        /\ \A j, l \in 1 .. Len(file) : k(j) = k(l) => j = l
    <2>1. file \in Seq(Entries) /\ i \in 1 .. Len(file)  BY <1>1 DEF Files
    <2>2. moved(file, i, index) \in Seq(Entries)  BY <2>1, MovedRows
    <2>3. Len(moved(file, i, index)) = Len(file)  BY <2>1, MovedRows
    <2>4. \A j \in 1 .. Len(file) :
              /\ Permuted(i, index, j) \in 1 .. Len(file)
              /\ moved(file, i, index)[j] = file[Permuted(i, index, j)]
      BY <2>1, MovedRows
    <2>5. \A j, l \in 1 .. Len(file) : Permuted(i, index, j) = Permuted(i, index, l) => j = l
      BY <1>1 DEF Permuted
    <2> QED  BY <2>2, <2>3, <2>4, <2>5 DEF Files
  <1>3. DOMAIN g = 1 .. Len(file)  BY <1>2, FileDomain
  <1>4. ASSUME NEW l \in 1 .. Len(file)
        PROVE  \E j \in 1 .. Len(file) : k(j) = l
    <2> DEFINE m == IF l < i THEN l ELSE l - 1
               j == IF m < index + 1 THEN m ELSE m + 1
    <2>1. CASE l = i
      <3>1. index + 1 \in 1 .. Len(file) /\ k(index + 1) = l  BY <1>1, <2>1 DEF Permuted
      <3> QED  BY <3>1
    <2>2. CASE l < i
      <3>1. j \in 1 .. Len(file) /\ k(j) = l  BY <1>1, <2>2 DEF Permuted
      <3> QED  BY <3>1
    <2>3. CASE l > i
      <3>1. j \in 1 .. Len(file) /\ k(j) = l  BY <1>1, <2>3 DEF Permuted
      <3> QED  BY <3>1
    <2> QED  BY <1>1, <2>1, <2>2, <2>3
  <1> HIDE DEF g, k
  <1>5. Rows(g) = Rows(file)
    <2>1. Rows(g) \subseteq Rows(file)  BY <1>1, <1>2, <1>3 DEF Rows
    <2>2. ASSUME NEW l \in DOMAIN file PROVE file[l] \in Rows(g)
      <3>1. PICK j \in 1 .. Len(file) : k(j) = l  BY <1>1, <1>4
      <3>2. j \in DOMAIN g /\ g[j] = file[l]  BY <1>2, <1>3, <3>1
      <3> QED  BY <3>2 DEF Rows
    <2>3. Rows(file) \subseteq Rows(g)  BY <2>2 DEF Rows
    <2> QED  BY <2>1, <2>3
  <1>6. ASSUME NEW j \in 1 .. Len(file), NEW l \in 1 .. Len(file), g[j].id = g[l].id
        PROVE  j = l
    <2>1. file[k(j)].id = file[k(l)].id /\ k(j) \in DOMAIN file /\ k(l) \in DOMAIN file
      BY <1>1, <1>2, <1>6
    <2>2. k(j) = k(l)  BY <2>1 DEF UniqueIds
    <2> QED  BY <1>2, <2>2
  <1>7. UniqueIds(g)  BY <1>3, <1>6 DEF UniqueIds
  <1> QED  BY <1>2, <1>7, <1>5 DEF g

\* Taking the first row off.
LEMMA TailRows ==
    ASSUME NEW file \in Files, file # <<>>
    PROVE  /\ Head(file) \in Rows(file) /\ Head(file) \in Entries
           /\ Tail(file) \in Files /\ Rows(Tail(file)) \subseteq Rows(file)
  <1>1. Len(file) \in Nat \ {0} /\ DOMAIN file = 1 .. Len(file)
    BY FileDomain, EmptySeq DEF Files
  <1>2. /\ Tail(file) \in Files /\ Len(Tail(file)) = Len(file) - 1
        /\ \A i \in 1 .. Len(Tail(file)) : Tail(file)[i] = file[i + 1]
    BY HeadTailProperties DEF Files
  <1>3. DOMAIN Tail(file) = 1 .. Len(file) - 1  BY <1>2, FileDomain
  <1>4. \A i \in DOMAIN Tail(file) : i + 1 \in DOMAIN file /\ Tail(file)[i] = file[i + 1]
    BY <1>1, <1>2, <1>3
  <1>5. Rows(Tail(file)) \subseteq Rows(file)  BY <1>4 DEF Rows
  <1>6. Head(file) = file[1] /\ 1 \in DOMAIN file  BY <1>1
  <1>7. Head(file) \in Rows(file) /\ Head(file) \in Entries  BY <1>6, FileDomain DEF Rows
  <1> QED  BY <1>2, <1>5, <1>7


-------------------------------------------------------------------------------
(***************************************************************************)
(* Type correctness.                                                       *)
(***************************************************************************)
LEMMA RefTypes ==
    /\ \A id \in Ids, f \in Fields : keyring_ref(id, f) \in Refs
    /\ \A r \in Refs : ref_owner(r) \in Ids /\ ref_field(r) \in Fields
    /\ \A e \in Entries : e.refs \subseteq Refs
    /\ \A e \in Entries : \A f : slot(e, f) \subseteq Refs
    /\ \A file \in Files : FileRefs(file) \subseteq Refs
  <1>1. \A file \in Files : FileRefs(file) \subseteq Refs
    BY FileDomain DEF FileRefs, Entries
  <1> QED  BY <1>1 DEF Refs, keyring_ref, ref_owner, ref_field, Entries, slot

LEMMA IdleType == Idle \in Tx /\ NoWrites \in [Refs -> Slot]
  <1>1. <<>> \in Files  BY EmptySeq DEF Files
  <1>2. /\ NoWrites \in [Refs -> Slot]
        /\ NoUndo \in [Refs -> Slot \cup {Untouched}]
        /\ NoCopies \in [Refs -> Refs \cup {NoRef}]
        /\ NoOwners \in [Refs -> Ids \cup {NoId}]
    BY DEF NoWrites, NoUndo, NoCopies, NoOwners, Slot
  <1>3. NoSecret \in Slot  BY DEF Slot
  <1> HIDE DEF NoWrites, NoUndo, NoCopies, NoOwners
  <1> QED  BY <1>1, <1>2, <1>3 DEF Idle, Tx

\* The fields of a call in progress, for the leaves that need no more of it.
LEMMA TxFields ==
    \A t \in Tx :
        DOMAIN t = {"at", "call", "ids", "new", "incoming", "overwrite", "given", "owner",
                    "copies", "writes", "cur", "seen", "undo", "purge", "doomed", "found"}
  BY DEF Tx

LEMMA StepType ==
    ASSUME TypeOK, NEW p \in Procs, NEW t \in Tx, tx' = [tx EXCEPT ![p] = t]
    PROVE  tx' \in [Procs -> Tx]
  BY DEF TypeOK

\* The plan of an add is a plan, and its file is a file.
LEMMA AddType ==
    ASSUME TypeOK, NEW p \in Procs, NEW id \in Ids, NEW kind \in DraftKinds[p],
           NEW mark \in Marks, NEW alias \in Ids \cup Aliases \cup {NoAlias},
           NEW fields \in SecretShapes(kind), NEW secrets \in [fields -> Values],
           add(p, id, kind, alias, mark, secrets)
    PROVE  TypeOK'
  <1> DEFINE entry == [id |-> id, kind |-> kind, alias |-> alias, mark |-> mark,
                       refs |-> minted(id, DOMAIN secrets)]
             writes == [r \in Refs |-> IF r \in entry.refs THEN secrets[ref_field(r)]
                                                           ELSE NoSecret]
  <1>1. kind \in Kinds /\ fields \subseteq Fields
    BY KindAssumption DEF SecretShapes, Kinds, Fields, SshFields
  <1>2. minted(id, fields) \subseteq Refs /\ \A r \in minted(id, fields) : ref_field(r) \in fields
    BY <1>1, RefTypes DEF minted, keyring_ref, ref_field
  <1>3. entry \in Entries  BY <1>1, <1>2 DEF Entries
  <1>4. writes \in [Refs -> Slot]  BY <1>2 DEF Slot
  <1>5. Append(disk, entry) \in Files  BY <1>3, AppendRow DEF TypeOK
  <1> HIDE DEF entry, writes
  <1> DEFINE t == [Idle EXCEPT !.at = "secrets", !.ids = {id}, !.new = Append(disk, entry),
                               !.writes = writes, !.call = "add"]
  <1>6. t \in Tx  BY <1>4, <1>5, IdleType DEF Tx
  <1>7. tx' = [tx EXCEPT ![p] = t] /\ UNCHANGED <<disk, tmp, keyring>>
    BY DEF add, Begin, entry, writes
  <1> QED  BY <1>6, <1>7, StepType DEF TypeOK

LEMMA UpdateType ==
    ASSUME TypeOK, NEW p \in Procs, NEW i \in DOMAIN disk, NEW ssh \in SshEdits,
           NEW mark \in Marks, NEW alias \in Ids \cup Aliases \cup {NoAlias},
           NEW edit \in KindEdits(disk[i].kind), update(p, i, edit, ssh, alias, mark)
    PROVE  TypeOK'
  <1> DEFINE entry == disk[i]
             refused == ssh_refused(entry, ssh)
             kind_writes == IF edit \in Values THEN kind_ref(entry) ELSE {}
             kind_refs == IF edit = "keep" THEN slot(entry, "kind") ELSE kind_writes
             ssh_writes == IF ssh.secret \in Values /\ ~refused THEN ssh_refs(entry, ssh) ELSE {}
             refs == kind_refs \cup ssh_refs(entry, ssh)
             row == [entry EXCEPT !.refs = refs, !.alias = alias, !.mark = mark]
             writes == [r \in Refs |-> CASE r \in kind_writes -> edit
                                         [] r \in ssh_writes \ kind_writes -> ssh.secret
                                         [] OTHER -> NoSecret]
             drop == entry.refs \ refs
  <1>1. entry \in Entries /\ entry.id \in Ids  BY FileDomain DEF TypeOK, Entries
  <1>2. kind_ref(entry) \subseteq Refs  BY <1>1, RefTypes DEF kind_ref, Fields
  <1>3. ssh_refs(entry, ssh) \subseteq Refs
    BY <1>1, RefTypes DEF ssh_refs, Fields
  <1>4. refs \subseteq Refs  BY <1>1, <1>2, <1>3, RefTypes
  <1>5. row \in Entries  BY <1>1, <1>4 DEF Entries
  <1>6. writes \in [Refs -> Slot]  BY DEF Slot
  <1>7. [disk EXCEPT ![i] = row] \in Files
    BY <1>5, ExceptSeq, FileDomain DEF TypeOK, Files
  <1>8. drop \in SUBSET Refs  BY <1>1, RefTypes
  <1>9. refused \in BOOLEAN  BY DEF ssh_refused
  <1> DEFINE t == [Idle EXCEPT !.at = "secrets", !.ids = {entry.id}, !.doomed = refused,
                               !.new = [disk EXCEPT ![i] = row], !.writes = writes,
                               !.purge = drop, !.call = "update"]
  <1>10. tx' = [tx EXCEPT ![p] = t] /\ UNCHANGED <<disk, tmp, keyring>>
    BY DEF update, Begin
  <1> HIDE DEF entry, refused, row, writes, drop
  <1>11. t \in Tx  BY <1>1, <1>6, <1>7, <1>8, <1>9, IdleType DEF Tx
  <1> QED  BY <1>10, <1>11, StepType DEF TypeOK

LEMMA RowEditType ==
    ASSUME TypeOK, NEW i \in DOMAIN disk, NEW row \in Entries
    PROVE  [disk EXCEPT ![i] = row] \in Files
  BY ExceptSeq, FileDomain DEF TypeOK, Files

LEMMA DeleteType ==
    ASSUME TypeOK, NEW p \in Procs, NEW i \in DOMAIN disk, delete(p, i)
    PROVE  TypeOK'
  <1>1. disk[i] \in Entries /\ disk[i].id \in Ids /\ disk[i].refs \subseteq Refs
    BY FileDomain DEF TypeOK, Entries
  <1>2. RemoveAt(disk, i) \in Files
    BY FileDomain, RemoveAtProperties DEF TypeOK, Files
  <1> DEFINE t == [Idle EXCEPT !.at = "secrets", !.ids = {disk[i].id}, !.new = RemoveAt(disk, i),
                               !.purge = disk[i].refs, !.call = "delete"]
  <1>3. t \in Tx  BY <1>1, <1>2, IdleType DEF Tx
  <1>4. tx' = [tx EXCEPT ![p] = t] /\ UNCHANGED <<disk, tmp, keyring>>
    BY DEF delete, Begin
  <1> QED  BY <1>3, <1>4, StepType DEF TypeOK

LEMMA MoveType ==
    ASSUME TypeOK, NEW p \in Procs, NEW i \in DOMAIN disk, NEW index \in 0 .. Len(disk),
           move_to(p, i, index)
    PROVE  TypeOK'
  <1>1. disk[i] \in Entries /\ disk[i].id \in Ids /\ Len(disk) \in Nat
    BY FileDomain DEF TypeOK, Entries
  <1>2. index \in 0 .. Len(disk) - 1 /\ i \in 1 .. Len(disk)
    BY <1>1, FileDomain DEF move_to, TypeOK
  <1>3. moved(disk, i, index) \in Files  BY <1>2, MovedRows DEF TypeOK, Files
  <1> DEFINE t == [Idle EXCEPT !.at = "secrets", !.ids = {disk[i].id},
                               !.new = moved(disk, i, index), !.call = "move_to"]
  <1>4. t \in Tx  BY <1>1, <1>3, IdleType DEF Tx
  <1>5. tx' = [tx EXCEPT ![p] = t] /\ UNCHANGED <<disk, tmp, keyring>>
    BY DEF move_to, Begin
  <1> QED  BY <1>4, <1>5, StepType DEF TypeOK

LEMMA MarkType ==
    ASSUME TypeOK, NEW p \in Procs, NEW i \in DOMAIN disk, NEW mark \in Marks,
           set_mark(p, i, mark)
    PROVE  TypeOK'
  <1>1. disk[i] \in Entries /\ disk[i].id \in Ids
    BY FileDomain DEF TypeOK, Entries
  <1>2. [disk[i] EXCEPT !.mark = mark] \in Entries  BY <1>1 DEF Entries
  <1>3. [disk EXCEPT ![i].mark = mark] \in Files  BY <1>2, RowEditType
  <1> DEFINE t == [Idle EXCEPT !.at = "secrets", !.ids = {disk[i].id},
                               !.new = [disk EXCEPT ![i].mark = mark], !.call = "set_mark"]
  <1>4. t \in Tx  BY <1>1, <1>3, IdleType DEF Tx
  <1>5. tx' = [tx EXCEPT ![p] = t] /\ UNCHANGED <<disk, tmp, keyring>>
    BY DEF set_mark, Begin
  <1> QED  BY <1>4, <1>5, StepType DEF TypeOK

LEMMA DuplicateType ==
    ASSUME TypeOK, NEW p \in Procs, NEW i \in DOMAIN disk, NEW new_id \in Ids,
           duplicate(p, i, new_id)
    PROVE  TypeOK'
  <1> DEFINE source == disk[i]
             copied(r) == keyring_ref(new_id, ref_field(r))
             copy == [source EXCEPT !.id = new_id, !.alias = NoAlias, !.mark = NoMark,
                                    !.refs = {copied(r) : r \in source.refs}]
             copies == [r \in Refs |-> IF r \in copy.refs
                                       THEN keyring_ref(source.id, ref_field(r)) ELSE NoRef]
  <1>1. source \in Entries /\ source.id \in Ids /\ source.refs \subseteq Refs
    BY FileDomain DEF TypeOK, Entries
  <1>2. \A r \in Refs : copied(r) \in Refs /\ keyring_ref(source.id, ref_field(r)) \in Refs
    BY <1>1, RefTypes
  <1>3. copy \in Entries  BY <1>1, <1>2, MarkAssumption DEF Entries
  <1>4. copies \in [Refs -> Refs \cup {NoRef}]  BY <1>2
  <1>5. Append(disk, copy) \in Files  BY <1>3, AppendRow DEF TypeOK
  <1> DEFINE t == [Idle EXCEPT !.at = "copy", !.ids = {new_id}, !.new = Append(disk, copy),
                               !.copies = copies, !.call = "duplicate"]
  <1>6. tx' = [tx EXCEPT ![p] = t] /\ UNCHANGED <<disk, tmp, keyring>>
    BY DEF duplicate, Begin
  <1> HIDE DEF copy, copies
  <1>7. t \in Tx  BY <1>4, <1>5, IdleType DEF Tx
  <1> QED  BY <1>6, <1>7, StepType DEF TypeOK

LEMMA RepairType ==
    ASSUME TypeOK, NEW p \in Procs, NEW i \in DOMAIN disk, NEW key_ref \in Refs,
           NEW secret \in Values, repair_foreign_ref(p, i, key_ref, secret)
    PROVE  TypeOK'
  <1> DEFINE entry == disk[i]
             own_ref == keyring_ref(entry.id, ref_field(key_ref))
             row == [entry EXCEPT !.refs = (@ \ {key_ref}) \cup {own_ref}]
             writes == [NoWrites EXCEPT ![own_ref] = secret]
  <1>1. entry \in Entries /\ entry.id \in Ids /\ entry.refs \subseteq Refs
    BY FileDomain DEF TypeOK, Entries
  <1>2. own_ref \in Refs  BY <1>1, RefTypes
  <1>3. row \in Entries  BY <1>1, <1>2 DEF Entries
  <1>4. writes \in [Refs -> Slot]  BY <1>2, IdleType DEF Slot
  <1>5. [disk EXCEPT ![i].refs = (@ \ {key_ref}) \cup {own_ref}] \in Files
    BY <1>3, RowEditType
  <1> DEFINE t == [Idle EXCEPT !.at = "secrets", !.ids = {entry.id},
                               !.new = [disk EXCEPT ![i].refs = (@ \ {key_ref}) \cup {own_ref}],
                               !.writes = writes, !.call = "repair_foreign_ref"]
  <1>6. tx' = [tx EXCEPT ![p] = t] /\ UNCHANGED <<disk, tmp, keyring>>
    BY DEF repair_foreign_ref, Begin
  <1> HIDE DEF own_ref, row, writes
  <1>7. t \in Tx  BY <1>1, <1>4, <1>5, IdleType DEF Tx
  <1> QED  BY <1>6, <1>7, StepType DEF TypeOK

\* Every slot a file points at has an owner: the last row that holds it.
LEMMA OwnersType ==
    ASSUME NEW file \in Files
    PROVE  /\ ref_owners(file) \in [Refs -> Ids \cup {NoId}]
           /\ \A r \in FileRefs(file) :
                 \E i \in DOMAIN file : r \in file[i].refs /\ ref_owners(file)[r] = file[i].id
  <1> DEFINE last(r, i) == /\ r \in file[i].refs
                           /\ \A j \in DOMAIN file : r \in file[j].refs => j <= i
             owner(r) == CHOOSE i \in DOMAIN file : last(r, i)
  <1>1. ASSUME NEW r \in Refs, r \in FileRefs(file)
        PROVE  owner(r) \in DOMAIN file /\ last(r, owner(r))
    <2> DEFINE R == {i \in DOMAIN file : r \in file[i].refs}
    <2>1. Len(file) \in Nat /\ R \subseteq 1 .. Len(file) /\ R # {}
      BY <1>1, FileDomain DEF FileRefs
    <2>2. PICK i \in R : \A j \in R : j <= i
      <3> HIDE DEF R
      <3> QED  BY <2>1, LastRow
    <2>3. i \in DOMAIN file /\ last(r, i)  BY <2>2
    <2> QED  BY <2>3
  <1>2. \A r \in Refs : ref_owners(file)[r] = IF r \notin FileRefs(file) THEN NoId
                                              ELSE file[owner(r)].id
    BY DEF ref_owners
  <1>3. \A r \in FileRefs(file) : r \in Refs  BY RefTypes
  <1>4. \A i \in DOMAIN file : file[i].id \in Ids  BY FileDomain DEF Entries
  <1>5. ref_owners(file) = [r \in Refs |-> ref_owners(file)[r]]  BY DEF ref_owners
  <1> HIDE DEF owner
  <1>6. \A r \in Refs : ref_owners(file)[r] \in Ids \cup {NoId}  BY <1>1, <1>2, <1>4
  <1> QED  BY <1>1, <1>2, <1>3, <1>5, <1>6

LEMMA ImportType ==
    ASSUME TypeOK, NEW p \in Procs, NEW bundle \in Bundles, NEW overwrite \in BOOLEAN,
           import_bundle(p, bundle, overwrite)
    PROVE  TypeOK'
  <1>1. bundle.entries \in Files /\ bundle.secrets \in [Refs -> Slot]
    BY BundleAssumption DEF Bundle
  <1>2. ref_owners(disk) \in [Refs -> Ids \cup {NoId}]  BY OwnersType DEF TypeOK
  <1> DEFINE t == [Idle EXCEPT !.at = "import", !.new = disk, !.incoming = bundle.entries,
                               !.overwrite = overwrite, !.owner = ref_owners(disk),
                               !.given = bundle.secrets, !.call = "import_bundle"]
  <1>3. t \in Tx  BY <1>1, <1>2, IdleType DEF Tx, TypeOK
  <1>4. tx' = [tx EXCEPT ![p] = t] /\ UNCHANGED <<disk, tmp, keyring>>
    BY DEF import_bundle, Begin
  <1> QED  BY <1>3, <1>4, StepType DEF TypeOK

\* Taking the next entry of a bundle into the new file.
LEMMA AcceptType ==
    ASSUME TypeOK, NEW p \in Procs, accept(p)
    PROVE  TypeOK'
  <1> DEFINE t == tx[p]
             entry == Head(t.incoming)
             rows == find_index(t.new, entry.id)
             owner == [r \in Refs |-> IF r \in entry.refs THEN entry.id ELSE t.owner[r]]
             writes == [r \in Refs |-> IF r \in entry.refs /\ t.given[r] # NoSecret
                                       THEN t.given[r] ELSE t.writes[r]]
             new == IF rows = {} THEN Append(t.new, entry)
                    ELSE [j \in DOMAIN t.new |-> IF j \in rows THEN entry ELSE t.new[j]]
             drop == t.purge \cup ((UNION {t.new[j].refs : j \in rows}) \ entry.refs)
             u == [t EXCEPT !.incoming = Tail(t.incoming), !.ids = t.ids \cup {entry.id},
                            !.owner = owner, !.writes = writes, !.new = new, !.purge = drop]
  <1>1. t \in Tx /\ t.incoming # <<>> /\ t.new \in Files /\ t.incoming \in Files
    BY DEF TypeOK, accept, Tx
  <1>2. entry \in Entries /\ Tail(t.incoming) \in Files
    BY <1>1, HeadTailProperties DEF Files
  <1>3. entry.id \in Ids /\ entry.refs \subseteq Refs  BY <1>2 DEF Entries
  <1>4. owner \in [Refs -> Ids \cup {NoId}]  BY <1>1, <1>3 DEF Tx
  <1>5. writes \in [Refs -> Slot]  BY <1>1 DEF Tx
  <1>6. new \in Files  BY <1>1, <1>2, AppendRow, ReplaceRows
  <1>7. drop \subseteq Refs
    <2>1. \A j \in rows : t.new[j].refs \subseteq Refs
      BY <1>1, FileDomain DEF Entries, find_index
    <2>2. t.purge \subseteq Refs  BY <1>1 DEF Tx
    <2> QED  BY <2>1, <2>2
  <1>8. tx' = [tx EXCEPT ![p] = u] /\ UNCHANGED <<disk, tmp, keyring>>
    BY DEF accept, Step
  <1> HIDE DEF t, entry, owner, writes, new, drop
  <1>9. u \in Tx  BY <1>1, <1>2, <1>3, <1>4, <1>5, <1>6, <1>7 DEF Tx
  <1> QED  BY <1>8, <1>9, StepType DEF TypeOK

\* The steps of a call in progress, and its end.
LEMMA ProceedType ==
    ASSUME TypeOK, NEW p \in Procs, Proceed(p) \/ crash(p)
    PROVE  TypeOK'
  <1> DEFINE t == tx[p]
  <1>0. /\ t \in Tx /\ tx \in [Procs -> Tx]
        /\ NoSecret \in Slot /\ NoRef \notin Refs
    BY SecretAssumption, RefAssumption DEF TypeOK, Slot
  <1>1. CASE pass_over(p)
    <2>1. t.incoming # <<>> /\ t.incoming \in Files  BY <1>0, <1>1 DEF pass_over, Tx
    <2>2. Tail(t.incoming) \in Files  BY <2>1, HeadTailProperties DEF Files
    <2>3. [t EXCEPT !.incoming = Tail(t.incoming)] \in Tx  BY <1>0, <2>2 DEF Tx
    <2> QED  BY <1>1, <2>3, StepType DEF pass_over, Step, TypeOK
  <1>2. CASE accept(p)  BY <1>2, AcceptType
  <1>3. CASE accepted_all(p)
    <2>1. [t EXCEPT !.at = "secrets", !.given = NoWrites,
                    !.owner = NoOwners, !.overwrite = FALSE] \in Tx
      BY <1>0, IdleType DEF Tx, NoOwners
    <2> QED  BY <1>3, <2>1, IdleType, StepType DEF accepted_all, Step, TypeOK
  <1>4. CASE copy_secrets(p)
    <2> DEFINE copied == {r \in Refs : t.copies[r] # NoRef}
               writes == [r \in Refs |-> IF r \in copied THEN keyring[t.copies[r]] ELSE NoSecret]
    <2>1. \A r \in copied : t.copies[r] \in Refs  BY <1>0 DEF Tx
    <2>2. writes \in [Refs -> Slot]  BY <1>0, <2>1 DEF TypeOK
    <2>3. NoCopies \in [Refs -> Refs \cup {NoRef}]  BY DEF NoCopies
    <2>4. \/ tx' = [tx EXCEPT ![p] = [t EXCEPT !.at = "secrets", !.copies = NoCopies,
                                               !.writes = writes]]
          \/ tx' = [tx EXCEPT ![p] = Idle]
      BY <1>4 DEF copy_secrets, Step
    <2>5. UNCHANGED <<disk, tmp, keyring>>  BY <1>4 DEF copy_secrets
    <2> HIDE DEF writes
    <2>6. [t EXCEPT !.at = "secrets", !.copies = NoCopies, !.writes = writes] \in Tx
      BY <1>0, <2>2, <2>3 DEF Tx
    <2> QED  BY <2>4, <2>5, <2>6, IdleType, StepType DEF TypeOK
  <1>5. CASE look(p)
    <2>1. PICK r \in Refs :
             \/ Step(p, [t EXCEPT !.cur = r, !.seen = keyring[r]])
             \/ Step(p, [t EXCEPT !.cur = r, !.seen = NoSecret])
             \/ Step(p, [t EXCEPT !.at = "undo", !.writes = NoWrites])
             \/ Step(p, [t EXCEPT !.cur = r])
      BY <1>5 DEF look, pending
    <2>2. keyring[r] \in Slot  BY DEF TypeOK
    <2>3. /\ [t EXCEPT !.cur = r, !.seen = keyring[r]] \in Tx
          /\ [t EXCEPT !.cur = r, !.seen = NoSecret] \in Tx
          /\ [t EXCEPT !.at = "undo", !.writes = NoWrites] \in Tx
          /\ [t EXCEPT !.cur = r] \in Tx
      BY <1>0, <2>2, IdleType DEF Tx
    <2>4. UNCHANGED <<disk, tmp, keyring>>  BY <1>5 DEF look
    <2> QED  BY <2>1, <2>3, <2>4, StepType DEF Step, TypeOK
  <1>6. CASE put(p)
    <2> DEFINE u == [t EXCEPT !.cur = NoRef, !.seen = NoSecret, !.undo[t.cur] = t.seen,
                              !.found[t.cur] = keyring[t.cur], !.writes[t.cur] = NoSecret]
    <2>1. t.cur \in Refs  BY <1>0, <1>6 DEF put, Tx
    <2>2. keyring[t.cur] \in Slot /\ t.seen \in Slot /\ t.writes[t.cur] \in Slot
      BY <1>0, <2>1 DEF TypeOK, Tx
    <2>3. u \in Tx  BY <1>0, <2>2 DEF Tx
    <2>4. keyring' \in [Refs -> Slot]  BY <1>6, <2>2 DEF put, TypeOK
    <2> QED  BY <1>6, <2>3, <2>4, StepType DEF put, Step, TypeOK
  <1>7. CASE put_fails(p)
    <2>1. [t EXCEPT !.at = "undo", !.cur = NoRef, !.seen = NoSecret, !.writes = NoWrites] \in Tx
      BY <1>0, IdleType DEF Tx
    <2> QED  BY <1>7, <2>1, StepType DEF put_fails, Step, TypeOK
  <1>8. [t EXCEPT !.at = "undo"] \in Tx /\ [t EXCEPT !.at = "rename"] \in Tx  BY <1>0 DEF Tx
  <1>9. CASE refuse(p)  BY <1>8, <1>9, StepType DEF refuse, Step, TypeOK
  <1>10. CASE save_tmp(p)  BY <1>8, <1>10, StepType DEF save_tmp, Step, TypeOK
  <1>11. CASE save_tmp_fails(p)  BY <1>8, <1>11, StepType DEF save_tmp_fails, Step, TypeOK
  <1>12. CASE rename(p)
    <2>1. NoUndo \in [Refs -> Slot \cup {Untouched}] /\ <<>> \in Files
      BY EmptySeq DEF NoUndo, Files
    <2>2. [t EXCEPT !.at = "purge", !.new = <<>>, !.undo = NoUndo, !.found = NoUndo] \in Tx
      BY <1>0, <2>1 DEF Tx
    <2>3. t.new \in Files  BY <1>0 DEF Tx
    <2> QED  BY <1>12, <2>2, <2>3, StepType DEF rename, Step, TypeOK
  <1>13. CASE rename_fails(p)  BY <1>8, <1>13, StepType DEF rename_fails, Step, TypeOK
  <1>14. CASE purge(p)
    <2>1. PICK r \in t.purge : Step(p, [t EXCEPT !.purge = t.purge \ {r}])
      BY <1>14 DEF purge
    <2>2. [t EXCEPT !.purge = t.purge \ {r}] \in Tx  BY <1>0 DEF Tx
    <2>3. keyring' \in [Refs -> Slot]  BY <1>0, <1>14 DEF purge, TypeOK
    <2> QED  BY <1>14, <2>1, <2>2, <2>3, StepType DEF purge, Step, TypeOK
  <1>15. CASE undo(p)
    <2>1. PICK r \in undoable(t) :
             /\ Step(p, [t EXCEPT !.undo[r] = Untouched])
             /\ keyring' = [keyring EXCEPT ![r] = t.undo[r]] \/ UNCHANGED keyring
      BY <1>15 DEF undo
    <2>2. r \in Refs /\ t.undo[r] \in Slot  BY <1>0 DEF undoable, Tx
    <2>3. [t EXCEPT !.undo[r] = Untouched] \in Tx  BY <1>0, <2>2 DEF Tx
    <2>4. keyring' \in [Refs -> Slot]  BY <2>1, <2>2 DEF TypeOK
    <2> QED  BY <1>15, <2>1, <2>3, <2>4, StepType DEF undo, Step, TypeOK
  <1>16. CASE return_ok(p) \/ return_err(p) \/ crash(p)
    BY <1>16, IdleType, StepType DEF return_ok, return_err, crash, TypeOK
  <1> QED
    BY <1>1, <1>2, <1>3, <1>4, <1>5, <1>6, <1>7, <1>9, <1>10, <1>11, <1>12, <1>13, <1>14,
       <1>15, <1>16 DEF Proceed

\* Every variable keeps its shape, whatever is called and whatever fails.
THEOREM TypeCorrect == Spec => []TypeOK
  <1>1. Init => TypeOK
    BY IdleType, EmptySeq DEF Init, TypeOK, Slot, Files
  <1>2. TypeOK /\ [Next]_vars => TypeOK'
    <2> SUFFICES ASSUME TypeOK, [Next]_vars PROVE TypeOK'  OBVIOUS
    <2>1. CASE UNCHANGED vars  BY <2>1 DEF vars, TypeOK
    <2>2. CASE Next
      <3>1. PICK p \in Procs : Call(p) \/ Proceed(p) \/ crash(p)  BY <2>2 DEF Next
      <3>2. CASE Call(p)
        BY <3>2, AddType, UpdateType, DeleteType, MoveType, MarkType, DuplicateType,
           RepairType, ImportType DEF Call
      <3> QED  BY <3>1, <3>2, ProceedType
    <2> QED  BY <2>1, <2>2
  <1> QED  BY <1>1, <1>2, PTL DEF Spec
-------------------------------------------------------------------------------
(***************************************************************************)
(* What a step of one process leaves alone.                                *)
(***************************************************************************)
\* A call that has written nothing, or need not know of it any more.
Forgets(p) == /\ tx'[p].undo = NoUndo /\ tx'[p].found = NoUndo
              /\ tx'[p].cur = NoRef /\ tx'[p].seen = NoSecret

\* Beginning a call changes nothing but the call.
Begun(p) == /\ tx[p].at = "idle"
            /\ tx'[p].at \in {"import", "copy", "secrets"}
            /\ Forgets(p)
            /\ \A q \in Procs : q # p => tx'[q] = tx[q]
            /\ UNCHANGED <<disk, tmp, keyring>>

LEMMA CallFrame ==
    ASSUME TypeOK, NEW p \in Procs, Call(p)
    PROVE  Begun(p)
  <1>0. p \in DOMAIN tx  BY DEF TypeOK
  <1>1. ASSUME NEW id, NEW kind, NEW mark, NEW alias, NEW secrets,
               add(p, id, kind, alias, mark, secrets)
        PROVE  Begun(p)
    BY <1>0, <1>1 DEF add, Begin, Begun, Forgets, Idle, TypeOK
  <1>2. ASSUME NEW i, NEW ssh, NEW mark, NEW alias, NEW edit,
               update(p, i, edit, ssh, alias, mark)
        PROVE  Begun(p)
    BY <1>0, <1>2 DEF update, Begin, Begun, Forgets, Idle, TypeOK
  <1>3. ASSUME NEW i, delete(p, i)
        PROVE  Begun(p)
    BY <1>0, <1>3 DEF delete, Begin, Begun, Forgets, Idle, TypeOK
  <1>4. ASSUME NEW i, NEW index, move_to(p, i, index)
        PROVE  Begun(p)
    BY <1>0, <1>4 DEF move_to, Begin, Begun, Forgets, Idle, TypeOK
  <1>5. ASSUME NEW i, NEW mark, set_mark(p, i, mark)
        PROVE  Begun(p)
    BY <1>0, <1>5 DEF set_mark, Begin, Begun, Forgets, Idle, TypeOK
  <1>6. ASSUME NEW i, NEW new_id, duplicate(p, i, new_id)
        PROVE  Begun(p)
    BY <1>0, <1>6 DEF duplicate, Begin, Begun, Forgets, Idle, TypeOK
  <1>7. ASSUME NEW i, NEW key_ref, NEW secret, repair_foreign_ref(p, i, key_ref, secret)
        PROVE  Begun(p)
    BY <1>0, <1>7 DEF repair_foreign_ref, Begin, Begun, Forgets, Idle, TypeOK
  <1>8. ASSUME NEW bundle, NEW overwrite, import_bundle(p, bundle, overwrite)
        PROVE  Begun(p)
    BY <1>0, <1>8 DEF import_bundle, Begin, Begun, Forgets, Idle, TypeOK
  <1> QED
    BY <1>1, <1>2, <1>3, <1>4, <1>5, <1>6, <1>7, <1>8 DEF Call

\* A step inside a call changes no other call.
LEMMA ProceedFrame ==
    ASSUME TypeOK, NEW p \in Procs, Proceed(p) \/ crash(p)
    PROVE  \A q \in Procs : q # p => tx'[q] = tx[q]
  <1>1. PICK t : Step(p, t)
    <2>1. CASE pass_over(p) \/ accept(p) \/ accepted_all(p) \/ copy_secrets(p) \/ look(p)
      BY <2>1 DEF pass_over, accept, accepted_all, copy_secrets, look, Step
    <2>2. CASE put(p) \/ put_fails(p) \/ refuse(p) \/ save_tmp(p) \/ save_tmp_fails(p)
      BY <2>2 DEF put, put_fails, refuse, save_tmp, save_tmp_fails, Step
    <2>3. CASE rename(p) \/ rename_fails(p) \/ purge(p) \/ undo(p)
      BY <2>3 DEF rename, rename_fails, purge, undo, Step
    <2>4. CASE return_ok(p) \/ return_err(p) \/ crash(p)
      BY <2>4 DEF return_ok, return_err, crash, Step
    <2> QED  BY <2>1, <2>2, <2>3, <2>4 DEF Proceed
  <1> QED  BY <1>1 DEF Step, TypeOK
-------------------------------------------------------------------------------
(***************************************************************************)
(* Saves are kept apart by the exclusive creation of the temporary file:   *)
(* whoever is about to rename it made it, so nobody else has.              *)
(***************************************************************************)
SaveInv == OneSaveAtATime /\ \A p \in Procs : tx[p].at = "rename" => tmp

\* No two processes ever have a save in progress, however many there are,
\* whatever fails and whoever dies.
THEOREM SavesAreExclusive == Spec => []OneSaveAtATime
  <1>1. Init => SaveInv
    BY DEF Init, SaveInv, OneSaveAtATime, Idle
  <1>2. TypeOK /\ SaveInv /\ [Next]_vars => SaveInv'
    <2> SUFFICES ASSUME TypeOK, SaveInv, [Next]_vars PROVE SaveInv'  OBVIOUS
    <2>1. CASE UNCHANGED vars  BY <2>1 DEF vars, SaveInv, OneSaveAtATime
    <2>2. ASSUME NEW p \in Procs, Call(p) PROVE SaveInv'
      BY <2>2, CallFrame DEF Begun, SaveInv, OneSaveAtATime
    <2>3. ASSUME NEW p \in Procs, Proceed(p) \/ crash(p) PROVE SaveInv'
      <3>1. /\ \A q \in Procs : q # p => tx'[q] = tx[q]
            /\ p \in DOMAIN tx /\ Idle.at = "idle"
            /\ DOMAIN tx[p] = {"at", "call", "ids", "new", "incoming", "overwrite", "given",
                               "owner", "copies", "writes", "cur", "seen", "undo", "purge",
                               "doomed", "found"}
        BY <2>3, ProceedFrame, TxFields DEF TypeOK, Idle
      <3>2. CASE save_tmp(p)
        <4>1. ~tmp /\ tmp'  BY <3>2 DEF save_tmp
        <4> QED  BY <3>1, <4>1 DEF SaveInv, OneSaveAtATime
      <3>3. CASE rename(p) \/ rename_fails(p)
        <4>1. tx[p].at = "rename"  BY <3>3 DEF rename, rename_fails
        <4>2. CASE rename(p)
          <5>1. tx'[p].at = "purge"  BY <3>1, <4>2 DEF rename, Step
          <5> QED  BY <3>1, <4>1, <5>1 DEF SaveInv, OneSaveAtATime
        <4>3. CASE rename_fails(p)
          <5>1. tx'[p].at = "undo"  BY <3>1, <4>3 DEF rename_fails, Step
          <5> QED  BY <3>1, <4>1, <5>1 DEF SaveInv, OneSaveAtATime
        <4> QED  BY <3>3, <4>2, <4>3
      <3>4. ASSUME tx'[p].at # "rename", tmp => tmp'
            PROVE  SaveInv'
        BY <3>1, <3>4 DEF SaveInv, OneSaveAtATime
      <3>5. CASE pass_over(p) \/ accepted_all(p)
        <4>1. tx'[p].at \in {"import", "secrets", "idle"} /\ tmp' = tmp
          <5>1. CASE pass_over(p)  BY <3>1, <5>1 DEF pass_over, Step
          <5>2. CASE accepted_all(p)  BY <3>1, <5>2 DEF accepted_all, Step
          <5> QED  BY <3>5, <5>1, <5>2
        <4> QED  BY <3>4, <4>1
      <3>6. CASE accept(p)
        <4>1. tx[p].at = "import" /\ tx'[p].at = "import" /\ tmp' = tmp
          BY <3>1, <3>6 DEF accept, Step
        <4> QED  BY <3>4, <4>1
      <3>7. CASE copy_secrets(p)
        <4>1. tx'[p].at \in {"secrets", "idle"} /\ tmp' = tmp
          <5>1. PICK w : \/ tx' = [tx EXCEPT ![p] = [tx[p] EXCEPT
                               !.at = "secrets", !.copies = NoCopies, !.writes = w]]
                         \/ tx' = [tx EXCEPT ![p] = Idle]
            BY <3>7 DEF copy_secrets, Step
          <5>2. tmp' = tmp  BY <3>7 DEF copy_secrets
          <5> QED  BY <3>1, <5>1, <5>2
        <4> QED  BY <3>4, <4>1
      <3>8. CASE look(p)
        <4>1. PICK r : \/ Step(p, [tx[p] EXCEPT !.cur = r, !.seen = keyring[r]])
                      \/ Step(p, [tx[p] EXCEPT !.cur = r, !.seen = NoSecret])
                      \/ Step(p, [tx[p] EXCEPT !.at = "undo", !.writes = NoWrites])
                      \/ Step(p, [tx[p] EXCEPT !.cur = r])
          BY <3>8 DEF look
        <4>2. tx[p].at = "secrets" /\ tmp' = tmp  BY <3>8 DEF look
        <4>3. tx'[p].at \in {"secrets", "undo"}  BY <3>1, <4>1, <4>2 DEF Step
        <4> QED  BY <3>4, <4>2, <4>3
      <3>9. CASE put(p) \/ put_fails(p)
        <4>1. CASE put(p)
          <5>1. tx'[p].at = "secrets" /\ tmp' = tmp  BY <3>1, <4>1 DEF put, Step
          <5> QED  BY <3>4, <5>1
        <4>2. CASE put_fails(p)
          <5>1. tx'[p].at = "undo" /\ tmp' = tmp  BY <3>1, <4>2 DEF put_fails, Step
          <5> QED  BY <3>4, <5>1
        <4> QED  BY <3>9, <4>1, <4>2
      <3>10. CASE refuse(p) \/ save_tmp_fails(p)
        BY <3>1, <3>4, <3>10 DEF refuse, save_tmp_fails, Step
      <3>11. CASE purge(p) \/ undo(p)
        BY <3>1, <3>4, <3>11 DEF purge, undo, Step
      <3>12. CASE return_ok(p) \/ return_err(p) \/ crash(p)
        BY <3>1, <3>4, <3>12 DEF return_ok, return_err, crash, Idle
      <3> QED  BY <2>3, <3>2, <3>3, <3>5, <3>6, <3>10, <3>11, <3>12, <3>7,
                <3>8, <3>9 DEF Proceed
    <2> QED  BY <2>1, <2>2, <2>3 DEF Next
  <1>3. SaveInv => OneSaveAtATime  BY DEF SaveInv
  <1> QED  BY <1>1, <1>2, <1>3, TypeCorrect, PTL DEF Spec
-------------------------------------------------------------------------------
(***************************************************************************)
(* One process, bundles this program exported from a healthy store, and an *)
(* import that can read the keychain: then no failure and no crash ever    *)
(* leaves a reference without its secret, and no call reaches a slot of a  *)
(* connection it is not about.                                             *)
(***************************************************************************)
OneWriter == \A p, q \in Procs : p = q

BundlesOwned ==
    \A bundle \in Bundles : \A row \in Rows(bundle.entries) :
        foreign_refs(row) = {} /\ \A r \in row.refs : bundle.secrets[r] # NoSecret

Healthy == OneWriter /\ BundlesOwned /\ "peek" \notin Faults

Sound(file) == UniqueIds(file) /\ \A row \in Rows(file) : foreign_refs(row) = {}

staged(t) == t.at \in {"import", "copy", "secrets", "rename"}

copying(t) == {r \in Refs : t.copies[r] # NoRef}

\* Every slot a call still means to touch is a slot of a connection it is about.
Confined(t) ==
    \A r \in pending(t) \cup undoable(t) \cup t.purge \cup copying(t) : ref_owner(r) \in t.ids

\* The file a call will save is sound, its slots are full or about to be, and
\* it keeps none of the slots the call will purge.
NewSound(t) == staged(t) => Sound(t.new)

NewComplete(t, keys) ==
    staged(t) /\ ~t.doomed =>
        \A r \in FileRefs(t.new) :
            keys[r] # NoSecret \/ t.writes[r] # NoSecret \/ t.copies[r] # NoRef

PurgeSafe(t, file) ==
    /\ staged(t) /\ ~t.doomed => t.purge \cap FileRefs(t.new) = {}
    /\ t.at = "purge" => t.purge \cap FileRefs(file) = {}

\* What the bundle still holds is its own, with its secrets.
IncomingOwned(t) ==
    t.at = "import" =>
        \A row \in Rows(t.incoming) :
            foreign_refs(row) = {} /\ \A r \in row.refs : t.given[r] # NoSecret

\* What a call writes is for the file it will save, and that file drops no slot
\* the call will not purge.
NewHolds(t, file) ==
    staged(t) /\ ~t.doomed =>
        /\ pending(t) \cup undoable(t) \cup copying(t) \subseteq FileRefs(t.new)
        /\ FileRefs(file) \subseteq FileRefs(t.new) \cup t.purge

\* Undoing a write deletes no slot in use.
UndoSafe(t, file) ==
    /\ t.at \in {"secrets", "rename", "undo"} =>
           \A r \in FileRefs(file) : t.undo[r] # NoSecret
    /\ t.at = "secrets" /\ t.cur # NoRef =>
           t.cur \in pending(t) /\ (t.seen = NoSecret => t.cur \notin FileRefs(file))

\* A call that does not look before it writes writes no slot in use.
BlindSafe(t, file) ==
    /\ t.at = "secrets" /\ t.call \notin {"update", "import_bundle"} =>
           pending(t) \cap FileRefs(file) = {}
    /\ t.at = "copy" => t.call = "duplicate" /\ copying(t) \cap FileRefs(file) = {}

\* What a call has not begun, or has finished, is empty, and it writes no slot
\* twice.
Orderly(t) ==
    /\ t.at # "copy" => copying(t) = {}
    /\ t.at = "copy" => pending(t) = {}
    /\ t.at \in {"idle", "import", "copy", "purge"} => undoable(t) = {}
    /\ pending(t) \cap undoable(t) = {}
    /\ t.at # "secrets" => t.cur = NoRef
    /\ t.cur = NoRef => t.seen = NoSecret
    /\ t.at = "rename" => pending(t) = {} /\ ~t.doomed
    /\ t.at = "import" => t.call = "import_bundle"

Safe(t, file, keys) ==
    /\ Confined(t) /\ NewSound(t) /\ NewComplete(t, keys) /\ NewHolds(t, file)
    /\ PurgeSafe(t, file) /\ IncomingOwned(t) /\ UndoSafe(t, file) /\ BlindSafe(t, file)
    /\ Orderly(t)

SafeInv == /\ Sound(disk) /\ NoDanglingRef
           /\ \A p \in Procs : Safe(tx[p], disk, keyring)

LEMMA RowRefs ==
    ASSUME NEW file \in Files
    PROVE  /\ \A r : r \in FileRefs(file) <=> \E row \in Rows(file) : r \in row.refs
           /\ \A i \in DOMAIN file : file[i] \in Rows(file)
           /\ \A row \in Rows(file) : row \in Entries
  BY FileDomain DEF FileRefs, Rows

\* In a sound file a slot belongs to the row that is its owner's.
LEMMA SoundOwner ==
    ASSUME NEW file \in Files, Sound(file)
    PROVE  /\ \A r \in FileRefs(file) : ref_owner(r) \in entry_ids(file)
           /\ \A i \in DOMAIN file : \A r \in FileRefs(file) :
                 ref_owner(r) = file[i].id => r \in file[i].refs
           /\ \A i \in DOMAIN file : \A r \in file[i].refs : ref_owner(r) = file[i].id
  <1>1. \A i \in DOMAIN file : \A r \in file[i].refs : ref_owner(r) = file[i].id
    BY RowRefs DEF Sound, foreign_refs
  <1>2. \A r \in FileRefs(file) : \E i \in DOMAIN file : r \in file[i].refs
    BY DEF FileRefs
  <1> QED  BY <1>1, <1>2 DEF Sound, UniqueIds, entry_ids

\* A file that keeps every row but those of one id drops only slots of theirs.
LEMMA OthersKeepRefs ==
    ASSUME NEW file \in Files, NEW new \in Files, NEW id,
           \A x \in Rows(file) : x.id # id => x \in Rows(new)
    PROVE  \A r \in FileRefs(file) :
              \/ r \in FileRefs(new)
              \/ \E i \in DOMAIN file : file[i].id = id /\ r \in file[i].refs
  <1> SUFFICES ASSUME NEW r \in FileRefs(file)
               PROVE  \/ r \in FileRefs(new)
                      \/ \E i \in DOMAIN file : file[i].id = id /\ r \in file[i].refs
    OBVIOUS
  <1>1. PICK i \in DOMAIN file : r \in file[i].refs  BY DEF FileRefs
  <1>2. CASE file[i].id = id  BY <1>1, <1>2
  <1>3. CASE file[i].id # id
    <2>1. file[i] \in Rows(new)  BY <1>3 DEF Rows
    <2> QED  BY <1>1, <2>1, RowRefs
  <1> QED  BY <1>2, <1>3

LEMMA IdleSafe ==
    ASSUME NEW file, NEW keys
    PROVE  Safe(Idle, file, keys)
  <1>1. /\ Idle.at = "idle" /\ Idle.writes = NoWrites /\ Idle.undo = NoUndo
        /\ Idle.copies = NoCopies /\ Idle.purge = {} /\ Idle.cur = NoRef
        /\ Idle.seen = NoSecret
    BY DEF Idle
  <1>2. pending(Idle) = {} /\ undoable(Idle) = {} /\ copying(Idle) = {}
    BY <1>1 DEF pending, undoable, copying, NoWrites, NoUndo, NoCopies
  <1> QED
    BY <1>1, <1>2 DEF Safe, Confined, NewSound, NewComplete, NewHolds, PurgeSafe, IncomingOwned,
                      UndoSafe, BlindSafe, Orderly, staged

\* With one writer, only the call that steps has to be looked at.
LEMMA OneStep ==
    ASSUME OneWriter, NEW p \in Procs, Sound(disk'), NoDanglingRef',
           Safe(tx'[p], disk', keyring')
    PROVE  SafeInv'
  BY DEF SafeInv, OneWriter

\* The plan of a mutator that goes straight to its secrets.
LEMMA PlanSafe ==
    ASSUME TypeOK, SafeInv, OneWriter, NEW p \in Procs, NEW u,
           tx' = [tx EXCEPT ![p] = u], UNCHANGED <<disk, tmp, keyring>>,
           u.at = "secrets", u.cur = NoRef, u.seen = NoSecret, u.undo = NoUndo,
           u.copies = NoCopies,
           Sound(u.new),
           \A r \in pending(u) \cup u.purge : ref_owner(r) \in u.ids,
           ~u.doomed => \A r \in FileRefs(u.new) : keyring[r] # NoSecret \/ u.writes[r] # NoSecret,
           u.purge \cap FileRefs(u.new) = {},
           ~u.doomed => pending(u) \subseteq FileRefs(u.new),
           FileRefs(disk) \subseteq FileRefs(u.new) \cup u.purge,
           u.call # "update" => pending(u) \cap FileRefs(disk) = {}
    PROVE  SafeInv'
  <1>1. undoable(u) = {} /\ copying(u) = {}
    BY DEF undoable, copying, NoUndo, NoCopies
  <1>2. \A r \in FileRefs(disk) : u.undo[r] # NoSecret
    BY RefTypes, SecretAssumption DEF NoUndo, TypeOK
  <1>3. Safe(u, disk, keyring)
    BY <1>1, <1>2 DEF Safe, Confined, NewSound, NewComplete, NewHolds, PurgeSafe, IncomingOwned,
                      UndoSafe, BlindSafe, Orderly, staged
  <1>4. tx'[p] = u  BY DEF TypeOK
  <1> QED  BY <1>3, <1>4, OneStep DEF SafeInv, NoDanglingRef

LEMMA AddSafe ==
    ASSUME TypeOK, SafeInv, OneWriter, NEW p \in Procs, NEW id \in Ids,
           NEW kind \in DraftKinds[p], NEW mark \in Marks,
           NEW alias \in Ids \cup Aliases \cup {NoAlias},
           NEW fields \in SecretShapes(kind), NEW secrets \in [fields -> Values],
           add(p, id, kind, alias, mark, secrets)
    PROVE  SafeInv'
  <1> DEFINE entry == [id |-> id, kind |-> kind, alias |-> alias, mark |-> mark,
                       refs |-> minted(id, DOMAIN secrets)]
             writes == [r \in Refs |-> IF r \in entry.refs THEN secrets[ref_field(r)]
                                                           ELSE NoSecret]
             u == [Idle EXCEPT !.at = "secrets", !.ids = {id}, !.new = Append(disk, entry),
                               !.writes = writes, !.call = "add"]
  <1>1. kind \in Kinds /\ fields \subseteq Fields
    BY KindAssumption DEF SecretShapes, Kinds, Fields, SshFields
  <1>2. /\ minted(id, fields) \subseteq Refs
        /\ \A r \in minted(id, fields) : ref_field(r) \in fields /\ ref_owner(r) = id
    BY <1>1, RefTypes DEF minted, keyring_ref, ref_field, ref_owner
  <1>3. entry \in Entries /\ entry.id = id /\ entry.refs = minted(id, fields)
        /\ foreign_refs(entry) = {}
    BY <1>1, <1>2 DEF Entries, foreign_refs
  <1>4. \A r \in Refs : writes[r] # NoSecret <=> r \in entry.refs
    BY <1>2, <1>3, SecretAssumption
  <1>5. tx' = [tx EXCEPT ![p] = u] /\ UNCHANGED <<disk, tmp, keyring>>
        /\ find_index(disk, id) = {}
    BY DEF add, Begin
  <1> HIDE DEF entry, writes
  <1>6. /\ u.at = "secrets" /\ u.ids = {id} /\ u.new = Append(disk, entry)
        /\ u.writes = writes /\ u.call = "add" /\ u.cur = NoRef /\ u.seen = NoSecret
        /\ u.undo = NoUndo /\ u.copies = NoCopies /\ u.purge = {} /\ ~u.doomed
    BY DEF Idle
  <1> HIDE DEF u
  <1>7. disk \in Files /\ Sound(disk) /\ id \notin entry_ids(disk)
    BY <1>5 DEF TypeOK, SafeInv, find_index, entry_ids
  <1>8. /\ u.new \in Files /\ Sound(u.new)
        /\ \A r : r \in FileRefs(u.new) <=> r \in FileRefs(disk) \/ r \in entry.refs
    BY <1>3, <1>5, <1>6, <1>7, AppendRow, RowRefs DEF Sound
  <1>9. pending(u) = entry.refs  BY <1>2, <1>3, <1>4, <1>6 DEF pending
  <1>10. pending(u) \cap FileRefs(disk) = {}
    BY <1>2, <1>3, <1>7, <1>9, SoundOwner
  <1>11. \A r \in FileRefs(u.new) : keyring[r] # NoSecret \/ u.writes[r] # NoSecret
    BY <1>8, <1>9 DEF SafeInv, NoDanglingRef, pending
  <1> QED  BY <1>2, <1>3, <1>5, <1>6, <1>8, <1>9, <1>10, <1>11, PlanSafe

LEMMA UpdateSafe ==
    ASSUME TypeOK, SafeInv, OneWriter, NEW p \in Procs, NEW i \in DOMAIN disk,
           NEW ssh \in SshEdits, NEW mark \in Marks,
           NEW alias \in Ids \cup Aliases \cup {NoAlias},
           NEW edit \in KindEdits(disk[i].kind), update(p, i, edit, ssh, alias, mark)
    PROVE  SafeInv'
  <1> DEFINE entry == disk[i]
             refused == ssh_refused(entry, ssh)
             kind_writes == IF edit \in Values THEN kind_ref(entry) ELSE {}
             kind_refs == IF edit = "keep" THEN slot(entry, "kind") ELSE kind_writes
             ssh_writes == IF ssh.secret \in Values /\ ~refused THEN ssh_refs(entry, ssh) ELSE {}
             refs == kind_refs \cup ssh_refs(entry, ssh)
             row == [entry EXCEPT !.refs = refs, !.alias = alias, !.mark = mark]
             writes == [r \in Refs |-> CASE r \in kind_writes -> edit
                                         [] r \in ssh_writes \ kind_writes -> ssh.secret
                                         [] OTHER -> NoSecret]
             drop == entry.refs \ refs
             new == [disk EXCEPT ![i] = row]
             u == [Idle EXCEPT !.at = "secrets", !.ids = {entry.id}, !.doomed = refused,
                               !.new = new, !.writes = writes, !.purge = drop,
                               !.call = "update"]
             own == {r \in Refs : ref_owner(r) = entry.id}
  <1>1. /\ disk \in Files /\ Sound(disk) /\ entry \in Entries /\ entry.id \in Ids
        /\ entry.refs \subseteq Refs
        /\ \A r \in entry.refs : keyring[r] # NoSecret /\ ref_owner(r) = entry.id
    <2>1. disk \in Files /\ Sound(disk)  BY DEF TypeOK, SafeInv
    <2>2. \A r \in entry.refs : r \in FileRefs(disk)  BY DEF FileRefs
    <2> QED
      BY <2>1, <2>2, FileDomain, SoundOwner DEF SafeInv, NoDanglingRef, Entries
  <1>2. kind_ref(entry) \subseteq own /\ slot(entry, "kind") \subseteq entry.refs
    BY <1>1 DEF kind_ref, slot, keyring_ref, ref_owner, Refs, Fields
  <1>3. ssh_refs(entry, ssh) \subseteq own
    BY <1>1 DEF ssh_refs, slot, keyring_ref, ref_owner, Refs, Fields
  <1>4. \A r \in ssh_refs(entry, ssh) : refused \/ r \in entry.refs \/ ssh.secret \in Values
    BY DEF ssh_refs, slot, SshEdits
  <1>5. refs \subseteq own  BY <1>1, <1>2, <1>3
  <1>6. /\ row \in Entries /\ row.id = entry.id /\ row.refs = refs /\ foreign_refs(row) = {}
    BY <1>1, <1>5 DEF Entries, foreign_refs
  <1>7. \A r \in kind_writes \cup ssh_writes : r \in Refs => writes[r] \in Values
    BY DEF SshEdits
  <1>8. /\ pending(u) \subseteq kind_writes \cup ssh_writes
        /\ ~refused => \A r \in refs : keyring[r] # NoSecret \/ writes[r] # NoSecret
    <2>1. u.writes = writes  BY DEF Idle
    <2>2. pending(u) \subseteq kind_writes \cup ssh_writes  BY <2>1 DEF pending
    <2>3. ASSUME ~refused, NEW r \in refs
          PROVE  r \in entry.refs \/ r \in kind_writes \cup ssh_writes
      BY <1>2, <1>4, <2>3
    <2>4. ASSUME NEW r \in kind_writes \cup ssh_writes, r \in Refs
          PROVE  writes[r] # NoSecret
      BY <1>7, <2>4, SecretAssumption
    <2> QED  BY <1>1, <1>5, <2>2, <2>3, <2>4
  <1>9. tx' = [tx EXCEPT ![p] = u] /\ UNCHANGED <<disk, tmp, keyring>>
    BY DEF update, Begin
  <1>10. kind_writes \cup ssh_writes \subseteq own /\ drop \subseteq own /\ drop \cap refs = {}
    BY <1>1, <1>2, <1>3
  <1>11. kind_writes \cup ssh_writes \subseteq refs
    BY SecretAssumption
  <1>12. entry.refs \subseteq refs \cup drop  OBVIOUS
  <1> HIDE DEF entry, refused, kind_writes, ssh_writes, refs, row, writes, drop, new
  <1>13. /\ u.at = "secrets" /\ u.ids = {entry.id} /\ u.new = new /\ u.doomed = refused
         /\ u.writes = writes /\ u.call = "update" /\ u.cur = NoRef /\ u.seen = NoSecret
         /\ u.undo = NoUndo /\ u.copies = NoCopies /\ u.purge = drop
    BY DEF Idle
  <1> HIDE DEF u
  <1>14. /\ new \in Files /\ UniqueIds(new)
         /\ Rows(new) = {row} \cup {x \in Rows(disk) : x.id # row.id}
    <2>1. disk \in Files /\ UniqueIds(disk) /\ row \in Entries /\ row.id = disk[i].id
      BY <1>1, <1>6 DEF entry, Sound
    <2>2. new = [disk EXCEPT ![i] = row]  BY DEF new
    <2> QED  BY <2>1, <2>2, EditRow
  <1>15. Sound(new)  BY <1>1, <1>6, <1>14 DEF Sound
  <1>16. \A r \in FileRefs(new) : r \in refs \/ (r \in FileRefs(disk) /\ r \notin own)
    <2>1. ASSUME NEW x \in Rows(disk), x.id # row.id, NEW r \in x.refs
          PROVE  r \in FileRefs(disk) /\ ref_owner(r) # entry.id
      BY <1>1, <1>6, <2>1, RowRefs DEF Sound, foreign_refs
    <2>2. \A r \in FileRefs(new) : \E x \in Rows(new) : r \in x.refs
      BY <1>14, RowRefs
    <2> QED  BY <1>6, <1>14, <2>1, <2>2
  <1>17. ~u.doomed =>
             \A r \in FileRefs(u.new) : keyring[r] # NoSecret \/ u.writes[r] # NoSecret
    BY <1>8, <1>13, <1>16 DEF SafeInv, NoDanglingRef
  <1>18. u.purge \cap FileRefs(u.new) = {}  BY <1>10, <1>13, <1>16
  <1>19. \A r \in pending(u) \cup u.purge : ref_owner(r) \in u.ids
    BY <1>8, <1>10, <1>13
  <1>20. refs \subseteq FileRefs(new)
    <2>1. row \in Rows(new)  BY <1>14
    <2> QED  BY <1>6, <1>14, <2>1, RowRefs
  <1>21. pending(u) \subseteq FileRefs(u.new)  BY <1>8, <1>13, <1>11, <1>20
  <1>22. FileRefs(disk) \subseteq FileRefs(u.new) \cup u.purge
    <2>1. \A x \in Rows(disk) : x.id # entry.id => x \in Rows(new)  BY <1>6, <1>14
    <2>2. \A j \in DOMAIN disk : disk[j].id = entry.id => disk[j] = entry
      BY <1>1 DEF Sound, UniqueIds, entry
    <2>3. \A r \in FileRefs(disk) :
             \/ r \in FileRefs(new)
             \/ \E j \in DOMAIN disk : disk[j].id = entry.id /\ r \in disk[j].refs
      BY <1>1, <1>14, <2>1, OthersKeepRefs
    <2>4. \A r \in FileRefs(disk) : r \in FileRefs(new) \/ r \in entry.refs  BY <2>2, <2>3
    <2> QED  BY <1>13, <1>12, <1>20, <2>4
  <1> QED  BY <1>9, <1>13, <1>15, <1>17, <1>18, <1>19, <1>21, <1>22, PlanSafe

\* A file made of rows the disk already has keeps its soundness and its secrets.
LEMMA OldRows ==
    ASSUME TypeOK, SafeInv, NEW new \in Files, UniqueIds(new), Rows(new) \subseteq Rows(disk)
    PROVE  Sound(new) /\ \A r \in FileRefs(new) : r \in FileRefs(disk) /\ keyring[r] # NoSecret
  <1>1. \A r \in FileRefs(new) : r \in FileRefs(disk)  BY RowRefs DEF TypeOK
  <1> QED  BY <1>1 DEF SafeInv, NoDanglingRef, Sound

LEMMA DeleteSafe ==
    ASSUME TypeOK, SafeInv, OneWriter, NEW p \in Procs, NEW i \in DOMAIN disk, delete(p, i)
    PROVE  SafeInv'
  <1> DEFINE new == RemoveAt(disk, i)
             u == [Idle EXCEPT !.at = "secrets", !.ids = {disk[i].id}, !.new = new,
                               !.purge = disk[i].refs, !.call = "delete"]
  <1>1. disk \in Files /\ Sound(disk)  BY DEF TypeOK, SafeInv
  <1>2. /\ new \in Files /\ UniqueIds(new)
        /\ Rows(new) = {x \in Rows(disk) : x.id # disk[i].id}
    BY <1>1, RemoveRow DEF Sound
  <1>3. tx' = [tx EXCEPT ![p] = u] /\ UNCHANGED <<disk, tmp, keyring>>
    BY DEF delete, Begin
  <1> HIDE DEF new
  <1>4. /\ u.at = "secrets" /\ u.ids = {disk[i].id} /\ u.new = new /\ u.writes = NoWrites
        /\ u.call = "delete" /\ u.cur = NoRef /\ u.seen = NoSecret
        /\ u.undo = NoUndo /\ u.copies = NoCopies /\ u.purge = disk[i].refs
    BY DEF Idle
  <1> HIDE DEF u
  <1>5. /\ Sound(new)
        /\ \A r \in FileRefs(new) : r \in FileRefs(disk) /\ keyring[r] # NoSecret
    BY <1>2, OldRows
  <1>6. \A r \in disk[i].refs : ref_owner(r) = disk[i].id  BY <1>1, SoundOwner
  <1>7. disk[i].refs \cap FileRefs(new) = {}
    BY <1>1, <1>2, <1>6, RowRefs DEF Sound, foreign_refs
  <1>8. pending(u) = {}  BY <1>4 DEF pending, NoWrites
  <1>9. FileRefs(disk) \subseteq FileRefs(u.new) \cup u.purge
    <2>1. \A j \in DOMAIN disk : disk[j].id = disk[i].id => j = i
      BY <1>1 DEF Sound, UniqueIds
    <2> QED  BY <1>1, <1>2, <1>4, <2>1, OthersKeepRefs
  <1> QED  BY <1>3, <1>4, <1>5, <1>6, <1>7, <1>8, <1>9, PlanSafe

LEMMA MoveSafe ==
    ASSUME TypeOK, SafeInv, OneWriter, NEW p \in Procs, NEW i \in DOMAIN disk,
           NEW index \in 0 .. Len(disk), move_to(p, i, index)
    PROVE  SafeInv'
  <1> DEFINE new == moved(disk, i, index)
             u == [Idle EXCEPT !.at = "secrets", !.ids = {disk[i].id}, !.new = new,
                               !.call = "move_to"]
  <1>1. disk \in Files /\ Sound(disk)  BY DEF TypeOK, SafeInv
  <1>2. index \in 0 .. Len(disk) - 1  BY <1>1, FileDomain DEF move_to
  <1>3. new \in Files /\ UniqueIds(new) /\ Rows(new) = Rows(disk)
    BY <1>1, <1>2, MoveRow DEF Sound
  <1>4. tx' = [tx EXCEPT ![p] = u] /\ UNCHANGED <<disk, tmp, keyring>>
    BY DEF move_to, Begin
  <1> HIDE DEF new
  <1>5. /\ u.at = "secrets" /\ u.ids = {disk[i].id} /\ u.new = new /\ u.writes = NoWrites
        /\ u.call = "move_to" /\ u.cur = NoRef /\ u.seen = NoSecret
        /\ u.undo = NoUndo /\ u.copies = NoCopies /\ u.purge = {}
    BY DEF Idle
  <1> HIDE DEF u
  <1>6. Sound(new) /\ \A r \in FileRefs(new) : keyring[r] # NoSecret  BY <1>3, OldRows
  <1>7. pending(u) = {}  BY <1>5 DEF pending, NoWrites
  <1>8. FileRefs(disk) \subseteq FileRefs(new)  BY <1>1, <1>3, RowRefs
  <1> QED  BY <1>4, <1>5, <1>6, <1>7, <1>8, PlanSafe

LEMMA MarkSafe ==
    ASSUME TypeOK, SafeInv, OneWriter, NEW p \in Procs, NEW i \in DOMAIN disk,
           NEW mark \in Marks, set_mark(p, i, mark)
    PROVE  SafeInv'
  <1> DEFINE row == [disk[i] EXCEPT !.mark = mark]
             new == [disk EXCEPT ![i].mark = mark]
             u == [Idle EXCEPT !.at = "secrets", !.ids = {disk[i].id}, !.new = new,
                               !.call = "set_mark"]
  <1>1. disk \in Files /\ Sound(disk) /\ disk[i] \in Entries
    BY FileDomain DEF TypeOK, SafeInv
  <1>2. row \in Entries /\ row.id = disk[i].id /\ row.refs = disk[i].refs
    BY <1>1 DEF Entries
  <1>3. new = [disk EXCEPT ![i] = row]  OBVIOUS
  <1>4. tx' = [tx EXCEPT ![p] = u] /\ UNCHANGED <<disk, tmp, keyring>>
    BY DEF set_mark, Begin
  <1> HIDE DEF row, new
  <1>5. /\ u.at = "secrets" /\ u.ids = {disk[i].id} /\ u.new = new /\ u.writes = NoWrites
        /\ u.call = "set_mark" /\ u.cur = NoRef /\ u.seen = NoSecret
        /\ u.undo = NoUndo /\ u.copies = NoCopies /\ u.purge = {}
    BY DEF Idle
  <1> HIDE DEF u
  <1>6. /\ new \in Files /\ UniqueIds(new)
        /\ Rows(new) = {row} \cup {x \in Rows(disk) : x.id # row.id}
    <2>1. new = [disk EXCEPT ![i] = row] /\ UniqueIds(disk)  BY <1>1, <1>3 DEF Sound
    <2> QED  BY <1>1, <1>2, <2>1, EditRow
  <1>7. disk[i] \in Rows(disk)  BY DEF Rows
  <1>8. Sound(new)
    BY <1>1, <1>2, <1>6, <1>7 DEF Sound, foreign_refs
  <1>9. \A r \in FileRefs(new) : keyring[r] # NoSecret
    <2>1. \A r \in FileRefs(new) : r \in FileRefs(disk)
      BY <1>1, <1>2, <1>6, <1>7, RowRefs
    <2> QED  BY <2>1 DEF SafeInv, NoDanglingRef
  <1>10. pending(u) = {}  BY <1>5 DEF pending, NoWrites
  <1>11. FileRefs(disk) \subseteq FileRefs(new)
    <2>1. /\ row \in Rows(new)
          /\ \A x \in Rows(disk) : x.id # disk[i].id => x \in Rows(new)
      BY <1>2, <1>6
    <2>2. disk[i].refs \subseteq FileRefs(new)  BY <1>2, <1>6, <2>1, RowRefs
    <2>3. \A j \in DOMAIN disk : disk[j].id = disk[i].id => j = i
      BY <1>1 DEF Sound, UniqueIds
    <2>4. \A r \in FileRefs(disk) :
             \/ r \in FileRefs(new)
             \/ \E j \in DOMAIN disk : disk[j].id = disk[i].id /\ r \in disk[j].refs
      BY <1>1, <1>6, <2>1, OthersKeepRefs
    <2> QED  BY <2>2, <2>3, <2>4
  <1> QED  BY <1>4, <1>5, <1>8, <1>9, <1>10, <1>11, PlanSafe

\* In a healthy store there is nothing to repair.
LEMMA RepairSafe ==
    ASSUME TypeOK, SafeInv, NEW p \in Procs, NEW i \in DOMAIN disk, NEW key_ref, NEW secret,
           repair_foreign_ref(p, i, key_ref, secret)
    PROVE  FALSE
  BY RowRefs DEF repair_foreign_ref, SafeInv, Sound, TypeOK

LEMMA DuplicateSafe ==
    ASSUME TypeOK, SafeInv, OneWriter, NEW p \in Procs, NEW i \in DOMAIN disk, NEW new_id \in Ids,
           duplicate(p, i, new_id)
    PROVE  SafeInv'
  <1> DEFINE source == disk[i]
             copied(r) == keyring_ref(new_id, ref_field(r))
             copy == [source EXCEPT !.id = new_id, !.alias = NoAlias, !.mark = NoMark,
                                    !.refs = {copied(r) : r \in source.refs}]
             copies == [r \in Refs |-> IF r \in copy.refs
                                       THEN keyring_ref(source.id, ref_field(r)) ELSE NoRef]
             new == Append(disk, copy)
             u == [Idle EXCEPT !.at = "copy", !.ids = {new_id}, !.new = new,
                               !.copies = copies, !.call = "duplicate"]
  <1>1. /\ disk \in Files /\ Sound(disk)
        /\ source \in Entries /\ source.id \in Ids /\ source.refs \subseteq Refs
    BY FileDomain DEF TypeOK, SafeInv, Entries
  <1>2. \A r \in Refs : /\ copied(r) \in Refs /\ ref_owner(copied(r)) = new_id
                        /\ keyring_ref(source.id, ref_field(r)) \in Refs
    BY <1>1, RefTypes DEF keyring_ref, ref_owner
  <1>3. /\ copy \in Entries /\ copy.id = new_id /\ foreign_refs(copy) = {}
        /\ copy.refs \subseteq Refs /\ \A r \in copy.refs : ref_owner(r) = new_id
    <2>1. copy.id = new_id /\ copy.refs = {copied(r) : r \in source.refs}
      BY <1>1 DEF Entries
    <2>2. copy.refs \subseteq Refs /\ \A r \in copy.refs : ref_owner(r) = new_id
      BY <1>1, <1>2, <2>1
    <2>3. copy \in Entries  BY <1>1, <2>1, <2>2, MarkAssumption DEF Entries
    <2> QED  BY <2>1, <2>2, <2>3 DEF foreign_refs
  <1>4. \A r \in Refs : copies[r] # NoRef <=> r \in copy.refs
    BY <1>2, RefAssumption
  <1>5. /\ tx' = [tx EXCEPT ![p] = u] /\ UNCHANGED <<disk, tmp, keyring>>
        /\ find_index(disk, new_id) = {}
    BY DEF duplicate, Begin
  <1>6. tx'[p] = u  BY <1>5 DEF TypeOK
  <1> HIDE DEF copy, copies
  <1>7. new \in Files /\ Rows(new) = Rows(disk) \cup {copy} /\ UniqueIds(new)
    BY <1>1, <1>3, <1>5, AppendRow DEF Sound
  <1> HIDE DEF new
  <1>8. /\ u.at = "copy" /\ u.ids = {new_id} /\ u.new = new /\ u.writes = NoWrites
        /\ u.call = "duplicate" /\ u.cur = NoRef /\ u.seen = NoSecret
        /\ u.undo = NoUndo /\ u.copies = copies /\ u.purge = {}
    BY DEF Idle
  <1> HIDE DEF u
  <1>9. pending(u) = {} /\ undoable(u) = {} /\ copying(u) = copy.refs
    BY <1>3, <1>4, <1>8 DEF pending, undoable, copying, NoWrites, NoUndo
  <1>10. Sound(new)  BY <1>1, <1>3, <1>7 DEF Sound
  <1>11. \A r \in FileRefs(new) : keyring[r] # NoSecret \/ u.copies[r] # NoRef
    <2>1. \A r \in FileRefs(new) : r \in FileRefs(disk) \/ r \in copy.refs
      BY <1>1, <1>7, RowRefs
    <2> QED  BY <1>3, <1>4, <1>8, <2>1 DEF SafeInv, NoDanglingRef
  <1>12. copy.refs \cap FileRefs(disk) = {}
    <2>1. new_id \notin entry_ids(disk)  BY <1>5 DEF find_index, entry_ids
    <2> QED  BY <1>1, <1>3, <2>1, SoundOwner
  <1>13. copy.refs \cup FileRefs(disk) \subseteq FileRefs(new)
    <2>1. copy \in Rows(new) /\ Rows(disk) \subseteq Rows(new)  BY <1>7
    <2> QED  BY <1>1, <1>7, <2>1, RowRefs
  <1>14. Safe(u, disk, keyring)
    BY <1>3, <1>8, <1>9, <1>10, <1>11, <1>12, <1>13
       DEF Safe, Confined, NewSound, NewComplete, NewHolds, PurgeSafe, IncomingOwned, UndoSafe,
           BlindSafe, Orderly
  <1> QED  BY <1>5, <1>6, <1>14, OneStep DEF SafeInv, NoDanglingRef

LEMMA ImportSafe ==
    ASSUME TypeOK, SafeInv, OneWriter, BundlesOwned, NEW p \in Procs, NEW bundle \in Bundles,
           NEW overwrite \in BOOLEAN, import_bundle(p, bundle, overwrite)
    PROVE  SafeInv'
  <1> DEFINE u == [Idle EXCEPT !.at = "import", !.new = disk, !.incoming = bundle.entries,
                               !.overwrite = overwrite, !.owner = ref_owners(disk),
                               !.given = bundle.secrets, !.call = "import_bundle"]
  <1>1. tx' = [tx EXCEPT ![p] = u] /\ UNCHANGED <<disk, tmp, keyring>>
    BY DEF import_bundle, Begin
  <1>2. tx'[p] = u  BY <1>1 DEF TypeOK
  <1>3. /\ u.at = "import" /\ u.new = disk /\ u.incoming = bundle.entries
        /\ u.given = bundle.secrets /\ u.writes = NoWrites /\ u.call = "import_bundle"
        /\ u.cur = NoRef /\ u.seen = NoSecret /\ u.undo = NoUndo /\ u.copies = NoCopies
        /\ u.purge = {}
    BY DEF Idle
  <1> HIDE DEF u
  <1>4. pending(u) = {} /\ undoable(u) = {} /\ copying(u) = {}
    BY <1>3 DEF pending, undoable, copying, NoWrites, NoUndo, NoCopies
  <1>5. Safe(u, disk, keyring)
    BY <1>3, <1>4
       DEF Safe, Confined, NewSound, NewComplete, NewHolds, PurgeSafe, IncomingOwned, UndoSafe,
           BlindSafe, Orderly, SafeInv, NoDanglingRef, BundlesOwned
  <1> QED  BY <1>1, <1>2, <1>5, OneStep DEF SafeInv, NoDanglingRef

\* A step inside a call that leaves both stores alone.
LEMMA QuietStep ==
    ASSUME TypeOK, SafeInv, OneWriter, NEW p \in Procs, NEW u,
           tx' = [tx EXCEPT ![p] = u], UNCHANGED <<disk, keyring>>, Safe(u, disk, keyring)
    PROVE  SafeInv'
  <1>1. tx'[p] = u  BY DEF TypeOK
  <1> QED  BY <1>1, OneStep DEF SafeInv, NoDanglingRef

LEMMA PassOverSafe ==
    ASSUME TypeOK, SafeInv, OneWriter, NEW p \in Procs, pass_over(p)
    PROVE  SafeInv'
  <1> DEFINE t == tx[p]
             u == [t EXCEPT !.incoming = Tail(t.incoming)]
  <1>1. t \in Tx /\ Safe(t, disk, keyring) /\ t.at = "import"
        /\ t.incoming \in Files /\ t.incoming # <<>>
    BY DEF TypeOK, SafeInv, pass_over, Tx
  <1>2. tx' = [tx EXCEPT ![p] = u] /\ UNCHANGED <<disk, tmp, keyring>>
    BY DEF pass_over, Step
  <1> HIDE DEF t
  <1>3. /\ u.at = t.at /\ u.call = t.call /\ u.ids = t.ids /\ u.new = t.new
        /\ u.incoming = Tail(t.incoming) /\ u.given = t.given /\ u.copies = t.copies
        /\ u.writes = t.writes /\ u.cur = t.cur /\ u.seen = t.seen /\ u.undo = t.undo
        /\ u.purge = t.purge /\ u.doomed = t.doomed
    BY <1>1, TxFields
  <1> HIDE DEF u
  <1>4. Rows(Tail(t.incoming)) \subseteq Rows(t.incoming)  BY <1>1, TailRows
  <1>5. pending(u) = pending(t) /\ undoable(u) = undoable(t) /\ copying(u) = copying(t)
    BY <1>3 DEF pending, undoable, copying
  <1>6. Safe(u, disk, keyring)
    BY <1>1, <1>3, <1>4, <1>5
       DEF Safe, Confined, NewSound, NewComplete, NewHolds, PurgeSafe, IncomingOwned, UndoSafe,
           BlindSafe, Orderly, staged
  <1> QED  BY <1>2, <1>6, QuietStep

\* The file an import has built once it has accepted an entry.
joined(file, entry) ==
    IF find_index(file, entry.id) = {} THEN Append(file, entry)
    ELSE [j \in DOMAIN file |->
             IF j \in find_index(file, entry.id) THEN entry ELSE file[j]]

LEMMA JoinedRows ==
    ASSUME NEW file \in Files, UniqueIds(file), NEW entry \in Entries
    PROVE  /\ joined(file, entry) \in Files /\ UniqueIds(joined(file, entry))
           /\ Rows(joined(file, entry)) = {entry} \cup {x \in Rows(file) : x.id # entry.id}
  <1> DEFINE rows == find_index(file, entry.id)
  <1>1. CASE rows = {}
    <2>1. \A x \in Rows(file) : x.id # entry.id  BY <1>1 DEF find_index, Rows
    <2> QED  BY <1>1, <2>1, AppendRow DEF joined
  <1>2. CASE rows # {}
    <2> DEFINE g == [j \in DOMAIN file |-> IF j \in rows THEN entry ELSE file[j]]
    <2>1. joined(file, entry) = g  BY <1>2 DEF joined
    <2> HIDE DEF rows
    <2>2. /\ g \in Files /\ UniqueIds(g) /\ entry \in Rows(g)
          /\ Rows(g) \subseteq {entry} \cup {x \in Rows(file) : x.id # entry.id}
          /\ \A x \in Rows(file) : x.id # entry.id => x \in Rows(g)
      <3>1. rows = find_index(file, entry.id)  BY DEF rows
      <3> QED  BY <1>2, <3>1, ReplaceRows
    <2> HIDE DEF g
    <2> QED  BY <2>1, <2>2
  <1> QED  BY <1>1, <1>2

LEMMA AcceptSafe ==
    ASSUME TypeOK, SafeInv, OneWriter, NEW p \in Procs, accept(p)
    PROVE  SafeInv'
  <1> DEFINE t == tx[p]
             entry == Head(t.incoming)
             rows == find_index(t.new, entry.id)
             owner == [r \in Refs |-> IF r \in entry.refs THEN entry.id ELSE t.owner[r]]
             writes == [r \in Refs |-> IF r \in entry.refs /\ t.given[r] # NoSecret
                                       THEN t.given[r] ELSE t.writes[r]]
             new == IF rows = {} THEN Append(t.new, entry)
                    ELSE [j \in DOMAIN t.new |-> IF j \in rows THEN entry ELSE t.new[j]]
             old == UNION {t.new[j].refs : j \in rows}
             drop == t.purge \cup ((UNION {t.new[j].refs : j \in rows}) \ entry.refs)
             u == [t EXCEPT !.incoming = Tail(t.incoming), !.ids = t.ids \cup {entry.id},
                            !.owner = owner, !.writes = writes, !.new = new, !.purge = drop]
  <1>1. /\ t \in Tx /\ Safe(t, disk, keyring) /\ t.at = "import" /\ entry.id \notin t.ids
        /\ t.incoming \in Files /\ t.incoming # <<>> /\ t.new \in Files /\ Sound(t.new)
        /\ t.purge \subseteq Refs
    BY DEF TypeOK, SafeInv, Safe, NewSound, staged, accept, passed_over, Tx
  <1>2. tx' = [tx EXCEPT ![p] = u] /\ UNCHANGED <<disk, tmp, keyring>>
    BY DEF accept, Step
  <1>3. /\ entry \in Rows(t.incoming) /\ entry \in Entries
        /\ Rows(Tail(t.incoming)) \subseteq Rows(t.incoming)
    BY <1>1, TailRows
  <1>4. /\ entry.refs \subseteq Refs /\ foreign_refs(entry) = {}
        /\ \A r \in entry.refs : t.given[r] # NoSecret /\ ref_owner(r) = entry.id
    BY <1>1, <1>3 DEF Safe, IncomingOwned, foreign_refs, Entries
  <1>5. /\ new \in Files /\ UniqueIds(new)
        /\ Rows(new) \subseteq {entry} \cup {x \in Rows(t.new) : x.id # entry.id}
        /\ entry \in Rows(new) /\ \A x \in Rows(t.new) : x.id # entry.id => x \in Rows(new)
    <2>1. new = joined(t.new, entry)  BY DEF joined
    <2>2. t.new \in Files /\ UniqueIds(t.new)  BY <1>1 DEF Sound
    <2> HIDE DEF t, entry, rows, new
    <2> QED  BY <1>3, <2>1, <2>2, JoinedRows
  <1>6. \A r \in old : r \in FileRefs(t.new) /\ ref_owner(r) = entry.id
    BY <1>1, SoundOwner DEF find_index, FileRefs
  <1>7. /\ \A r \in Refs : writes[r] # NoSecret <=> r \in entry.refs \/ t.writes[r] # NoSecret
        /\ drop = t.purge \cup (old \ entry.refs)
    BY <1>4
  <1>8. \A r \in FileRefs(t.new) : r \in FileRefs(new) \/ r \in old
    <2>1. \A j \in DOMAIN t.new : t.new[j].id = entry.id => t.new[j].refs \subseteq old
      BY DEF find_index
    <2> HIDE DEF t, old, entry, new
    <2>2. /\ t.new \in Files /\ new \in Files
          /\ \A x \in Rows(t.new) : x.id # entry.id => x \in Rows(new)
      BY <1>1, <1>5
    <2>3. \A r \in FileRefs(t.new) :
             \/ r \in FileRefs(new)
             \/ \E j \in DOMAIN t.new : t.new[j].id = entry.id /\ r \in t.new[j].refs
      BY <2>2, OthersKeepRefs
    <2> QED  BY <2>1, <2>3
  <1> HIDE DEF t, entry, rows, owner, writes, new, old, drop
  <1>9. /\ u.at = t.at /\ u.call = t.call /\ u.ids = t.ids \cup {entry.id} /\ u.new = new
        /\ u.incoming = Tail(t.incoming) /\ u.given = t.given /\ u.copies = t.copies
        /\ u.writes = writes /\ u.cur = t.cur /\ u.seen = t.seen /\ u.undo = t.undo
        /\ u.purge = drop /\ u.doomed = t.doomed
    BY <1>1, TxFields
  <1> HIDE DEF u
  <1>10. /\ pending(u) = pending(t) \cup entry.refs /\ undoable(u) = undoable(t)
        /\ copying(u) = copying(t)
    BY <1>4, <1>7, <1>9 DEF pending, undoable, copying
  <1>11. Sound(new)  BY <1>1, <1>4, <1>5 DEF Sound
  <1>12. \A r \in FileRefs(new) :
            \/ r \in entry.refs
            \/ r \in FileRefs(t.new) /\ ref_owner(r) # entry.id
    <2>1. ASSUME NEW x \in Rows(t.new), x.id # entry.id, NEW r \in x.refs
          PROVE  r \in FileRefs(t.new) /\ ref_owner(r) # entry.id
      BY <1>1, <2>1, RowRefs DEF Sound, foreign_refs
    <2>2. \A r \in FileRefs(new) : \E x \in Rows(new) : r \in x.refs  BY <1>5, RowRefs
    <2> QED  BY <1>5, <2>1, <2>2
  <1>13. Confined(u)
    BY <1>1, <1>4, <1>6, <1>7, <1>9, <1>10 DEF Safe, Confined
  <1>14. NewComplete(u, keyring)
    <2>1. \A r \in FileRefs(new) : r \in Refs  BY <1>5, RefTypes
    <2> QED  BY <1>1, <1>7, <1>9, <1>12, <2>1 DEF Safe, NewComplete, staged
  <1>15. PurgeSafe(u, disk)
    <2>1. \A r \in t.purge : r \notin FileRefs(t.new) \/ t.doomed
      BY <1>1 DEF Safe, PurgeSafe, staged
    <2>2. \A r \in t.purge : r \notin entry.refs
      BY <1>1, <1>4 DEF Safe, Confined
    <2>3. ~t.doomed => drop \cap FileRefs(new) = {}
      BY <1>6, <1>7, <1>12, <2>1, <2>2
    <2> QED  BY <1>1, <1>9, <2>3 DEF PurgeSafe
  <1>16. entry.refs \subseteq FileRefs(new)  BY <1>5, RowRefs
  <1>17. NewHolds(u, disk)
    <2>1. undoable(t) = {} /\ copying(t) = {}  BY <1>1 DEF Safe, Orderly
    <2>2. ~t.doomed => pending(t) \subseteq FileRefs(new)
      <3>1. ~t.doomed => pending(t) \subseteq FileRefs(t.new)
        BY <1>1 DEF Safe, NewHolds, staged
      <3>2. \A r \in pending(t) : ref_owner(r) # entry.id  BY <1>1 DEF Safe, Confined
      <3> QED  BY <1>6, <1>8, <3>1, <3>2
    <2>3. ~t.doomed => FileRefs(disk) \subseteq FileRefs(t.new) \cup t.purge
      BY <1>1 DEF Safe, NewHolds, staged
    <2>4. ~t.doomed => FileRefs(disk) \subseteq FileRefs(new) \cup drop
      BY <1>7, <1>8, <1>16, <2>3
    <2> QED  BY <1>9, <1>10, <1>16, <2>1, <2>2, <2>4 DEF NewHolds
  <1>18. Safe(u, disk, keyring)
    BY <1>1, <1>3, <1>9, <1>10, <1>11, <1>13, <1>14, <1>15, <1>17
       DEF Safe, NewSound, IncomingOwned, UndoSafe, BlindSafe, Orderly, staged
  <1> QED  BY <1>2, <1>18, QuietStep

LEMMA AcceptedAllSafe ==
    ASSUME TypeOK, SafeInv, OneWriter, NEW p \in Procs, accepted_all(p)
    PROVE  SafeInv'
  <1> DEFINE t == tx[p]
             u == [t EXCEPT !.at = "secrets", !.given = NoWrites, !.owner = NoOwners,
                            !.overwrite = FALSE]
  <1>1. t \in Tx /\ Safe(t, disk, keyring) /\ t.at = "import"
    BY DEF TypeOK, SafeInv, accepted_all
  <1>2. /\ tx' = [tx EXCEPT ![p] = u] \/ tx' = [tx EXCEPT ![p] = Idle]
        /\ UNCHANGED <<disk, tmp, keyring>>
    BY DEF accepted_all, Step
  <1> HIDE DEF t
  <1>3. /\ u.at = "secrets" /\ u.call = t.call /\ u.ids = t.ids /\ u.new = t.new
        /\ u.copies = t.copies /\ u.writes = t.writes /\ u.cur = t.cur /\ u.seen = t.seen
        /\ u.undo = t.undo /\ u.purge = t.purge /\ u.doomed = t.doomed
    BY <1>1, TxFields
  <1> HIDE DEF u
  <1>4. pending(u) = pending(t) /\ undoable(u) = undoable(t) /\ copying(u) = copying(t)
    BY <1>3 DEF pending, undoable, copying
  <1>5. \A r \in FileRefs(disk) : u.undo[r] # NoSecret
    <2>1. \A r \in FileRefs(disk) : t.undo[r] = Untouched
      BY <1>1, RefTypes DEF Safe, Orderly, undoable, TypeOK
    <2> QED  BY <1>3, <2>1, SecretAssumption
  <1>6. Safe(u, disk, keyring)
    BY <1>1, <1>3, <1>4, <1>5
       DEF Safe, Confined, NewSound, NewComplete, NewHolds, PurgeSafe, IncomingOwned, UndoSafe,
           BlindSafe, Orderly, staged
  <1> QED  BY <1>2, <1>6, IdleSafe, QuietStep

\* The secrets of a copy have been read; all of them are there.
LEMMA CopySecretsSafe ==
    ASSUME TypeOK, SafeInv, OneWriter, NEW p \in Procs, copy_secrets(p)
    PROVE  SafeInv'
  <1> DEFINE t == tx[p]
             writes == [r \in Refs |-> IF r \in copying(t) THEN keyring[t.copies[r]] ELSE NoSecret]
             u == [t EXCEPT !.at = "secrets", !.copies = NoCopies, !.writes = writes]
  <1>1. t \in Tx /\ Safe(t, disk, keyring) /\ t.at = "copy"
    BY DEF TypeOK, SafeInv, copy_secrets
  <1>2. /\ \/ /\ tx' = [tx EXCEPT ![p] = u]
              /\ \A r \in copying(t) : keyring[t.copies[r]] # NoSecret
           \/ tx' = [tx EXCEPT ![p] = Idle]
        /\ UNCHANGED <<disk, tmp, keyring>>
    BY DEF copy_secrets, Step, copying
  <1>3. CASE tx' = [tx EXCEPT ![p] = Idle]  BY <1>2, <1>3, IdleSafe, QuietStep
  <1>4. CASE /\ tx' = [tx EXCEPT ![p] = u]
             /\ \A r \in copying(t) : keyring[t.copies[r]] # NoSecret
    <2>1. \A r \in Refs : writes[r] # NoSecret <=> r \in copying(t)
      BY <1>4 DEF copying
    <2> HIDE DEF t, writes
    <2>2. /\ u.at = "secrets" /\ u.call = t.call /\ u.ids = t.ids /\ u.new = t.new
          /\ u.copies = NoCopies /\ u.writes = writes /\ u.cur = t.cur /\ u.seen = t.seen
          /\ u.undo = t.undo /\ u.purge = t.purge /\ u.doomed = t.doomed
      BY <1>1, TxFields
    <2> HIDE DEF u
    <2>3. pending(u) = copying(t) /\ undoable(u) = undoable(t) /\ copying(u) = {}
      BY <2>1, <2>2 DEF pending, undoable, copying, NoCopies
    <2>4. t.cur = NoRef /\ t.seen = NoSecret /\ undoable(t) = {} /\ pending(t) = {}
      BY <1>1 DEF Safe, Orderly
    <2>5. \A r \in FileRefs(disk) : u.undo[r] # NoSecret
      BY <2>2, <2>4, RefTypes, SecretAssumption DEF undoable, TypeOK
    <2>6. NewComplete(u, keyring)
      <3>1. t.new \in Files  BY <1>1 DEF Tx
      <3>2. \A r \in FileRefs(t.new) : r \in Refs  BY <3>1, RefTypes
      <3> QED
        BY <1>1, <2>1, <2>2, <2>4, <3>2 DEF Safe, NewComplete, staged, copying, pending
    <2>7. Safe(u, disk, keyring)
      BY <1>1, <2>2, <2>3, <2>4, <2>5, <2>6
         DEF Safe, Confined, NewSound, NewHolds, PurgeSafe, IncomingOwned, UndoSafe,
             BlindSafe, Orderly, staged
    <2> QED  BY <1>2, <1>4, <2>7, QuietStep
  <1> QED  BY <1>2, <1>3, <1>4

\* Turning to the undoing, whatever is left of the rest.
LEMMA BackOut ==
    ASSUME NEW file, NEW keys, NEW t, Safe(t, file, keys), t.at \in {"secrets", "rename"},
           NEW u, u.at = "undo", u.ids = t.ids, u.copies = t.copies,
           u.writes \in {t.writes, NoWrites}, u.cur = NoRef, u.seen = NoSecret,
           u.undo = t.undo, u.purge = t.purge
    PROVE  Safe(u, file, keys)
  <1>1. undoable(u) = undoable(t) /\ copying(u) = {} /\ pending(u) \subseteq pending(t)
    BY DEF pending, undoable, copying, NoWrites, Safe, Orderly
  <1> QED
    BY <1>1 DEF Safe, Confined, NewSound, NewComplete, NewHolds, PurgeSafe, IncomingOwned,
                UndoSafe, BlindSafe, Orderly, staged

\* What the call read before it overwrites a slot is what the slot holds, and a
\* call that does not read writes no slot in use.
LEMMA LookSafe ==
    ASSUME TypeOK, SafeInv, OneWriter, "peek" \notin Faults, NEW p \in Procs, look(p)
    PROVE  SafeInv'
  <1> DEFINE t == tx[p]
  <1>1. /\ t \in Tx /\ Safe(t, disk, keyring) /\ t.at = "secrets" /\ t.cur = NoRef
        /\ UNCHANGED <<disk, tmp, keyring>>
    BY DEF TypeOK, SafeInv, look
  <1>2. PICK r \in pending(t) :
           \/ /\ t.call \in {"update", "import_bundle"}
              /\ tx' = [tx EXCEPT ![p] = [t EXCEPT !.cur = r, !.seen = keyring[r]]]
           \/ /\ t.call \notin {"update", "import_bundle"}
              /\ tx' = [tx EXCEPT ![p] = [t EXCEPT !.cur = r]]
           \/ tx' = [tx EXCEPT ![p] = [t EXCEPT !.at = "undo", !.writes = NoWrites]]
    BY DEF look, Step
  <1> HIDE DEF t
  <1>3. t.seen = NoSecret /\ copying(t) = {} /\ r \in Refs /\ r # NoRef
    BY <1>1, RefAssumption DEF Safe, Orderly, pending
  <1>4. ASSUME NEW u \in Tx, u.at = "secrets", u.call = t.call, u.ids = t.ids, u.new = t.new,
               u.copies = t.copies, u.writes = t.writes, u.cur = r, u.undo = t.undo,
               u.purge = t.purge, u.doomed = t.doomed,
               u.seen = NoSecret => r \notin FileRefs(disk)
        PROVE  Safe(u, disk, keyring)
    <2>1. pending(u) = pending(t) /\ undoable(u) = undoable(t) /\ copying(u) = copying(t)
      BY <1>4 DEF pending, undoable, copying
    <2> QED
      BY <1>1, <1>2, <1>3, <1>4, <2>1
         DEF Safe, Confined, NewSound, NewComplete, NewHolds, PurgeSafe, IncomingOwned,
             UndoSafe, BlindSafe, Orderly, staged
  <1>5. CASE /\ t.call \in {"update", "import_bundle"}
             /\ tx' = [tx EXCEPT ![p] = [t EXCEPT !.cur = r, !.seen = keyring[r]]]
    <2> DEFINE u == [t EXCEPT !.cur = r, !.seen = keyring[r]]
    <2>1. u \in Tx  BY <1>1, <1>3 DEF Tx, TypeOK
    <2>2. /\ u.at = "secrets" /\ u.call = t.call /\ u.ids = t.ids /\ u.new = t.new
          /\ u.copies = t.copies /\ u.writes = t.writes /\ u.cur = r /\ u.undo = t.undo
          /\ u.purge = t.purge /\ u.doomed = t.doomed /\ u.seen = keyring[r]
      BY <1>1, TxFields
    <2> HIDE DEF u
    <2>3. keyring[r] = NoSecret => r \notin FileRefs(disk)  BY DEF SafeInv, NoDanglingRef
    <2>4. Safe(u, disk, keyring)  BY <1>4, <2>1, <2>2, <2>3
    <2>5. tx' = [tx EXCEPT ![p] = u]  BY <1>5 DEF u
    <2> QED  BY <1>1, <2>4, <2>5, QuietStep
  <1>6. CASE /\ t.call \notin {"update", "import_bundle"}
             /\ tx' = [tx EXCEPT ![p] = [t EXCEPT !.cur = r]]
    <2> DEFINE u == [t EXCEPT !.cur = r]
    <2>1. u \in Tx  BY <1>1, <1>3 DEF Tx
    <2>2. /\ u.at = "secrets" /\ u.call = t.call /\ u.ids = t.ids /\ u.new = t.new
          /\ u.copies = t.copies /\ u.writes = t.writes /\ u.cur = r /\ u.undo = t.undo
          /\ u.purge = t.purge /\ u.doomed = t.doomed /\ u.seen = t.seen
      BY <1>1, TxFields
    <2> HIDE DEF u
    <2>3. r \notin FileRefs(disk)  BY <1>1, <1>2, <1>6 DEF Safe, BlindSafe
    <2>4. Safe(u, disk, keyring)  BY <1>4, <2>1, <2>2, <2>3
    <2>5. tx' = [tx EXCEPT ![p] = u]  BY <1>6 DEF u
    <2> QED  BY <1>1, <2>4, <2>5, QuietStep
  <1>7. CASE tx' = [tx EXCEPT ![p] = [t EXCEPT !.at = "undo", !.writes = NoWrites]]
    <2> DEFINE u == [t EXCEPT !.at = "undo", !.writes = NoWrites]
    <2>1. /\ u.at = "undo" /\ u.ids = t.ids /\ u.copies = t.copies /\ u.writes = NoWrites
          /\ u.cur = t.cur /\ u.seen = t.seen /\ u.undo = t.undo /\ u.purge = t.purge
      BY <1>1, TxFields
    <2> HIDE DEF u
    <2>2. Safe(u, disk, keyring)  BY <1>1, <1>3, <2>1, BackOut
    <2>3. tx' = [tx EXCEPT ![p] = u]  BY <1>7 DEF u
    <2> QED  BY <1>1, <2>2, <2>3, QuietStep
  <1> QED  BY <1>2, <1>5, <1>6, <1>7

\* A call that gives up keeps its plan for undoing and nothing else.
LEMMA GivingUpSafe ==
    ASSUME TypeOK, SafeInv, OneWriter, NEW p \in Procs,
           put_fails(p) \/ refuse(p) \/ save_tmp_fails(p) \/ rename_fails(p)
    PROVE  SafeInv'
  <1> DEFINE t == tx[p]
  <1>1. /\ t \in Tx /\ Safe(t, disk, keyring) /\ t.at \in {"secrets", "rename"}
        /\ UNCHANGED <<disk, keyring>>
    BY DEF TypeOK, SafeInv, put_fails, refuse, save_tmp_fails, rename_fails, written
  <1>2. CASE put_fails(p)
    <2> DEFINE u == [t EXCEPT !.at = "undo", !.cur = NoRef, !.seen = NoSecret,
                              !.writes = NoWrites]
    <2>1. tx' = [tx EXCEPT ![p] = u]  BY <1>2 DEF put_fails, Step
    <2> HIDE DEF t
    <2>2. /\ u.at = "undo" /\ u.ids = t.ids /\ u.copies = t.copies /\ u.writes = NoWrites
          /\ u.cur = NoRef /\ u.seen = NoSecret /\ u.undo = t.undo /\ u.purge = t.purge
      BY <1>1, TxFields
    <2> HIDE DEF u
    <2>3. Safe(u, disk, keyring)  BY <1>1, <2>2, BackOut
    <2> QED  BY <1>1, <2>1, <2>3, QuietStep
  <1>3. CASE refuse(p) \/ save_tmp_fails(p) \/ rename_fails(p)
    <2> DEFINE u == [t EXCEPT !.at = "undo"]
    <2>1. tx' = [tx EXCEPT ![p] = u] /\ (t.cur = NoRef \/ t.at = "rename")
      BY <1>3 DEF refuse, save_tmp_fails, rename_fails, written, Step
    <2> HIDE DEF t
    <2>2. /\ u.at = "undo" /\ u.ids = t.ids /\ u.copies = t.copies /\ u.writes = t.writes
          /\ u.cur = t.cur /\ u.seen = t.seen /\ u.undo = t.undo /\ u.purge = t.purge
      BY <1>1, TxFields
    <2> HIDE DEF u
    <2>3. t.cur = NoRef /\ t.seen = NoSecret  BY <1>1, <2>1 DEF Safe, Orderly
    <2>4. Safe(u, disk, keyring)  BY <1>1, <2>2, <2>3, BackOut
    <2> QED  BY <1>1, <2>1, <2>4, QuietStep
  <1> QED  BY <1>2, <1>3

LEMMA SaveTmpSafe ==
    ASSUME TypeOK, SafeInv, OneWriter, NEW p \in Procs, save_tmp(p)
    PROVE  SafeInv'
  <1> DEFINE t == tx[p]
             u == [t EXCEPT !.at = "rename"]
  <1>1. /\ t \in Tx /\ Safe(t, disk, keyring) /\ t.at = "secrets" /\ t.cur = NoRef
        /\ pending(t) = {} /\ ~t.doomed
        /\ tx' = [tx EXCEPT ![p] = u] /\ UNCHANGED <<disk, keyring>>
    BY DEF TypeOK, SafeInv, save_tmp, written, Step
  <1> HIDE DEF t
  <1>2. /\ u.at = "rename" /\ u.call = t.call /\ u.ids = t.ids /\ u.new = t.new
        /\ u.copies = t.copies /\ u.writes = t.writes /\ u.cur = t.cur /\ u.undo = t.undo
        /\ u.purge = t.purge /\ u.doomed = t.doomed /\ u.seen = t.seen
    BY <1>1, TxFields
  <1> HIDE DEF u
  <1>3. pending(u) = pending(t) /\ undoable(u) = undoable(t) /\ copying(u) = copying(t)
    BY <1>2 DEF pending, undoable, copying
  <1>4. Safe(u, disk, keyring)
    BY <1>1, <1>2, <1>3
       DEF Safe, Confined, NewSound, NewComplete, NewHolds, PurgeSafe, IncomingOwned, UndoSafe,
           BlindSafe, Orderly, staged
  <1> QED  BY <1>1, <1>4, QuietStep
-------------------------------------------------------------------------------
\* Writing a slot: the new file is nearer to complete, and undoing the write
\* cannot empty a slot in use.
LEMMA PutSafe ==
    ASSUME TypeOK, SafeInv, OneWriter, NEW p \in Procs, put(p)
    PROVE  SafeInv'
  <1> DEFINE t == tx[p]
             c == t.cur
             u == [t EXCEPT !.cur = NoRef, !.seen = NoSecret, !.undo[t.cur] = t.seen,
                            !.found[t.cur] = keyring[t.cur], !.writes[t.cur] = NoSecret]
  <1>1. /\ t \in Tx /\ Safe(t, disk, keyring) /\ t.at = "secrets" /\ c # NoRef
        /\ keyring' = [keyring EXCEPT ![c] = t.writes[c]]
        /\ tx' = [tx EXCEPT ![p] = u] /\ UNCHANGED <<disk, tmp>>
    BY DEF TypeOK, SafeInv, put, Step
  <1>2. tx'[p] = u  BY <1>1 DEF TypeOK
  <1> HIDE DEF t
  <1>3. /\ c \in Refs /\ c \in pending(t) /\ t.writes[c] # NoSecret
        /\ t.seen = NoSecret => c \notin FileRefs(disk)
    BY <1>1 DEF Safe, UndoSafe, pending
  <1>4. /\ u.at = "secrets" /\ u.call = t.call /\ u.ids = t.ids /\ u.new = t.new
        /\ u.copies = t.copies /\ u.writes = [t.writes EXCEPT ![c] = NoSecret]
        /\ u.cur = NoRef /\ u.undo = [t.undo EXCEPT ![c] = t.seen]
        /\ u.purge = t.purge /\ u.doomed = t.doomed /\ u.seen = NoSecret
    BY <1>1, TxFields
  <1>5. /\ \A r \in Refs : keyring'[r] = IF r = c THEN t.writes[c] ELSE keyring[r]
        /\ \A r \in Refs : u.writes[r] = IF r = c THEN NoSecret ELSE t.writes[r]
        /\ \A r \in Refs : u.undo[r] = IF r = c THEN t.seen ELSE t.undo[r]
    BY <1>1, <1>4 DEF TypeOK, Tx
  <1> HIDE DEF c, u
  <1>6. /\ pending(u) = pending(t) \ {c} /\ undoable(u) \subseteq undoable(t) \cup {c}
        /\ copying(u) = copying(t)
    BY <1>3, <1>4, <1>5 DEF pending, undoable, copying
  <1>7. FileRefs(disk) \subseteq Refs /\ FileRefs(t.new) \subseteq Refs
    BY <1>1, RefTypes DEF TypeOK, Tx
  <1>8. NoDanglingRef'
    BY <1>1, <1>3, <1>5, <1>7 DEF SafeInv, NoDanglingRef
  <1>9. NewComplete(u, keyring')
    BY <1>1, <1>3, <1>4, <1>5, <1>7 DEF Safe, NewComplete, staged
  <1>10. UndoSafe(u, disk)
    BY <1>1, <1>3, <1>4, <1>5, <1>7 DEF Safe, UndoSafe
  <1>11. Confined(u)
    BY <1>1, <1>3, <1>4, <1>6 DEF Safe, Confined
  <1>12. NewHolds(u, disk)
    BY <1>1, <1>3, <1>4, <1>6 DEF Safe, NewHolds, staged
  <1>13. Safe(u, disk, keyring')
    BY <1>1, <1>4, <1>6, <1>9, <1>10, <1>11, <1>12
       DEF Safe, NewSound, PurgeSafe, IncomingOwned, BlindSafe, Orderly, staged
  <1> QED  BY <1>1, <1>2, <1>8, <1>13, OneStep DEF SafeInv

\* The rename: the new file is sound, complete, and none of what is to be
\* purged is in it.
LEMMA RenameSafe ==
    ASSUME TypeOK, SafeInv, OneWriter, NEW p \in Procs, rename(p)
    PROVE  SafeInv'
  <1> DEFINE t == tx[p]
             u == [t EXCEPT !.at = "purge", !.new = <<>>, !.undo = NoUndo, !.found = NoUndo]
  <1>1. /\ t \in Tx /\ Safe(t, disk, keyring) /\ t.at = "rename"
        /\ disk' = t.new /\ tx' = [tx EXCEPT ![p] = u] /\ keyring' = keyring
    BY DEF TypeOK, SafeInv, rename, Step
  <1>2. tx'[p] = u  BY <1>1 DEF TypeOK
  <1> HIDE DEF t
  <1>3. /\ u.at = "purge" /\ u.ids = t.ids /\ u.copies = t.copies /\ u.writes = t.writes
        /\ u.cur = t.cur /\ u.seen = t.seen /\ u.undo = NoUndo /\ u.purge = t.purge
    BY <1>1, TxFields
  <1> HIDE DEF u
  <1>4. /\ pending(u) = pending(t) /\ copying(u) = copying(t) /\ undoable(u) = {}
    BY <1>3 DEF pending, undoable, copying, NoUndo
  <1>5. /\ Sound(t.new) /\ t.purge \cap FileRefs(t.new) = {}
        /\ pending(t) = {} /\ copying(t) = {} /\ ~t.doomed /\ t.cur = NoRef /\ t.seen = NoSecret
    BY <1>1 DEF Safe, NewSound, PurgeSafe, Orderly, staged
  <1>6. \A r \in FileRefs(t.new) : keyring[r] # NoSecret
    <2>1. FileRefs(t.new) \subseteq Refs  BY <1>1, RefTypes DEF Tx
    <2> QED  BY <1>1, <1>5, <2>1 DEF Safe, NewComplete, staged, pending, copying
  <1>7. Safe(u, t.new, keyring)
    BY <1>1, <1>3, <1>4, <1>5
       DEF Safe, Confined, NewSound, NewComplete, NewHolds, PurgeSafe, IncomingOwned, UndoSafe,
           BlindSafe, Orderly, staged
  <1> QED  BY <1>1, <1>2, <1>5, <1>6, <1>7, OneStep DEF NoDanglingRef

LEMMA PurgeStepSafe ==
    ASSUME TypeOK, SafeInv, OneWriter, NEW p \in Procs, purge(p)
    PROVE  SafeInv'
  <1> DEFINE t == tx[p]
  <1>1. /\ t \in Tx /\ Safe(t, disk, keyring) /\ t.at = "purge" /\ UNCHANGED <<disk, tmp>>
    BY DEF TypeOK, SafeInv, purge
  <1>2. PICK r \in t.purge : /\ \/ keyring' = [keyring EXCEPT ![r] = NoSecret]
                                \/ UNCHANGED keyring
                             /\ tx' = [tx EXCEPT ![p] = [t EXCEPT !.purge = t.purge \ {r}]]
    BY DEF purge, Step
  <1> DEFINE u == [t EXCEPT !.purge = t.purge \ {r}]
  <1>3. tx'[p] = u  BY <1>2 DEF TypeOK
  <1> HIDE DEF t
  <1>4. /\ u.at = "purge" /\ u.ids = t.ids /\ u.copies = t.copies /\ u.writes = t.writes
        /\ u.cur = t.cur /\ u.seen = t.seen /\ u.undo = t.undo /\ u.purge = t.purge \ {r}
    BY <1>1, TxFields
  <1> HIDE DEF u
  <1>5. pending(u) = pending(t) /\ undoable(u) = undoable(t) /\ copying(u) = copying(t)
    BY <1>4 DEF pending, undoable, copying
  <1>6. NoDanglingRef'
    <2>1. FileRefs(disk) \subseteq Refs /\ r \notin FileRefs(disk)
      BY <1>1, <1>2, RefTypes DEF Safe, PurgeSafe, TypeOK
    <2>2. \A s \in FileRefs(disk) : keyring'[s] = keyring[s]  BY <1>2, <2>1 DEF TypeOK
    <2> QED  BY <1>1, <2>2 DEF SafeInv, NoDanglingRef
  <1>7. Safe(u, disk, keyring')
    BY <1>1, <1>4, <1>5
       DEF Safe, Confined, NewSound, NewComplete, NewHolds, PurgeSafe, IncomingOwned, UndoSafe,
           BlindSafe, Orderly, staged
  <1> QED  BY <1>1, <1>3, <1>6, <1>7, OneStep DEF SafeInv

LEMMA UndoStepSafe ==
    ASSUME TypeOK, SafeInv, OneWriter, NEW p \in Procs, undo(p)
    PROVE  SafeInv'
  <1> DEFINE t == tx[p]
  <1>1. /\ t \in Tx /\ Safe(t, disk, keyring) /\ t.at = "undo" /\ UNCHANGED <<disk, tmp>>
    BY DEF TypeOK, SafeInv, undo
  <1>2. PICK r \in undoable(t) :
           /\ keyring' = [keyring EXCEPT ![r] = t.undo[r]] \/ UNCHANGED keyring
           /\ tx' = [tx EXCEPT ![p] = [t EXCEPT !.undo[r] = Untouched]]
    BY DEF undo, Step
  <1> DEFINE u == [t EXCEPT !.undo[r] = Untouched]
  <1>3. tx'[p] = u  BY <1>2 DEF TypeOK
  <1> HIDE DEF t
  <1>4. /\ u.at = "undo" /\ u.ids = t.ids /\ u.copies = t.copies /\ u.writes = t.writes
        /\ u.cur = t.cur /\ u.seen = t.seen /\ u.purge = t.purge
        /\ u.undo = [t.undo EXCEPT ![r] = Untouched]
    BY <1>1, TxFields
  <1> HIDE DEF u
  <1>5. \A s \in Refs : u.undo[s] = IF s = r THEN Untouched ELSE t.undo[s]
    BY <1>1, <1>4 DEF Tx
  <1>6. /\ pending(u) = pending(t) /\ undoable(u) \subseteq undoable(t)
        /\ copying(u) = copying(t)
    BY <1>4, <1>5 DEF pending, undoable, copying
  <1>7. FileRefs(disk) \subseteq Refs  BY RefTypes DEF TypeOK
  <1>8. \A s \in FileRefs(disk) : t.undo[s] # NoSecret  BY <1>1 DEF Safe, UndoSafe
  <1>9. NoDanglingRef'
    <2>1. \A s \in FileRefs(disk) : keyring'[s] = keyring[s] \/ (s = r /\ keyring'[s] = t.undo[s])
      BY <1>2, <1>7 DEF TypeOK
    <2> QED  BY <1>1, <1>8, <2>1 DEF SafeInv, NoDanglingRef
  <1>10. UndoSafe(u, disk)
    BY <1>4, <1>5, <1>7, <1>8, SecretAssumption DEF UndoSafe
  <1>11. Safe(u, disk, keyring')
    BY <1>1, <1>4, <1>6, <1>10
       DEF Safe, Confined, NewSound, NewComplete, NewHolds, PurgeSafe, IncomingOwned,
           BlindSafe, Orderly, staged
  <1> QED  BY <1>1, <1>3, <1>9, <1>11, OneStep DEF SafeInv

LEMMA EndSafe ==
    ASSUME TypeOK, SafeInv, OneWriter, NEW p \in Procs,
           return_ok(p) \/ return_err(p) \/ crash(p)
    PROVE  SafeInv'
  <1>1. tx' = [tx EXCEPT ![p] = Idle] /\ UNCHANGED <<disk, keyring>>
    BY DEF return_ok, return_err, crash
  <1> QED  BY <1>1, IdleSafe, QuietStep

LEMMA CallSafe ==
    ASSUME TypeOK, SafeInv, Healthy, NEW p \in Procs, Call(p)
    PROVE  SafeInv'
  <1> USE DEF Healthy
  <1>1. ASSUME NEW i \in DOMAIN disk, NEW key_ref \in Refs, NEW secret \in Values,
               repair_foreign_ref(p, i, key_ref, secret)
        PROVE  SafeInv'
    BY <1>1, RepairSafe
  <1> QED
    BY <1>1, AddSafe, UpdateSafe, DeleteSafe, MoveSafe, MarkSafe, DuplicateSafe, ImportSafe
       DEF Call

LEMMA ProceedSafe ==
    ASSUME TypeOK, SafeInv, Healthy, NEW p \in Procs, Proceed(p) \/ crash(p)
    PROVE  SafeInv'
  <1> USE DEF Healthy
  <1>1. CASE pass_over(p)  BY <1>1, PassOverSafe
  <1>2. CASE accept(p)  BY <1>2, AcceptSafe
  <1>3. CASE accepted_all(p)  BY <1>3, AcceptedAllSafe
  <1>4. CASE copy_secrets(p)  BY <1>4, CopySecretsSafe
  <1>5. CASE look(p)  BY <1>5, LookSafe
  <1>6. CASE put(p)  BY <1>6, PutSafe
  <1>7. CASE put_fails(p) \/ refuse(p) \/ save_tmp_fails(p) \/ rename_fails(p)
    BY <1>7, GivingUpSafe
  <1>8. CASE save_tmp(p)  BY <1>8, SaveTmpSafe
  <1>9. CASE rename(p)  BY <1>9, RenameSafe
  <1>10. CASE purge(p)  BY <1>10, PurgeStepSafe
  <1>11. CASE undo(p)  BY <1>11, UndoStepSafe
  <1>12. CASE return_ok(p) \/ return_err(p) \/ crash(p)  BY <1>12, EndSafe
  <1> QED
    BY <1>1, <1>2, <1>3, <1>4, <1>5, <1>6, <1>7, <1>8, <1>9, <1>10, <1>11, <1>12 DEF Proceed

LEMMA InitSafe == Init => SafeInv
  <1> SUFFICES ASSUME Init PROVE SafeInv  OBVIOUS
  <1>1. /\ disk = <<>> /\ DOMAIN disk = {}  BY DEF Init
  <1>2. FileRefs(disk) = {} /\ Rows(disk) = {} /\ UniqueIds(disk)
    BY <1>1 DEF FileRefs, Rows, UniqueIds
  <1>3. \A p \in Procs : tx[p] = Idle  BY DEF Init
  <1> QED  BY <1>2, <1>3, IdleSafe DEF SafeInv, Sound, NoDanglingRef

LEMMA NextSafe ==
    ASSUME Healthy, TypeOK, SafeInv, [Next]_vars
    PROVE  SafeInv'
  <1>1. CASE UNCHANGED vars
    <2>1. UNCHANGED <<disk, tmp, keyring, tx>>  BY <1>1 DEF vars
    <2> QED  BY <2>1 DEF SafeInv, NoDanglingRef
  <1>2. CASE Next  BY <1>2, CallSafe, ProceedSafe DEF Next
  <1> QED  BY <1>1, <1>2

\* The invariant holds of every behaviour of a healthy instance.
LEMMA AlwaysSafe ==
    ASSUME Healthy
    PROVE  Spec => []SafeInv
  <1>1. TypeOK /\ SafeInv /\ [Next]_vars => SafeInv'  BY NextSafe
  <1> QED  BY <1>1, InitSafe, TypeCorrect, PTL DEF Spec

\* However many connections, kinds, secrets and bundles there are, whatever
\* keychain or file call fails and wherever the process dies: connections.toml
\* never points at an empty slot.
THEOREM NoReferenceDangles ==
    ASSUME Healthy
    PROVE  Spec => []NoDanglingRef
  <1>1. SafeInv => NoDanglingRef  BY DEF SafeInv
  <1> QED  BY <1>1, AlwaysSafe, PTL

\* ... and never at a slot minted for another connection.
THEOREM ReferencesStayOwned ==
    ASSUME Healthy
    PROVE  Spec => []RefsOwned
  <1>1. SafeInv /\ TypeOK => RefsOwned
    BY RowRefs DEF SafeInv, Sound, RefsOwned, TypeOK
  <1> QED  BY <1>1, AlwaysSafe, TypeCorrect, PTL
-------------------------------------------------------------------------------
(***************************************************************************)
(* A call that runs stays within the connections it is about: every slot   *)
(* it writes, deletes or restores is theirs (Confined), and in a sound     *)
(* file nobody else's entry points at it (SoundOwner).                     *)
(***************************************************************************)
OthersKept ==
    \A p \in Procs : tx[p].at # "idle" /\ tx'[p] # tx[p] =>
        \A i \in DOMAIN disk : disk[i].id \notin tx[p].ids =>
            \A r \in disk[i].refs : keyring'[r] = keyring[r]

LEMMA QuietKeyring ==
    ASSUME UNCHANGED keyring
    PROVE  OthersKept
  BY DEF OthersKept

LEMMA StepKeepsOthers ==
    ASSUME Healthy, TypeOK, SafeInv, NEW p \in Procs, put(p) \/ purge(p) \/ undo(p)
    PROVE  OthersKept
  <1> DEFINE t == tx[p]
  <1>1. /\ disk \in Files /\ Sound(disk) /\ Safe(t, disk, keyring)
        /\ keyring \in [Refs -> Slot]
    BY DEF TypeOK, SafeInv
  <1>2. PICK r \in pending(t) \cup undoable(t) \cup t.purge :
           \E x : keyring' = [keyring EXCEPT ![r] = x]
    <2>1. CASE put(p)
      <3>1. t.cur \in pending(t)  BY <1>1, <2>1 DEF put, Safe, UndoSafe
      <3> QED  BY <2>1, <3>1 DEF put
    <2>2. CASE purge(p)
      <3>1. PICK r \in t.purge : keyring' = [keyring EXCEPT ![r] = NoSecret] \/ UNCHANGED keyring
        BY <2>2 DEF purge
      <3>2. keyring = [keyring EXCEPT ![r] = keyring[r]]  BY <1>1
      <3> QED  BY <3>1, <3>2
    <2>3. CASE undo(p)
      <3>1. PICK r \in undoable(t) :
                keyring' = [keyring EXCEPT ![r] = t.undo[r]] \/ UNCHANGED keyring
        BY <2>3 DEF undo
      <3>2. keyring = [keyring EXCEPT ![r] = keyring[r]]  BY <1>1
      <3> QED  BY <3>1, <3>2
    <2> QED  BY <2>1, <2>2, <2>3
  <1>3. ref_owner(r) \in t.ids  BY <1>1 DEF Safe, Confined
  <1>4. \A s \in Refs : s # r => keyring'[s] = keyring[s]  BY <1>1, <1>2
  <1>5. ASSUME NEW i \in DOMAIN disk, disk[i].id \notin t.ids, NEW s \in disk[i].refs
        PROVE  keyring'[s] = keyring[s]
    <2>1. ref_owner(s) = disk[i].id  BY <1>1, SoundOwner
    <2>2. s \in Refs  BY <1>1, FileDomain DEF Entries
    <2> QED  BY <1>3, <1>4, <1>5, <2>1, <2>2
  <1> QED  BY <1>5 DEF OthersKept, Healthy, OneWriter

\* No step of a running call changes a secret of a connection it is not about.
THEOREM OthersStayUntouched ==
    ASSUME Healthy
    PROVE  Spec => OthersUntouched
  <1>1. TypeOK /\ SafeInv /\ [Next]_vars => [OthersKept]_vars
    <2> SUFFICES ASSUME TypeOK, SafeInv, Next PROVE OthersKept  OBVIOUS
    <2>1. PICK p \in Procs : Call(p) \/ Proceed(p) \/ crash(p)  BY DEF Next
    <2>2. CASE Call(p)  BY <2>2, CallFrame, QuietKeyring DEF Begun
    <2>3. CASE put(p) \/ purge(p) \/ undo(p)  BY <2>3, StepKeepsOthers
    <2>4. CASE \/ pass_over(p) \/ accept(p) \/ accepted_all(p) \/ copy_secrets(p)
               \/ look(p) \/ put_fails(p) \/ refuse(p)
      BY <2>4, QuietKeyring
         DEF pass_over, accept, accepted_all, copy_secrets, look, put_fails, refuse
    <2>5. CASE \/ save_tmp(p) \/ save_tmp_fails(p) \/ rename(p) \/ rename_fails(p)
               \/ return_ok(p) \/ return_err(p) \/ crash(p)
      BY <2>5, QuietKeyring
         DEF save_tmp, save_tmp_fails, rename, rename_fails, return_ok, return_err, crash
    <2> QED  BY <2>1, <2>2, <2>3, <2>4, <2>5 DEF Proceed
  <1> QED  BY <1>1, AlwaysSafe, TypeCorrect, PTL DEF Spec, OthersUntouched, OthersKept
-------------------------------------------------------------------------------
(***************************************************************************)
(* Failures that leave no trace.  A call that fails gives every slot it    *)
(* wrote back what it found there, if the calls that give it back work:    *)
(* the plan for undoing says of every slot in use what was really in it.   *)
(***************************************************************************)
Remembers(p) == /\ tx'[p].undo = tx[p].undo /\ tx'[p].found = tx[p].found
                /\ tx'[p].cur = NoRef /\ tx'[p].seen = NoSecret

\* Steps that change neither store: of a call that keeps its plan, or of one
\* that has no need of it.
Quiet(p) ==
    /\ UNCHANGED <<disk, keyring>>
    /\ \/ Remembers(p) /\ tx[p].at \notin {"undo", "purge"} /\ tx'[p].at # "purge"
       \/ Forgets(p) /\ undoable(tx[p]) = {} /\ (tx[p].at = "purge" => tx[p].purge = {})

LEMMA IdleForgets ==
    Idle.undo = NoUndo /\ Idle.found = NoUndo /\ Idle.cur = NoRef /\ Idle.seen = NoSecret
  BY DEF Idle

LEMMA QuietMoves ==
    ASSUME TypeOK, SafeInv, NEW p \in Procs,
           \/ Call(p) \/ pass_over(p) \/ accept(p) \/ accepted_all(p) \/ copy_secrets(p)
           \/ put_fails(p) \/ refuse(p) \/ save_tmp(p) \/ save_tmp_fails(p) \/ rename_fails(p)
           \/ return_ok(p) \/ return_err(p)
    PROVE  Quiet(p)
  <1> DEFINE t == tx[p]
  <1>0. /\ p \in DOMAIN tx /\ t \in Tx /\ Orderly(t)
    BY DEF TypeOK, SafeInv, Safe
  <1>1. ASSUME UNCHANGED <<disk, keyring>>, tx'[p] = Idle, undoable(t) = {}, t.at # "purge"
        PROVE  Quiet(p)
    BY <1>1, IdleForgets DEF Quiet, Forgets
  <1>2. CASE Call(p)
    BY <1>0, <1>2, CallFrame DEF Begun, Quiet, Orderly
  <1>3. CASE pass_over(p) \/ accept(p)
    <2>1. t.at = "import" /\ t.cur = NoRef /\ t.seen = NoSecret
      BY <1>0, <1>3 DEF pass_over, accept, Orderly
    <2>2. /\ tx'[p].undo = t.undo /\ tx'[p].found = t.found /\ tx'[p].cur = t.cur
          /\ tx'[p].seen = t.seen /\ tx'[p].at = t.at
      <3>1. CASE pass_over(p)  BY <1>0, <3>1, TxFields DEF pass_over, Step
      <3>2. CASE accept(p)  BY <1>0, <3>2, TxFields DEF accept, Step
      <3> QED  BY <1>3, <3>1, <3>2
    <2> QED  BY <1>3, <2>1, <2>2 DEF pass_over, accept, Quiet, Remembers
  <1>4. CASE accepted_all(p)
    <2>1. /\ t.at = "import" /\ t.cur = NoRef /\ t.seen = NoSecret /\ undoable(t) = {}
          /\ UNCHANGED <<disk, keyring>>
      BY <1>0, <1>4 DEF accepted_all, Orderly
    <2>2. \/ tx'[p] = Idle
          \/ /\ tx'[p].undo = t.undo /\ tx'[p].found = t.found /\ tx'[p].cur = t.cur
             /\ tx'[p].seen = t.seen /\ tx'[p].at = "secrets"
      <3>1. \/ tx' = [tx EXCEPT ![p] = Idle]
            \/ tx' = [tx EXCEPT ![p] = [t EXCEPT !.at = "secrets", !.given = NoWrites,
                                       !.owner = NoOwners, !.overwrite = FALSE]]
        BY <1>4 DEF accepted_all, Step
      <3> QED  BY <1>0, <3>1, TxFields
    <2> QED  BY <1>1, <2>1, <2>2 DEF Quiet, Remembers
  <1>5. CASE copy_secrets(p)
    <2>1. /\ t.at = "copy" /\ t.cur = NoRef /\ t.seen = NoSecret /\ undoable(t) = {}
          /\ UNCHANGED <<disk, keyring>>
      BY <1>0, <1>5 DEF copy_secrets, Orderly
    <2>2. \/ tx'[p] = Idle
          \/ /\ tx'[p].undo = t.undo /\ tx'[p].found = t.found /\ tx'[p].cur = t.cur
             /\ tx'[p].seen = t.seen /\ tx'[p].at = "secrets"
      <3>1. \/ tx' = [tx EXCEPT ![p] = Idle]
            \/ \E w : tx' = [tx EXCEPT ![p] = [t EXCEPT !.at = "secrets", !.copies = NoCopies,
                                                       !.writes = w]]
        BY <1>5 DEF copy_secrets, Step
      <3> QED  BY <1>0, <3>1, TxFields
    <2> QED  BY <1>1, <2>1, <2>2 DEF Quiet, Remembers
  <1>6. CASE put_fails(p)
    <2>1. /\ tx'[p].undo = t.undo /\ tx'[p].found = t.found /\ tx'[p].cur = NoRef
          /\ tx'[p].seen = NoSecret /\ tx'[p].at = "undo" /\ t.at = "secrets"
      BY <1>0, <1>6, TxFields DEF put_fails, Step
    <2> QED  BY <1>6, <2>1 DEF put_fails, Quiet, Remembers
  <1>7. CASE refuse(p) \/ save_tmp(p) \/ save_tmp_fails(p) \/ rename_fails(p)
    <2>1. /\ t.at \in {"secrets", "rename"} /\ t.cur = NoRef /\ t.seen = NoSecret
          /\ UNCHANGED <<disk, keyring>>
      BY <1>0, <1>7 DEF refuse, save_tmp, save_tmp_fails, rename_fails, written, Orderly
    <2>2. /\ tx'[p].undo = t.undo /\ tx'[p].found = t.found /\ tx'[p].cur = t.cur
          /\ tx'[p].seen = t.seen /\ tx'[p].at \in {"rename", "undo"}
      BY <1>0, <1>7, TxFields DEF refuse, save_tmp, save_tmp_fails, rename_fails, Step
    <2> QED  BY <2>1, <2>2 DEF Quiet, Remembers
  <1>8. CASE return_ok(p) \/ return_err(p)
    <2>1. undoable(t) = {} /\ (t.at = "purge" => t.purge = {})
      BY <1>0, <1>8 DEF return_ok, return_err, Orderly
    <2>2. tx'[p] = Idle /\ UNCHANGED <<disk, keyring>>
      BY <1>0, <1>8 DEF return_ok, return_err
    <2> QED  BY <2>1, <2>2, IdleForgets DEF Quiet, Forgets
  <1> QED  BY <1>2, <1>3, <1>4, <1>5, <1>6, <1>7, <1>8

\* A call that is about to overwrite a slot in use knows what is in it.
Looks(p) ==
    /\ UNCHANGED <<disk, keyring>>
    /\ tx[p].at = "secrets" /\ tx'[p].at = "secrets"
    /\ tx'[p].undo = tx[p].undo /\ tx'[p].found = tx[p].found
    /\ tx'[p].cur \in pending(tx[p])
    /\ \/ tx'[p].seen = keyring[tx'[p].cur]
       \/ tx'[p].seen = NoSecret /\ tx'[p].cur \notin FileRefs(disk)

LEMMA LookMoves ==
    ASSUME TypeOK, SafeInv, Healthy, NEW p \in Procs, look(p)
    PROVE  Quiet(p) \/ Looks(p)
  <1> DEFINE t == tx[p]
  <1>1. /\ p \in DOMAIN tx /\ t \in Tx /\ Orderly(t) /\ BlindSafe(t, disk)
        /\ t.at = "secrets" /\ t.cur = NoRef /\ t.seen = NoSecret
        /\ UNCHANGED <<disk, keyring>>
    BY DEF TypeOK, SafeInv, Safe, Orderly, look
  <1>2. PICK r \in pending(t) :
           \/ tx' = [tx EXCEPT ![p] = [t EXCEPT !.cur = r, !.seen = keyring[r]]]
           \/ /\ t.call \notin {"update", "import_bundle"}
              /\ tx' = [tx EXCEPT ![p] = [t EXCEPT !.cur = r]]
           \/ tx' = [tx EXCEPT ![p] = [t EXCEPT !.at = "undo", !.writes = NoWrites]]
    BY DEF look, Step, Healthy
  <1>3. CASE tx' = [tx EXCEPT ![p] = [t EXCEPT !.cur = r, !.seen = keyring[r]]]
    <2>1. /\ tx'[p].cur = r /\ tx'[p].seen = keyring[r] /\ tx'[p].at = t.at
          /\ tx'[p].undo = t.undo /\ tx'[p].found = t.found
      BY <1>1, <1>3, TxFields
    <2> QED  BY <1>1, <1>2, <2>1 DEF Looks
  <1>4. CASE /\ t.call \notin {"update", "import_bundle"}
             /\ tx' = [tx EXCEPT ![p] = [t EXCEPT !.cur = r]]
    <2>1. /\ tx'[p].cur = r /\ tx'[p].seen = t.seen /\ tx'[p].at = t.at
          /\ tx'[p].undo = t.undo /\ tx'[p].found = t.found
      BY <1>1, <1>4, TxFields
    <2>2. r \notin FileRefs(disk)  BY <1>1, <1>2, <1>4 DEF BlindSafe
    <2> QED  BY <1>1, <1>2, <2>1, <2>2 DEF Looks
  <1>5. CASE tx' = [tx EXCEPT ![p] = [t EXCEPT !.at = "undo", !.writes = NoWrites]]
    <2>1. /\ tx'[p].cur = t.cur /\ tx'[p].seen = t.seen /\ tx'[p].at = "undo"
          /\ tx'[p].undo = t.undo /\ tx'[p].found = t.found
      BY <1>1, <1>5, TxFields
    <2> QED  BY <1>1, <2>1 DEF Quiet, Remembers
  <1> QED  BY <1>2, <1>3, <1>4, <1>5

\* The three steps that change the keychain, one slot at a time, and the one
\* that changes the file.
Puts(p, c) ==
    /\ tx[p].at = "secrets" /\ tx[p].cur = c /\ tx'[p].at = "secrets"
    /\ tx'[p].cur = NoRef /\ tx'[p].seen = NoSecret
    /\ \A r \in Refs : keyring'[r] = IF r = c THEN tx[p].writes[c] ELSE keyring[r]
    /\ \A r \in Refs : tx'[p].undo[r] = IF r = c THEN tx[p].seen ELSE tx[p].undo[r]
    /\ \A r \in Refs : tx'[p].found[r] = IF r = c THEN keyring[c] ELSE tx[p].found[r]
    /\ disk' = disk

LEMMA PutMoves ==
    ASSUME TypeOK, SafeInv, NEW p \in Procs, put(p)
    PROVE  \E c \in pending(tx[p]) : Puts(p, c)
  <1> DEFINE t == tx[p]
             c == t.cur
             u == [t EXCEPT !.cur = NoRef, !.seen = NoSecret, !.undo[t.cur] = t.seen,
                            !.found[t.cur] = keyring[t.cur], !.writes[t.cur] = NoSecret]
  <1>1. /\ p \in DOMAIN tx /\ t \in Tx /\ t.at = "secrets" /\ c \in pending(t)
        /\ keyring' = [keyring EXCEPT ![c] = t.writes[c]]
        /\ tx' = [tx EXCEPT ![p] = u] /\ disk' = disk
    BY DEF TypeOK, SafeInv, Safe, UndoSafe, put, Step
  <1>2. tx'[p] = u /\ c \in Refs  BY <1>1 DEF pending
  <1> HIDE DEF t
  <1>3. /\ u.at = "secrets" /\ u.cur = NoRef /\ u.seen = NoSecret
        /\ u.undo = [t.undo EXCEPT ![c] = t.seen]
        /\ u.found = [t.found EXCEPT ![c] = keyring[c]]
    BY <1>1, TxFields
  <1> HIDE DEF u
  <1>4. /\ \A r \in Refs : keyring'[r] = IF r = c THEN t.writes[c] ELSE keyring[r]
        /\ \A r \in Refs : u.undo[r] = IF r = c THEN t.seen ELSE t.undo[r]
        /\ \A r \in Refs : u.found[r] = IF r = c THEN keyring[c] ELSE t.found[r]
    <2>1. /\ DOMAIN t.undo = Refs /\ DOMAIN t.found = Refs /\ DOMAIN keyring = Refs
      BY <1>1 DEF TypeOK, Tx
    <2> HIDE DEF c
    <2>2. \A r \in Refs : keyring'[r] = IF r = c THEN t.writes[c] ELSE keyring[r]
      BY <1>1, <2>1
    <2>3. \A r \in Refs : u.undo[r] = IF r = c THEN t.seen ELSE t.undo[r]
      BY <1>3, <2>1
    <2>4. \A r \in Refs : u.found[r] = IF r = c THEN keyring[c] ELSE t.found[r]
      BY <1>3, <2>1
    <2> QED  BY <2>2, <2>3, <2>4
  <1>5. tx[p].cur = c  BY DEF t
  <1> HIDE DEF c
  <1>6. Puts(p, c)  BY <1>1, <1>2, <1>3, <1>4, <1>5 DEF Puts, t
  <1> QED  BY <1>1, <1>6 DEF t

Undoes(p, c) ==
    /\ tx[p].at = "undo" /\ tx'[p].at = "undo" /\ tx'[p].cur = NoRef /\ tx'[p].seen = NoSecret
    /\ \A r \in Refs : keyring'[r] = IF r = c THEN tx[p].undo[c] ELSE keyring[r]
    /\ \A r \in Refs : tx'[p].undo[r] = IF r = c THEN Untouched ELSE tx[p].undo[r]
    /\ tx'[p].found = tx[p].found
    /\ disk' = disk

LEMMA UndoMoves ==
    ASSUME TypeOK, SafeInv, "undo" \notin Faults, NEW p \in Procs, undo(p)
    PROVE  \E c \in undoable(tx[p]) : Undoes(p, c)
  <1> DEFINE t == tx[p]
  <1>1. PICK c \in undoable(t) :
           /\ keyring' = [keyring EXCEPT ![c] = t.undo[c]]
           /\ tx' = [tx EXCEPT ![p] = [t EXCEPT !.undo[c] = Untouched]]
    BY DEF undo, Step
  <1> DEFINE u == [t EXCEPT !.undo[c] = Untouched]
  <1>2. /\ p \in DOMAIN tx /\ t \in Tx /\ t.at = "undo" /\ disk' = disk
        /\ t.cur = NoRef /\ t.seen = NoSecret
    BY DEF TypeOK, SafeInv, Safe, Orderly, undo
  <1>3. tx'[p] = u  BY <1>1, <1>2
  <1> HIDE DEF t
  <1>4. /\ u.at = t.at /\ u.cur = t.cur /\ u.seen = t.seen /\ u.found = t.found
        /\ u.undo = [t.undo EXCEPT ![c] = Untouched]
    BY <1>2, TxFields
  <1> HIDE DEF u
  <1>5. /\ \A r \in Refs : keyring'[r] = IF r = c THEN t.undo[c] ELSE keyring[r]
        /\ \A r \in Refs : u.undo[r] = IF r = c THEN Untouched ELSE t.undo[r]
    BY <1>1, <1>2, <1>4 DEF TypeOK, Tx
  <1>6. Undoes(p, c)  BY <1>2, <1>3, <1>4, <1>5 DEF Undoes, t
  <1> QED  BY <1>1, <1>6 DEF t

Purges(p, c) ==
    /\ tx[p].at = "purge" /\ tx'[p].at = "purge" /\ tx'[p].cur = NoRef
    /\ tx'[p].seen = NoSecret
    /\ \A r \in Refs : r # c => keyring'[r] = keyring[r]
    /\ keyring'[c] = NoSecret \/ "purge" \in Faults
    /\ tx'[p].purge = tx[p].purge \ {c}
    /\ tx'[p].undo = tx[p].undo /\ tx'[p].found = tx[p].found
    /\ disk' = disk

LEMMA PurgeMoves ==
    ASSUME TypeOK, SafeInv, NEW p \in Procs, purge(p)
    PROVE  \E c \in tx[p].purge : Purges(p, c)
  <1> DEFINE t == tx[p]
  <1>1. PICK c \in t.purge :
           /\ \/ keyring' = [keyring EXCEPT ![c] = NoSecret]
              \/ "purge" \in Faults /\ UNCHANGED keyring
           /\ tx' = [tx EXCEPT ![p] = [t EXCEPT !.purge = t.purge \ {c}]]
    BY DEF purge, Step
  <1> DEFINE u == [t EXCEPT !.purge = t.purge \ {c}]
  <1>2. /\ p \in DOMAIN tx /\ t \in Tx /\ t.at = "purge" /\ disk' = disk
        /\ t.cur = NoRef /\ t.seen = NoSecret
    BY DEF TypeOK, SafeInv, Safe, Orderly, purge
  <1>3. tx'[p] = u /\ c \in Refs  BY <1>1, <1>2 DEF Tx
  <1> HIDE DEF t
  <1>4. /\ u.at = t.at /\ u.cur = t.cur /\ u.seen = t.seen /\ u.found = t.found
        /\ u.undo = t.undo /\ u.purge = t.purge \ {c}
    BY <1>2, TxFields
  <1> HIDE DEF u
  <1>5. /\ \A r \in Refs : r # c => keyring'[r] = keyring[r]
        /\ keyring'[c] = NoSecret \/ "purge" \in Faults
    BY <1>1, <1>3 DEF TypeOK
  <1>6. Purges(p, c)  BY <1>2, <1>3, <1>4, <1>5 DEF Purges, t
  <1> QED  BY <1>1, <1>6 DEF t

LEMMA RenameMoves ==
    ASSUME TypeOK, NEW p \in Procs, rename(p)
    PROVE  /\ Forgets(p) \/ tx[p].cur # NoRef \/ tx[p].seen # NoSecret
           /\ tx[p].at = "rename" /\ tx'[p].at = "purge"
           /\ tx'[p].purge = tx[p].purge /\ tx'[p].cur = tx[p].cur
           /\ tx'[p].seen = tx[p].seen /\ disk' = tx[p].new /\ keyring' = keyring
  <1> DEFINE t == tx[p]
             u == [t EXCEPT !.at = "purge", !.new = <<>>, !.undo = NoUndo, !.found = NoUndo]
  <1>1. /\ p \in DOMAIN tx /\ t \in Tx /\ tx' = [tx EXCEPT ![p] = u] /\ t.at = "rename"
        /\ disk' = t.new /\ keyring' = keyring
    BY DEF TypeOK, rename, Step
  <1>2. /\ u.at = "purge" /\ u.undo = NoUndo /\ u.found = NoUndo /\ u.purge = t.purge
        /\ u.cur = t.cur /\ u.seen = t.seen
    BY <1>1, TxFields
  <1> QED  BY <1>1, <1>2 DEF Forgets

\* What a call will give back to the slots in use.
Reversible(t, file, keys) ==
    /\ t.cur # NoRef /\ t.cur \in FileRefs(file) => t.seen = keys[t.cur]
    /\ \A r \in FileRefs(file) :
          \/ t.undo[r] = t.found[r]
          \/ t.at = "undo" /\ t.undo[r] = Untouched /\ t.found[r] = keys[r]

LEMMA ForgetsReversible ==
    ASSUME NEW p \in Procs, Forgets(p), NEW file \in Files, NEW keys
    PROVE  Reversible(tx'[p], file, keys)
  BY RefTypes DEF Forgets, Reversible, NoUndo

LEMMA ReversibleKept ==
    ASSUME TypeOK, SafeInv, Healthy, "undo" \notin Faults, NEW p \in Procs,
           Call(p) \/ Proceed(p) \/ crash(p), Reversible(tx[p], disk, keyring)
    PROVE  Reversible(tx'[p], disk', keyring')
  <1> DEFINE t == tx[p]
  <1>0. /\ disk \in Files /\ FileRefs(disk) \subseteq Refs /\ t \in Tx /\ p \in DOMAIN tx
        /\ Orderly(t) /\ PurgeSafe(t, disk)
    BY RefTypes DEF TypeOK, SafeInv, Safe
  <1>1. CASE Quiet(p)
    <2>1. CASE Forgets(p)  BY <1>0, <1>1, <2>1, ForgetsReversible DEF Quiet
    <2>2. CASE Remembers(p) /\ t.at \notin {"undo", "purge"}
      BY <1>1, <2>2 DEF Quiet, Remembers, Reversible
    <2> QED  BY <1>1, <2>1, <2>2 DEF Quiet
  <1>2. CASE Looks(p)
    BY <1>2 DEF Looks, Reversible
  <1>3. CASE put(p)
    <2>1. PICK c \in pending(t) : Puts(p, c)  BY <1>3, PutMoves
    <2>2. c # NoRef  BY RefAssumption DEF pending
    <2> QED  BY <1>0, <2>1, <2>2 DEF Puts, Reversible
  <1>4. CASE undo(p)
    <2>1. PICK c \in undoable(t) : Undoes(p, c)  BY <1>4, UndoMoves
    <2>2. t.undo[c] # Untouched  BY DEF undoable
    <2> QED  BY <1>0, <2>1, <2>2 DEF Undoes, Reversible
  <1>5. CASE purge(p)
    <2>1. PICK c \in t.purge : Purges(p, c)  BY <1>5, PurgeMoves
    <2> QED  BY <2>1 DEF Purges, Reversible
  <1>6. CASE rename(p)
    <2>1. t.at = "rename" /\ t.cur = NoRef /\ t.seen = NoSecret
      BY <1>0, <1>6, RenameMoves DEF Orderly
    <2>2. Forgets(p) /\ disk' \in Files  BY <1>0, <1>6, <2>1, RenameMoves DEF Tx
    <2> QED  BY <2>2, ForgetsReversible
  <1>7. CASE crash(p)
    <2>1. tx'[p] = Idle /\ UNCHANGED <<disk, keyring>>  BY <1>0, <1>7 DEF crash
    <2>2. Forgets(p)  BY <2>1, IdleForgets DEF Forgets
    <2> QED  BY <1>0, <2>1, <2>2, ForgetsReversible
  <1> QED  BY <1>1, <1>2, <1>3, <1>4, <1>5, <1>6, <1>7, QuietMoves, LookMoves DEF Proceed

\* The end of a call that failed, for every instance whose rollback calls work,
\* whatever else fails and wherever a process died before: each slot the call
\* overwrote and a connection uses holds again what the call found there.
THEOREM FailuresRestoreSecrets ==
    ASSUME Healthy, "undo" \notin Faults
    PROVE  Spec => [][\A p \in Procs : restores_secrets(p)]_vars
  <1> DEFINE RevInv == \A p \in Procs : Reversible(tx[p], disk, keyring)
  <1>1. Init => RevInv
    <2> SUFFICES ASSUME Init, NEW p \in Procs PROVE Reversible(tx[p], disk, keyring)
      OBVIOUS
    <2>1. /\ FileRefs(disk) = {} /\ tx[p] = Idle
      BY DEF Init, FileRefs
    <2> QED  BY <2>1 DEF Reversible
  <1>2. TypeOK /\ SafeInv /\ RevInv /\ [Next]_vars => RevInv'
    <2> SUFFICES ASSUME TypeOK, SafeInv, RevInv, [Next]_vars PROVE RevInv'  OBVIOUS
    <2>1. CASE UNCHANGED vars  BY <2>1 DEF vars, Reversible
    <2>2. CASE Next
      <3>1. PICK p \in Procs : Call(p) \/ Proceed(p) \/ crash(p)  BY <2>2 DEF Next
      <3>2. Reversible(tx'[p], disk', keyring')  BY <3>1, ReversibleKept
      <3> QED  BY <3>2 DEF Healthy, OneWriter
    <2> QED  BY <2>1, <2>2
  <1>3. TypeOK /\ RevInv => \A p \in Procs : restores_secrets(p)
    <2> SUFFICES ASSUME TypeOK, RevInv, NEW p \in Procs, return_err(p),
                        NEW r \in FileRefs(disk)
                 PROVE  tx[p].found[r] \in {Untouched, keyring[r]}
      BY DEF restores_secrets
    <2>1. r \in Refs  BY RefTypes DEF TypeOK
    <2>2. tx[p].undo[r] = Untouched  BY <2>1 DEF return_err, undoable
    <2> QED  BY <2>2 DEF Reversible
  <1> QED  BY <1>1, <1>2, <1>3, AlwaysSafe, TypeCorrect, PTL DEF Spec

\* Where a secret that is in no saved entry can come from: the call in progress
\* has just written it, and will delete it if it fails, or no longer needs it.
Tidy(t, file, keys) ==
    /\ \A r \in Refs : keys[r] # NoSecret =>
          r \in FileRefs(file) \/ r \in undoable(t) \/ (t.at = "purge" /\ r \in t.purge)
    /\ \A r \in Refs : t.undo[r] \notin {Untouched, NoSecret} => r \in FileRefs(file)
    /\ t.seen # NoSecret => t.cur \in FileRefs(file)

TidyInv == NoOrphanSecret /\ \A p \in Procs : Tidy(tx[p], disk, keyring)

LEMMA TidyKept ==
    ASSUME TypeOK, SafeInv, Healthy, Faults \cap {"undo", "purge"} = {}, NEW p \in Procs,
           Call(p) \/ Proceed(p), Tidy(tx[p], disk, keyring)
    PROVE  Tidy(tx'[p], disk', keyring')
  <1> DEFINE t == tx[p]
             u == tx'[p]
  <1>0. /\ FileRefs(disk) \subseteq Refs /\ t \in Tx /\ Orderly(t) /\ NewHolds(t, disk)
        /\ keyring \in [Refs -> Slot]
    BY RefTypes DEF TypeOK, SafeInv, Safe
  <1>1. CASE Quiet(p)
    <2>1. CASE Forgets(p) /\ undoable(t) = {} /\ (t.at = "purge" => t.purge = {})
      <3>1. \A r \in Refs : u.undo[r] = Untouched  BY <2>1 DEF Forgets, NoUndo
      <3> QED  BY <1>1, <2>1, <3>1 DEF Forgets, Quiet, Tidy
    <2>2. CASE Remembers(p) /\ t.at # "purge"
      BY <1>1, <2>2 DEF Quiet, Remembers, Tidy, undoable
    <2> QED  BY <1>1, <2>1, <2>2 DEF Quiet
  <1>2. CASE Looks(p)
    <2>1. u.cur \in Refs /\ u.cur \notin undoable(t)
      BY <1>0, <1>2 DEF Looks, Orderly, pending
    <2>2. u.seen # NoSecret => u.cur \in FileRefs(disk)
      BY <1>2, <2>1 DEF Looks, Tidy
    <2> QED  BY <1>2, <2>2 DEF Looks, Tidy, undoable
  <1>3. CASE put(p)
    <2>1. PICK c \in pending(t) : Puts(p, c)  BY <1>3, PutMoves
    <2>2. c \in Refs /\ t.seen # Untouched
      BY <1>0, SecretAssumption DEF pending, Tx, Slot
    <2>3. undoable(u) = undoable(t) \cup {c}
      BY <2>1, <2>2 DEF Puts, undoable
    <2> QED  BY <2>1, <2>2, <2>3 DEF Puts, Tidy
  <1>4. CASE undo(p)
    <2>1. PICK c \in undoable(t) : Undoes(p, c)  BY <1>4, UndoMoves
    <2>2. c \in Refs /\ t.undo[c] # Untouched  BY DEF undoable
    <2>3. undoable(u) = undoable(t) \ {c}
      BY <2>1, <2>2 DEF Undoes, undoable
    <2> QED  BY <2>1, <2>2, <2>3 DEF Undoes, Tidy
  <1>5. CASE purge(p)
    <2>1. PICK c \in t.purge : Purges(p, c)  BY <1>5, PurgeMoves
    <2>2. undoable(u) = undoable(t)  BY <2>1 DEF Purges, undoable
    <2> QED  BY <2>1, <2>2 DEF Purges, Tidy
  <1>6. CASE rename(p)
    <2>1. /\ t.at = "rename" /\ u.at = "purge" /\ u.purge = t.purge /\ disk' = t.new
          /\ keyring' = keyring /\ t.cur = NoRef /\ t.seen = NoSecret /\ ~t.doomed
      BY <1>0, <1>6, RenameMoves DEF Orderly
    <2>2. Forgets(p)  BY <1>6, <2>1, RenameMoves
    <2>3. undoable(t) \cup FileRefs(disk) \subseteq FileRefs(t.new) \cup t.purge
      BY <1>0, <2>1 DEF NewHolds, staged
    <2>4. \A r \in Refs : u.undo[r] = Untouched  BY <2>2 DEF Forgets, NoUndo
    <2> QED  BY <2>1, <2>2, <2>3, <2>4 DEF Forgets, Tidy
  <1> QED  BY <1>1, <1>2, <1>3, <1>4, <1>5, <1>6, QuietMoves, LookMoves DEF Proceed

\* When the calls that tidy up work and no process dies inside a call, no
\* secret is ever left that no connection points at: whatever else fails, and
\* however many connections, secrets and bundles there are.
THEOREM NoSecretIsOrphaned ==
    ASSUME Healthy, Faults \cap {"undo", "purge"} = {}, Crashes = FALSE
    PROVE  Spec => []NoOrphanSecret
  <1>1. Init => TidyInv
    <2> SUFFICES ASSUME Init PROVE TidyInv  OBVIOUS
    <2>1. /\ \A r \in Refs : keyring[r] = NoSecret
          /\ \A p \in Procs : tx[p] = Idle
      BY DEF Init
    <2>2. /\ Idle.seen = NoSecret /\ \A r \in Refs : Idle.undo[r] = Untouched
      BY IdleForgets DEF NoUndo
    <2> QED  BY <2>1, <2>2 DEF TidyInv, NoOrphanSecret, Tidy
  <1>2. TypeOK /\ SafeInv /\ TidyInv /\ [Next]_vars => TidyInv'
    <2> SUFFICES ASSUME TypeOK, SafeInv, TidyInv, [Next]_vars PROVE TidyInv'  OBVIOUS
    <2>1. CASE UNCHANGED vars
      BY <2>1 DEF vars, TidyInv, NoOrphanSecret, Tidy
    <2>2. CASE Next
      <3>1. PICK p \in Procs : Call(p) \/ Proceed(p)  BY <2>2 DEF Next, crash
      <3>2. Tidy(tx'[p], disk', keyring')  BY <3>1, TidyKept DEF TidyInv
      <3>3. SafeInv'  BY <2>2, NextSafe
      <3>4. tx'[p].at = "idle" => undoable(tx'[p]) = {}
        BY <3>3 DEF SafeInv, Safe, Orderly
      <3>5. NoOrphanSecret'  BY <3>2, <3>4 DEF NoOrphanSecret, Tidy
      <3> QED  BY <3>2, <3>5 DEF TidyInv, Healthy, OneWriter
    <2> QED  BY <2>1, <2>2
  <1> QED  BY <1>1, <1>2, AlwaysSafe, TypeCorrect, PTL DEF Spec, TidyInv
-------------------------------------------------------------------------------
(***************************************************************************)
(* No id is ever listed twice, whoever writes the file: each call checks   *)
(* the file it read, and what it saves is that file with its own change.   *)
(* No assumption on the writers is needed, and none on the bundles.        *)
(***************************************************************************)
StagedParses(t) == staged(t) => UniqueIds(t.new)

ParseInv == UniqueIds(disk) /\ \A p \in Procs : StagedParses(tx[p])

LEMMA SameIds ==
    ASSUME NEW file, NEW new, UniqueIds(file), DOMAIN new = DOMAIN file,
           \A j \in DOMAIN file : new[j].id = file[j].id
    PROVE  UniqueIds(new)
  BY DEF UniqueIds

LEMMA CallParses ==
    ASSUME TypeOK, ParseInv, NEW p \in Procs, Call(p)
    PROVE  UniqueIds(tx'[p].new)
  <1>0. disk \in Files /\ UniqueIds(disk) /\ p \in DOMAIN tx  BY DEF TypeOK, ParseInv
  <1>1. ASSUME NEW id \in Ids, NEW kind \in DraftKinds[p], NEW mark \in Marks,
               NEW alias \in Ids \cup Aliases \cup {NoAlias},
               NEW fields \in SecretShapes(kind), NEW secrets \in [fields -> Values],
               add(p, id, kind, alias, mark, secrets)
        PROVE  UniqueIds(tx'[p].new)
    <2> DEFINE entry == [id |-> id, kind |-> kind, alias |-> alias, mark |-> mark,
                         refs |-> minted(id, DOMAIN secrets)]
    <2>1. kind \in Kinds /\ fields \subseteq Fields
      BY KindAssumption DEF SecretShapes, Kinds, Fields, SshFields
    <2>2. entry \in Entries /\ entry.id = id
      BY <2>1, RefTypes DEF minted, Entries
    <2>3. tx'[p].new = Append(disk, entry) /\ find_index(disk, id) = {}
      BY <1>0, <1>1 DEF add, Begin, Idle
    <2> HIDE DEF entry
    <2> QED  BY <1>0, <2>2, <2>3, AppendRow
  <1>2. ASSUME NEW i \in DOMAIN disk, NEW ssh, NEW mark, NEW alias, NEW edit,
               update(p, i, edit, ssh, alias, mark)
        PROVE  UniqueIds(tx'[p].new)
    <2>1. PICK refs : tx'[p].new = [disk EXCEPT ![i] =
                          [disk[i] EXCEPT !.refs = refs, !.alias = alias, !.mark = mark]]
      BY <1>0, <1>2 DEF update, Begin, Idle
    <2>2. disk[i] \in Entries  BY <1>0, FileDomain
    <2> DEFINE row == [disk[i] EXCEPT !.refs = refs, !.alias = alias, !.mark = mark]
    <2>3. row.id = disk[i].id  BY <2>2 DEF Entries
    <2> HIDE DEF row
    <2> QED  BY <1>0, <2>1, <2>3, SameIds DEF row
  <1>3. ASSUME NEW i \in DOMAIN disk, delete(p, i)
        PROVE  UniqueIds(tx'[p].new)
    <2>1. tx'[p].new = RemoveAt(disk, i)  BY <1>0, <1>3 DEF delete, Begin, Idle
    <2> QED  BY <1>0, <2>1, RemoveRow
  <1>4. ASSUME NEW i \in DOMAIN disk, NEW index \in 0 .. Len(disk), move_to(p, i, index)
        PROVE  UniqueIds(tx'[p].new)
    <2>1. tx'[p].new = moved(disk, i, index)  BY <1>0, <1>4 DEF move_to, Begin, Idle
    <2>2. index \in 0 .. Len(disk) - 1  BY <1>0, <1>4, FileDomain DEF move_to
    <2> QED  BY <1>0, <2>1, <2>2, MoveRow
  <1>5. ASSUME NEW i \in DOMAIN disk, NEW mark, set_mark(p, i, mark)
        PROVE  UniqueIds(tx'[p].new)
    <2>1. tx'[p].new = [disk EXCEPT ![i].mark = mark]
      BY <1>0, <1>5 DEF set_mark, Begin, Idle
    <2>2. disk[i] \in Entries  BY <1>0, FileDomain
    <2> DEFINE row == [disk[i] EXCEPT !.mark = mark]
    <2>3. row.id = disk[i].id  BY <2>2 DEF Entries
    <2>4. tx'[p].new = [disk EXCEPT ![i] = row]  BY <2>1
    <2> HIDE DEF row
    <2> QED  BY <1>0, <2>3, <2>4, SameIds
  <1>6. ASSUME NEW i \in DOMAIN disk, NEW new_id \in Ids, duplicate(p, i, new_id)
        PROVE  UniqueIds(tx'[p].new)
    <2>1. disk[i] \in Entries  BY <1>0, FileDomain
    <2> DEFINE refs == {keyring_ref(new_id, ref_field(r)) : r \in disk[i].refs}
               entry == [disk[i] EXCEPT !.id = new_id, !.alias = NoAlias, !.mark = NoMark,
                                        !.refs = refs]
    <2>2. refs \subseteq Refs  BY <2>1, RefTypes
    <2>3. entry \in Entries /\ entry.id = new_id
      BY <2>1, <2>2, MarkAssumption DEF Entries
    <2>4. tx'[p].new = Append(disk, entry) /\ find_index(disk, new_id) = {}
      BY <1>0, <1>6 DEF duplicate, Begin, Idle
    <2> HIDE DEF entry
    <2> QED  BY <1>0, <2>3, <2>4, AppendRow
  <1>7. ASSUME NEW i \in DOMAIN disk, NEW key_ref, NEW secret,
               repair_foreign_ref(p, i, key_ref, secret)
        PROVE  UniqueIds(tx'[p].new)
    <2>1. PICK own_ref : tx'[p].new =
              [disk EXCEPT ![i].refs = (@ \ {key_ref}) \cup {own_ref}]
      BY <1>0, <1>7 DEF repair_foreign_ref, Begin, Idle
    <2>2. disk[i] \in Entries  BY <1>0, FileDomain
    <2> DEFINE row == [disk[i] EXCEPT !.refs = (disk[i].refs \ {key_ref}) \cup {own_ref}]
    <2>3. row.id = disk[i].id  BY <2>2 DEF Entries
    <2>4. tx'[p].new = [disk EXCEPT ![i] = row]  BY <2>1
    <2> HIDE DEF row
    <2> QED  BY <1>0, <2>3, <2>4, SameIds
  <1>8. ASSUME NEW bundle, NEW overwrite, import_bundle(p, bundle, overwrite)
        PROVE  UniqueIds(tx'[p].new)
    BY <1>0, <1>8 DEF import_bundle, Begin, Idle
  <1> QED
    BY <1>1, <1>2, <1>3, <1>4, <1>5, <1>6, <1>7, <1>8 DEF Call

LEMMA AcceptParses ==
    ASSUME TypeOK, ParseInv, NEW p \in Procs, accept(p)
    PROVE  UniqueIds(tx'[p].new)
  <1> DEFINE t == tx[p]
             entry == Head(t.incoming)
             rows == find_index(t.new, entry.id)
             new == IF rows = {} THEN Append(t.new, entry)
                    ELSE [j \in DOMAIN t.new |-> IF j \in rows THEN entry ELSE t.new[j]]
  <1>1. t \in Tx /\ t.incoming \in Files /\ t.incoming # <<>> /\ t.new \in Files
        /\ UniqueIds(t.new) /\ p \in DOMAIN tx
    BY DEF TypeOK, ParseInv, StagedParses, staged, accept, Tx
  <1>2. entry \in Entries  BY <1>1, HeadTailProperties DEF Files
  <1>3. tx'[p].new = new  BY <1>1, TxFields DEF accept, Step
  <1>4. new = joined(t.new, entry)  BY DEF joined
  <1> HIDE DEF t, entry, new
  <1> QED  BY <1>1, <1>2, <1>3, <1>4, JoinedRows

\* What every step inside a call but the acceptance of a bundle's entry does to
\* the file it will save: keeps it, puts it in place, or gives it up.
LEMMA StagedKept ==
    ASSUME TypeOK, NEW p \in Procs, Proceed(p) \/ crash(p), ~accept(p)
    PROVE  \/ /\ rename(p) /\ tx[p].at = "rename" /\ disk' = tx[p].new
              /\ ~staged(tx'[p])
           \/ /\ disk' = disk
              /\ staged(tx'[p]) =>
                    /\ staged(tx[p]) /\ tx'[p].new = tx[p].new /\ tx'[p].call = tx[p].call
                    /\ tx'[p].ids = tx[p].ids
                    /\ tx'[p].at = "import" => tx[p].at = "import"
  <1> DEFINE t == tx[p]
             Kept == /\ disk' = disk
                     /\ staged(tx'[p]) =>
                           /\ staged(t) /\ tx'[p].new = t.new /\ tx'[p].call = t.call
                           /\ tx'[p].ids = t.ids
                           /\ tx'[p].at = "import" => t.at = "import"
  <1>0. /\ p \in DOMAIN tx /\ t \in Tx /\ Idle.at = "idle"
    BY DEF TypeOK, Idle
  <1>1. CASE rename(p)
    <2>1. t.at = "rename" /\ disk' = t.new /\ tx'[p].at = "purge"
      BY <1>0, <1>1, TxFields DEF rename, Step
    <2> QED  BY <1>1, <2>1 DEF staged
  <1>2. CASE pass_over(p)
    <2>1. /\ t.at = "import" /\ tx' = [tx EXCEPT ![p] = [t EXCEPT !.incoming = Tail(t.incoming)]]
          /\ disk' = disk
      BY <1>2 DEF pass_over, Step
    <2>2. Kept  BY <1>0, <2>1, TxFields DEF staged
    <2> QED  BY <2>2
  <1>3. CASE accepted_all(p)
    <2>1. /\ t.at = "import" /\ disk' = disk
          /\ \/ tx' = [tx EXCEPT ![p] = Idle]
             \/ tx' = [tx EXCEPT ![p] = [t EXCEPT !.at = "secrets", !.given = NoWrites,
                                        !.owner = NoOwners, !.overwrite = FALSE]]
      BY <1>3 DEF accepted_all, Step
    <2>2. Kept  BY <1>0, <2>1, TxFields DEF staged
    <2> QED  BY <2>2
  <1>4. CASE copy_secrets(p)
    <2>1. PICK w : /\ t.at = "copy" /\ disk' = disk
                   /\ \/ tx' = [tx EXCEPT ![p] = [t EXCEPT !.at = "secrets",
                                                 !.copies = NoCopies, !.writes = w]]
                      \/ tx' = [tx EXCEPT ![p] = Idle]
      BY <1>4 DEF copy_secrets, Step
    <2>2. Kept  BY <1>0, <2>1, TxFields DEF staged
    <2> QED  BY <2>2
  <1>5. CASE look(p)
    <2>1. PICK r : \/ tx' = [tx EXCEPT ![p] = [t EXCEPT !.cur = r, !.seen = keyring[r]]]
                   \/ tx' = [tx EXCEPT ![p] = [t EXCEPT !.cur = r, !.seen = NoSecret]]
                   \/ tx' = [tx EXCEPT ![p] = [t EXCEPT !.at = "undo", !.writes = NoWrites]]
                   \/ tx' = [tx EXCEPT ![p] = [t EXCEPT !.cur = r]]
      BY <1>5 DEF look, Step
    <2>2. t.at = "secrets" /\ disk' = disk  BY <1>5 DEF look
    <2>3. CASE \/ tx' = [tx EXCEPT ![p] = [t EXCEPT !.cur = r, !.seen = keyring[r]]]
               \/ tx' = [tx EXCEPT ![p] = [t EXCEPT !.cur = r, !.seen = NoSecret]]
      BY <1>0, <2>2, <2>3, TxFields DEF staged
    <2>4. CASE tx' = [tx EXCEPT ![p] = [t EXCEPT !.at = "undo", !.writes = NoWrites]]
      BY <1>0, <2>2, <2>4, TxFields DEF staged
    <2>5. CASE tx' = [tx EXCEPT ![p] = [t EXCEPT !.cur = r]]
      BY <1>0, <2>2, <2>5, TxFields DEF staged
    <2> QED  BY <2>1, <2>3, <2>4, <2>5
  <1>6. CASE put(p)
    <2>1. /\ t.at = "secrets" /\ disk' = disk
          /\ tx' = [tx EXCEPT ![p] = [t EXCEPT !.cur = NoRef, !.seen = NoSecret,
                                     !.undo[t.cur] = t.seen, !.found[t.cur] = keyring[t.cur],
                                     !.writes[t.cur] = NoSecret]]
      BY <1>6 DEF put, Step
    <2>2. /\ tx'[p].new = t.new /\ tx'[p].call = t.call /\ tx'[p].at = t.at
          /\ tx'[p].ids = t.ids
      BY <1>0, <2>1, TxFields
    <2>3. Kept  BY <2>1, <2>2 DEF staged
    <2> QED  BY <2>3
  <1>7. CASE put_fails(p) \/ refuse(p) \/ save_tmp_fails(p) \/ rename_fails(p)
    <2>1. disk' = disk /\ tx'[p].at = "undo"
      BY <1>0, <1>7, TxFields DEF put_fails, refuse, save_tmp_fails, rename_fails, Step
    <2> QED  BY <2>1 DEF staged
  <1>8. CASE save_tmp(p)
    <2>1. /\ t.at = "secrets" /\ disk' = disk /\ tx' = [tx EXCEPT ![p] = [t EXCEPT !.at = "rename"]]
      BY <1>8 DEF save_tmp, written, Step
    <2>2. Kept  BY <1>0, <2>1, TxFields DEF staged
    <2> QED  BY <2>2
  <1>9. CASE purge(p) \/ undo(p)
    <2>1. disk' = disk /\ t.at \in {"purge", "undo"}
          /\ \E r, s : \/ tx' = [tx EXCEPT ![p] = [t EXCEPT !.purge = s]]
                       \/ tx' = [tx EXCEPT ![p] = [t EXCEPT !.undo[r] = s]]
      BY <1>9 DEF purge, undo, Step
    <2>2. tx'[p].at = t.at  BY <1>0, <2>1, TxFields
    <2> QED  BY <2>1, <2>2 DEF staged
  <1>10. CASE return_ok(p) \/ return_err(p) \/ crash(p)
    BY <1>0, <1>10 DEF return_ok, return_err, crash, staged
  <1> QED
    BY <1>1, <1>2, <1>3, <1>4, <1>5, <1>6, <1>7, <1>8, <1>9, <1>10 DEF Proceed

\* Every step inside a call leaves a file that parses, on disk and in hand.
LEMMA ProceedParses ==
    ASSUME TypeOK, ParseInv, NEW p \in Procs, Proceed(p) \/ crash(p)
    PROVE  StagedParses(tx'[p]) /\ UniqueIds(disk')
  <1>0. UniqueIds(disk) /\ StagedParses(tx[p])  BY DEF ParseInv
  <1>1. CASE accept(p)
    <2>1. UNCHANGED disk  BY <1>1 DEF accept
    <2> QED  BY <1>0, <1>1, <2>1, AcceptParses DEF StagedParses
  <1>2. CASE ~accept(p)
    BY <1>0, <1>2, StagedKept DEF StagedParses, staged
  <1> QED  BY <1>1, <1>2

\* The inductive invariant, which later proofs cite.
LEMMA AlwaysParses == Spec => []ParseInv
  <1>1. Init => ParseInv
    <2>1. DOMAIN (<<>>) = {}  OBVIOUS
    <2> QED  BY <2>1 DEF Init, ParseInv, StagedParses, staged, UniqueIds, Idle
  <1>2. TypeOK /\ ParseInv /\ [Next]_vars => ParseInv'
    <2> SUFFICES ASSUME TypeOK, ParseInv, [Next]_vars PROVE ParseInv'  OBVIOUS
    <2>1. CASE UNCHANGED vars
      <3>1. UNCHANGED <<disk, tmp, keyring, tx>>  BY <2>1 DEF vars
      <3> QED  BY <3>1 DEF ParseInv
    <2>2. ASSUME NEW p \in Procs, Call(p) PROVE ParseInv'
      <3>1. Begun(p) /\ UniqueIds(tx'[p].new)  BY <2>2, CallFrame, CallParses
      <3> QED  BY <3>1 DEF Begun, ParseInv, StagedParses
    <2>3. ASSUME NEW p \in Procs, Proceed(p) \/ crash(p) PROVE ParseInv'
      BY <2>3, ProceedFrame, ProceedParses DEF ParseInv
    <2> QED  BY <2>1, <2>2, <2>3 DEF Next
  <1> QED  BY <1>1, <1>2, TypeCorrect, PTL DEF Spec

\* connections.toml can be parsed whoever wrote it last, in whatever order the
\* calls of however many processes interleave.
THEOREM FileAlwaysParses == Spec => []FileParses
  <1>1. ParseInv => FileParses  BY DEF ParseInv, FileParses
  <1> QED  BY <1>1, AlwaysParses, PTL
-------------------------------------------------------------------------------
(***************************************************************************)
(* Names and slots.  Every call but import checks the names it gives       *)
(* against the file it read and mints slots of its own, so what it saves   *)
(* mixes up no two connections of that file; with one writer that file is  *)
(* still the one on disk when the rename replaces it.                      *)
(***************************************************************************)
\* The new file shares no name and points at no foreign slot that the old one
\* does not.
Unmixed(new, file) == /\ shared_names(new) \subseteq shared_names(file)
                      /\ foreign_slots(new) \subseteq foreign_slots(file)

\* In a file that parses, both are about the rows and not about their order.
LEMMA MixedRows ==
    ASSUME NEW file \in Files, UniqueIds(file)
    PROVE  /\ shared_names(file) =
                  {n \in Ids \cup Aliases : \E a, b \in Rows(file) :
                      a.id # b.id /\ n \in names(a) \cap names(b)}
           /\ foreign_slots(file) = UNION {foreign_refs(a) : a \in Rows(file)}
  <1>1. \A i, j \in DOMAIN file : i # j <=> file[i].id # file[j].id  BY DEF UniqueIds
  <1>2. \A n \in Ids \cup Aliases :
           (\E i, j \in DOMAIN file : i # j /\ n \in names(file[i]) \cap names(file[j]))
           <=> (\E a, b \in Rows(file) : a.id # b.id /\ n \in names(a) \cap names(b))
    BY <1>1 DEF Rows
  <1> QED  BY <1>2 DEF shared_names, foreign_slots, Rows

\* The same rows in another order, or fewer of them.
LEMMA FewerRows ==
    ASSUME NEW file \in Files, UniqueIds(file), NEW new \in Files, UniqueIds(new),
           Rows(new) \subseteq Rows(file)
    PROVE  Unmixed(new, file)
  BY MixedRows DEF Unmixed

\* One row more, or one row rewritten: what matters is that no other row
\* answers to a name the row did not have, and that every slot it points at is
\* its own or was already foreign to it.
LEMMA OneRow ==
    ASSUME NEW file \in Files, UniqueIds(file), NEW new \in Files, UniqueIds(new),
           NEW row \in Entries, NEW old,
           Rows(new) \subseteq {row} \cup {x \in Rows(file) : x.id # row.id},
           old \subseteq {x \in Rows(file) : x.id = row.id},
           \A x \in Rows(file), n \in Ids \cup Aliases :
               x.id # row.id /\ n \in names(row) /\ n \in names(x)
                   => \E a \in old : n \in names(a),
           \A r \in foreign_refs(row) : \E a \in old : r \in foreign_refs(a)
    PROVE  Unmixed(new, file)
  <1>1. ASSUME NEW n \in Ids \cup Aliases, NEW a \in Rows(new), NEW b \in Rows(new),
               a.id # b.id, n \in names(a) \cap names(b)
        PROVE  \E c, d \in Rows(file) : c.id # d.id /\ n \in names(c) \cap names(d)
    <2>1. CASE a = row  BY <1>1, <2>1
    <2>2. CASE b = row  BY <1>1, <2>2
    <2>3. CASE a # row /\ b # row  BY <1>1, <2>3
    <2> QED  BY <2>1, <2>2, <2>3
  <1>2. shared_names(new) \subseteq shared_names(file)  BY <1>1, MixedRows
  <1>3. ASSUME NEW r, NEW a \in Rows(new), r \in foreign_refs(a)
        PROVE  \E c \in Rows(file) : r \in foreign_refs(c)
    BY <1>3
  <1>4. foreign_slots(new) \subseteq foreign_slots(file)  BY <1>3, MixedRows
  <1> QED  BY <1>2, <1>4 DEF Unmixed

\* A call that imports nothing holds such a file from its plan to its rename.
StagedUnmixed(t, file) ==
    /\ t.at = "import" => t.call = "import_bundle"
    /\ staged(t) /\ t.call # "import_bundle" => Unmixed(t.new, file)

MixInv == \A p \in Procs : StagedUnmixed(tx[p], disk)

\* What a call that rewrites row i of the file does to its names and slots.
LEMMA RewrittenRow ==
    ASSUME disk \in Files, UniqueIds(disk), NEW i \in DOMAIN disk, NEW row \in Entries,
           row.id = disk[i].id,
           row.alias \in {disk[i].alias, NoAlias} \/ handle_is_free(disk, row.alias, row.id),
           foreign_refs(row) \subseteq foreign_refs(disk[i])
    PROVE  Unmixed([disk EXCEPT ![i] = row], disk)
  <1> DEFINE new == [disk EXCEPT ![i] = row]
  <1>1. /\ new \in Files /\ UniqueIds(new)
        /\ Rows(new) = {row} \cup {x \in Rows(disk) : x.id # row.id}
    BY EditRow, ZenonT(30)
  <1>2. disk[i] \in Rows(disk) /\ disk[i].id = row.id  BY DEF Rows
  <1>3. ASSUME NEW x \in Rows(disk), NEW n \in Ids \cup Aliases, x.id # row.id,
               n \in names(row), n \in names(x)
        PROVE  n \in names(disk[i])
    <2>1. PICK j \in DOMAIN disk : x = disk[j]  BY DEF Rows
    <2> QED  BY <1>2, <1>3, <2>1 DEF names, handle_is_free
  <1> HIDE DEF new
  <1>4. Unmixed(new, disk)
    <2> DEFINE old == {disk[i]}
    <2>1. old \subseteq {x \in Rows(disk) : x.id = row.id}  BY <1>2
    <2>2. \A x \in Rows(disk), n \in Ids \cup Aliases :
              x.id # row.id /\ n \in names(row) /\ n \in names(x)
                  => \E a \in old : n \in names(a)
      BY <1>3
    <2>3. \A r \in foreign_refs(row) : \E a \in old : r \in foreign_refs(a)  OBVIOUS
    <2> HIDE DEF old
    <2> QED  BY <1>1, <2>1, <2>2, <2>3, OneRow
  <1> QED  BY <1>4 DEF new

\* What a call that adds a row does: its names are free, its slots its own.
LEMMA AddedRow ==
    ASSUME disk \in Files, UniqueIds(disk), NEW row \in Entries,
           find_index(disk, row.id) = {}, handle_is_free(disk, row.id, row.id),
           row.alias # NoAlias => handle_is_free(disk, row.alias, row.id),
           foreign_refs(row) = {}
    PROVE  Unmixed(Append(disk, row), disk)
  <1> DEFINE new == Append(disk, row)
  <1>1. new \in Files /\ UniqueIds(new) /\ Rows(new) = Rows(disk) \cup {row}  BY AppendRow
  <1>2. \A x \in Rows(disk) : x.id # row.id  BY DEF Rows, find_index
  <1>3. ASSUME NEW x \in Rows(disk), NEW n \in names(row) PROVE n \notin names(x)
    <2>1. PICK j \in DOMAIN disk : x = disk[j]  BY DEF Rows
    <2> QED  BY <1>2, <1>3, <2>1 DEF names, handle_is_free
  <1> HIDE DEF new
  <1>4. Unmixed(new, disk)
    <2>1. Rows(new) \subseteq {row} \cup {x \in Rows(disk) : x.id # row.id}  BY <1>1, <1>2
    <2>2. \A x \in Rows(disk), n \in Ids \cup Aliases :
              x.id # row.id /\ n \in names(row) /\ n \in names(x) => \E a \in {} : n \in names(a)
      BY <1>3
    <2>3. \A r \in foreign_refs(row) : \E a \in {} : r \in foreign_refs(a)  OBVIOUS
    <2>4. {} \subseteq {x \in Rows(disk) : x.id = row.id}  OBVIOUS
    <2> QED  BY <1>1, <2>1, <2>2, <2>3, <2>4, OneRow
  <1> QED  BY <1>4 DEF new

\* The plan of each mutator.
LEMMA CallUnmixed ==
    ASSUME TypeOK, ParseInv, NEW p \in Procs, Call(p)
    PROVE  StagedUnmixed(tx'[p], disk)
  <1>0. disk \in Files /\ UniqueIds(disk) /\ p \in DOMAIN tx  BY DEF TypeOK, ParseInv
  <1> DEFINE u == tx'[p]
  <1>1. ASSUME NEW id \in Ids, NEW kind \in DraftKinds[p], NEW mark \in Marks,
               NEW alias \in Ids \cup Aliases \cup {NoAlias},
               NEW fields \in SecretShapes(kind), NEW secrets \in [fields -> Values],
               add(p, id, kind, alias, mark, secrets)
        PROVE  StagedUnmixed(u, disk)
    <2> DEFINE row == [id |-> id, kind |-> kind, alias |-> alias, mark |-> mark,
                       refs |-> minted(id, DOMAIN secrets)]
    <2>1. kind \in Kinds /\ fields \subseteq Fields
      BY KindAssumption DEF SecretShapes, Kinds, Fields, SshFields
    <2>2. /\ row \in Entries /\ row.id = id /\ row.alias = alias
          /\ foreign_refs(row) = {}
      BY <2>1, RefTypes DEF minted, Entries, foreign_refs, keyring_ref, ref_owner
    <2>3. /\ u.new = Append(disk, row) /\ u.at = "secrets"
          /\ find_index(disk, id) = {} /\ handle_is_free(disk, id, id)
          /\ alias # NoAlias => handle_is_free(disk, alias, id)
      BY <1>0, <1>1 DEF add, Begin, Idle
    <2> HIDE DEF row
    <2> QED  BY <1>0, <2>2, <2>3, AddedRow DEF StagedUnmixed
  <1>2. ASSUME NEW i \in DOMAIN disk, NEW ssh \in SshEdits, NEW mark \in Marks,
               NEW alias \in Ids \cup Aliases \cup {NoAlias},
               NEW edit \in KindEdits(disk[i].kind), update(p, i, edit, ssh, alias, mark)
        PROVE  StagedUnmixed(u, disk)
    <2> DEFINE entry == disk[i]
               refused == ssh_refused(entry, ssh)
               kind_writes == IF edit \in Values THEN kind_ref(entry) ELSE {}
               kind_refs == IF edit = "keep" THEN slot(entry, "kind") ELSE kind_writes
               refs == kind_refs \cup ssh_refs(entry, ssh)
               row == [entry EXCEPT !.refs = refs, !.alias = alias, !.mark = mark]
               fresh == minted(entry.id, Fields)
    <2>1. entry \in Entries /\ entry.id \in Ids /\ entry.refs \subseteq Refs
      BY <1>0, FileDomain DEF Entries
    <2>2. kind_refs \subseteq entry.refs \cup fresh
      BY <2>1 DEF kind_ref, slot, minted, Fields
    <2>3. ssh_refs(entry, ssh) \subseteq entry.refs \cup fresh
      BY <2>1 DEF ssh_refs, slot, minted, Fields, SshFields
    <2>4. fresh \subseteq Refs /\ \A r \in fresh : ref_owner(r) = entry.id
      BY <2>1, RefTypes DEF minted, keyring_ref, ref_owner
    <2>5. refs \subseteq entry.refs \cup fresh  BY <2>2, <2>3
    <2>6. /\ row \in Entries /\ row.id = entry.id /\ row.alias = alias /\ row.refs = refs
      BY <2>1, <2>4, <2>5 DEF Entries
    <2>7. foreign_refs(row) \subseteq foreign_refs(entry)
      BY <2>4, <2>5, <2>6 DEF foreign_refs
    <2>8. /\ u.new = [disk EXCEPT ![i] = row] /\ u.at = "secrets"
          /\ alias # NoAlias => handle_is_free(disk, alias, entry.id)
      BY <1>0, <1>2 DEF update, Begin, Idle
    <2> HIDE DEF row
    <2> QED  BY <1>0, <2>6, <2>7, <2>8, RewrittenRow DEF StagedUnmixed
  <1>3. ASSUME NEW i \in DOMAIN disk, delete(p, i)
        PROVE  StagedUnmixed(u, disk)
    <2>1. u.new = RemoveAt(disk, i) /\ u.at = "secrets"
      BY <1>0, <1>3 DEF delete, Begin, Idle
    <2> QED  BY <1>0, <2>1, RemoveRow, FewerRows DEF StagedUnmixed
  <1>4. ASSUME NEW i \in DOMAIN disk, NEW index \in 0 .. Len(disk), move_to(p, i, index)
        PROVE  StagedUnmixed(u, disk)
    <2>1. u.new = moved(disk, i, index) /\ u.at = "secrets"
      BY <1>0, <1>4 DEF move_to, Begin, Idle
    <2>2. index \in 0 .. Len(disk) - 1  BY <1>0, <1>4, FileDomain DEF move_to
    <2> QED  BY <1>0, <2>1, <2>2, MoveRow, FewerRows DEF StagedUnmixed
  <1>5. ASSUME NEW i \in DOMAIN disk, NEW mark \in Marks, set_mark(p, i, mark)
        PROVE  StagedUnmixed(u, disk)
    <2> DEFINE row == [disk[i] EXCEPT !.mark = mark]
    <2>1. u.new = [disk EXCEPT ![i] = row] /\ u.at = "secrets"
      BY <1>0, <1>5 DEF set_mark, Begin, Idle
    <2>2. disk[i] \in Entries  BY <1>0, FileDomain
    <2>3. /\ row \in Entries /\ row.id = disk[i].id /\ row.alias = disk[i].alias
          /\ row.refs = disk[i].refs
      BY <2>2 DEF Entries
    <2>4. foreign_refs(row) = foreign_refs(disk[i])  BY <2>3 DEF foreign_refs
    <2> HIDE DEF row
    <2> QED  BY <1>0, <2>1, <2>3, <2>4, RewrittenRow DEF StagedUnmixed
  <1>6. ASSUME NEW i \in DOMAIN disk, NEW new_id \in Ids, duplicate(p, i, new_id)
        PROVE  StagedUnmixed(u, disk)
    <2> DEFINE refs == {keyring_ref(new_id, ref_field(r)) : r \in disk[i].refs}
               row == [disk[i] EXCEPT !.id = new_id, !.alias = NoAlias, !.mark = NoMark,
                                      !.refs = refs]
    <2>1. disk[i] \in Entries  BY <1>0, FileDomain
    <2>2. refs \subseteq Refs  BY <2>1, RefTypes
    <2>3. \A r \in refs : ref_owner(r) = new_id  BY DEF keyring_ref, ref_owner
    <2>4. /\ row \in Entries /\ row.id = new_id /\ row.alias = NoAlias /\ row.refs = refs
      BY <2>1, <2>2, MarkAssumption DEF Entries
    <2>5. foreign_refs(row) = {}  BY <2>3, <2>4 DEF foreign_refs
    <2>6. /\ u.new = Append(disk, row) /\ u.at = "copy"
          /\ find_index(disk, new_id) = {} /\ handle_is_free(disk, new_id, new_id)
      BY <1>0, <1>6 DEF duplicate, Begin, Idle
    <2> HIDE DEF row
    <2> QED  BY <1>0, <2>4, <2>5, <2>6, AddedRow DEF StagedUnmixed
  <1>7. ASSUME NEW i \in DOMAIN disk, NEW key_ref \in Refs, NEW secret,
               repair_foreign_ref(p, i, key_ref, secret)
        PROVE  StagedUnmixed(u, disk)
    <2> DEFINE own_ref == keyring_ref(disk[i].id, ref_field(key_ref))
               refs == (disk[i].refs \ {key_ref}) \cup {own_ref}
               row == [disk[i] EXCEPT !.refs = refs]
    <2>1. u.new = [disk EXCEPT ![i] = row] /\ u.at = "secrets"
      BY <1>0, <1>7 DEF repair_foreign_ref, Begin, Idle
    <2>2. disk[i] \in Entries /\ disk[i].id \in Ids /\ disk[i].refs \subseteq Refs
      BY <1>0, FileDomain DEF Entries
    <2>3. own_ref \in Refs /\ ref_owner(own_ref) = disk[i].id
      BY <2>2, RefTypes DEF keyring_ref, ref_owner
    <2>4. refs \subseteq Refs  BY <2>2, <2>3
    <2>5. /\ row \in Entries /\ row.id = disk[i].id /\ row.alias = disk[i].alias
          /\ row.refs = refs
      BY <2>2, <2>4 DEF Entries
    <2>6. foreign_refs(row) \subseteq foreign_refs(disk[i])
      BY <2>3, <2>5 DEF foreign_refs
    <2> HIDE DEF row
    <2> QED  BY <1>0, <2>1, <2>5, <2>6, RewrittenRow DEF StagedUnmixed
  <1>8. ASSUME NEW bundle, NEW overwrite, import_bundle(p, bundle, overwrite)
        PROVE  StagedUnmixed(u, disk)
    <2>1. u.call = "import_bundle"  BY <1>0, <1>8 DEF import_bundle, Begin, Idle
    <2> QED  BY <2>1 DEF StagedUnmixed
  <1> QED
    BY <1>1, <1>2, <1>3, <1>4, <1>5, <1>6, <1>7, <1>8 DEF Call

\* No call but an import lets two connections answer to one name, or points a
\* connection at a slot minted for another, for every number of connections and
\* whatever the bundles hold and whichever calls fail: as long as one process
\* at a time changes the file.
THEOREM OnlyImportsMix ==
    ASSUME OneWriter
    PROVE  Spec => OnlyImportsMixConnections
  <1> DEFINE Unmixing == \/ /\ shared_names(disk') \subseteq shared_names(disk)
                            /\ foreign_slots(disk') \subseteq foreign_slots(disk)
                         \/ \E p \in Procs : tx[p].call = "import_bundle" /\ tx[p].at = "rename"
  <1>1. Init => MixInv
    BY DEF Init, MixInv, StagedUnmixed, staged, Idle
  <1>2. ASSUME TypeOK, MixInv, NEW p \in Procs, accept(p)
        PROVE  tx'[p].call = "import_bundle"
    <2>1. tx[p] \in Tx /\ tx[p].at = "import" /\ p \in DOMAIN tx  BY <1>2 DEF TypeOK, accept
    <2>2. tx'[p].call = tx[p].call  BY <1>2, <2>1, TxFields DEF accept, Step
    <2> QED  BY <1>2, <2>1, <2>2 DEF MixInv, StagedUnmixed
  <1>3. TypeOK /\ ParseInv /\ MixInv /\ [Next]_vars => MixInv'
    <2> SUFFICES ASSUME TypeOK, ParseInv, MixInv, [Next]_vars PROVE MixInv'  OBVIOUS
    <2>1. CASE UNCHANGED vars
      BY <2>1 DEF vars, MixInv
    <2>2. CASE Next
      <3>1. PICK p \in Procs : Call(p) \/ Proceed(p) \/ crash(p)  BY <2>2 DEF Next
      <3>2. CASE Call(p)
        <4>1. StagedUnmixed(tx'[p], disk)  BY <3>2, CallUnmixed
        <4>2. disk' = disk  BY <3>2, CallFrame DEF Begun
        <4> QED  BY <4>1, <4>2 DEF MixInv, OneWriter
      <3>3. CASE accept(p)
        <4>1. tx'[p].call = "import_bundle"  BY <1>2, <3>3
        <4> QED  BY <4>1 DEF MixInv, OneWriter, StagedUnmixed
      <3>4. CASE ~Call(p) /\ ~accept(p)
        <4>1. StagedUnmixed(tx'[p], disk')
          BY <3>1, <3>4, StagedKept DEF MixInv, StagedUnmixed, staged
        <4> QED  BY <4>1 DEF MixInv, OneWriter
      <3> QED  BY <3>2, <3>3, <3>4
    <2> QED  BY <2>1, <2>2
  <1>4. TypeOK /\ MixInv /\ [Next]_vars => [Unmixing]_vars
    <2> SUFFICES ASSUME TypeOK, MixInv, Next PROVE Unmixing  OBVIOUS
    <2>1. PICK p \in Procs : Call(p) \/ Proceed(p) \/ crash(p)  BY DEF Next
    <2>2. CASE disk' = disk  BY <2>2
    <2>3. CASE disk' # disk
      <3>1. tx[p].at = "rename" /\ disk' = tx[p].new
        BY <2>1, <2>3, StagedKept, CallFrame DEF Begun, accept
      <3> QED  BY <3>1 DEF MixInv, StagedUnmixed, Unmixed, staged
    <2> QED  BY <2>2, <2>3
  <1> QED  BY <1>1, <1>3, <1>4, AlwaysParses, TypeCorrect, PTL
            DEF Spec, OnlyImportsMixConnections
-------------------------------------------------------------------------------
(***************************************************************************)
(* What an import leaves alone, whatever its bundle holds.  The guard asks *)
(* who owns each slot an entry names, and the answer is right as long as   *)
(* no two connections share a slot, which the guard sees to in its turn.   *)
(***************************************************************************)
\* No two connections of the file share a slot.
Apart(file) ==
    \A x, y \in Rows(file) : x.refs \cap y.refs # {} => x.id = y.id

SlotsApart == Apart(disk)

\* The rows of a file an import has not accepted an entry for.
rest(t, file) == {x \in Rows(file) : x.id \notin t.ids}

\* Every slot of the file an import is building has the owner it is noted to
\* have, and no slot that the import writes, gives back or deletes is in a row
\* the import does not replace.
Spares(t, file) ==
    t.call = "import_bundle" =>
        /\ t.at # "copy"
        /\ t.at = "secrets" /\ t.cur # NoRef => t.cur \in pending(t)
        /\ t.at # "secrets" => t.cur = NoRef
        /\ \A x \in rest(t, file) :
               x.refs \cap (pending(t) \cup undoable(t) \cup t.purge) = {}
        /\ staged(t) => rest(t, t.new) = rest(t, file)
        /\ t.at = "import" => \A x \in Rows(t.new) : \A r \in x.refs : t.owner[r] = x.id

SpareInv == \A p \in Procs : Spares(tx[p], disk)

\* An import starts from who owns what in the file it read.
LEMMA ImportSpares ==
    ASSUME TypeOK, SlotsApart, NEW p \in Procs, NEW bundle, NEW overwrite,
           import_bundle(p, bundle, overwrite)
    PROVE  Spares(tx'[p], disk)
  <1> DEFINE u == tx'[p]
  <1>1. /\ u.at = "import" /\ u.cur = NoRef /\ u.ids = {} /\ u.new = disk
        /\ u.owner = ref_owners(disk) /\ u.undo = NoUndo /\ u.writes = NoWrites
        /\ u.purge = {}
    BY DEF TypeOK, import_bundle, Begin, Idle
  <1> HIDE DEF u
  <1>2. pending(u) = {} /\ undoable(u) = {}
    BY <1>1 DEF pending, undoable, NoUndo, NoWrites
  <1>3. ASSUME NEW x \in Rows(disk), NEW r \in x.refs PROVE ref_owners(disk)[r] = x.id
    <2>1. disk \in Files /\ r \in FileRefs(disk)  BY <1>3, RowRefs DEF TypeOK
    <2>2. PICK i \in DOMAIN disk : r \in disk[i].refs /\ ref_owners(disk)[r] = disk[i].id
      BY <2>1, OwnersType
    <2>3. disk[i] \in Rows(disk)  BY DEF Rows
    <2> QED  BY <1>3, <2>2, <2>3 DEF SlotsApart, Apart
  <1> QED  BY <1>1, <1>2, <1>3 DEF Spares, u

\* An entry that is accepted names no slot of a row it does not replace.
LEMMA AcceptSpares ==
    ASSUME TypeOK, ParseInv, SpareInv, NEW p \in Procs, accept(p)
    PROVE  Spares(tx'[p], disk) /\ (tx[p].call = "import_bundle" => Apart(tx'[p].new))
  <1> DEFINE t == tx[p]
             entry == Head(t.incoming)
             rows == find_index(t.new, entry.id)
             owner == [r \in Refs |-> IF r \in entry.refs THEN entry.id ELSE t.owner[r]]
             writes == [r \in Refs |-> IF r \in entry.refs /\ t.given[r] # NoSecret
                                       THEN t.given[r] ELSE t.writes[r]]
             new == IF rows = {} THEN Append(t.new, entry)
                    ELSE [j \in DOMAIN t.new |-> IF j \in rows THEN entry ELSE t.new[j]]
             drop == t.purge \cup ((UNION {t.new[j].refs : j \in rows}) \ entry.refs)
             u == [t EXCEPT !.incoming = Tail(t.incoming), !.ids = t.ids \cup {entry.id},
                            !.owner = owner, !.writes = writes, !.new = new, !.purge = drop]
  <1>1. /\ t \in Tx /\ t.at = "import" /\ entry.id \notin t.ids /\ ~collides(t, entry)
        /\ t.incoming \in Files /\ t.incoming # <<>> /\ t.new \in Files /\ UniqueIds(t.new)
        /\ Spares(t, disk) /\ p \in DOMAIN tx
    BY DEF TypeOK, ParseInv, StagedParses, SpareInv, staged, accept, passed_over, Tx
  <1>2. tx' = [tx EXCEPT ![p] = u]  BY DEF accept, Step
  <1>3. entry \in Entries  BY <1>1, TailRows
  <1>4. Rows(new) = {entry} \cup {x \in Rows(t.new) : x.id # entry.id}
    <2>1. new = joined(t.new, entry)  BY DEF joined
    <2>2. t.new \in Files /\ UniqueIds(t.new)  BY <1>1
    <2> HIDE DEF t, entry, new
    <2> QED  BY <1>3, <2>1, <2>2, JoinedRows
  <1>5. \A r \in Refs : writes[r] # NoSecret => r \in entry.refs \/ t.writes[r] # NoSecret
    OBVIOUS
  <1>6. \A r \in drop : r \in t.purge \/ \E x \in Rows(t.new) : x.id = entry.id /\ r \in x.refs
    BY DEF find_index, Rows
  <1>7. /\ \A r \in Refs : owner[r] = IF r \in entry.refs THEN entry.id ELSE t.owner[r]
        /\ \A x \in Rows(t.new) : x.refs \subseteq Refs
        /\ entry.refs \subseteq Refs /\ \A x \in Rows(t.new) : x.id \in Ids
    BY <1>1, <1>3, FileDomain DEF Rows, Entries
  <1>8. \A r \in entry.refs : t.owner[r] \in {NoId, entry.id}  BY <1>1 DEF collides
  <1> HIDE DEF t, entry, rows, owner, writes, new, drop
  <1>9. /\ u.at = "import" /\ u.call = t.call /\ u.ids = t.ids \cup {entry.id} /\ u.new = new
        /\ u.owner = owner /\ u.writes = writes /\ u.cur = t.cur /\ u.undo = t.undo
        /\ u.purge = drop
    BY <1>1, TxFields
  <1>10. tx'[p] = u  BY <1>1, <1>2
  <1> HIDE DEF u
  <1>11. pending(u) \subseteq pending(t) \cup entry.refs /\ undoable(u) = undoable(t)
    BY <1>5, <1>9 DEF pending, undoable
  <1>12. ASSUME t.call = "import_bundle"
         PROVE  Spares(u, disk) /\ Apart(new)
    <2>1. \A x \in Rows(t.new) : \A r \in x.refs : t.owner[r] = x.id
      BY <1>1, <1>12 DEF Spares
    <2>2. ASSUME NEW x \in Rows(t.new), x.id # entry.id
          PROVE  x.refs \cap entry.refs = {}
      BY <1>7, <1>8, <2>1, <2>2, RefAssumption
    <2>3. \A x \in Rows(new) : \A r \in x.refs : owner[r] = x.id
      BY <1>4, <1>7, <2>1, <2>2
    <2>4. Apart(new)  BY <2>3 DEF Apart
    <2>5. /\ rest(t, t.new) = rest(t, disk) /\ t.cur = NoRef
          /\ \A x \in rest(t, disk) :
                 x.refs \cap (pending(t) \cup undoable(t) \cup t.purge) = {}
      BY <1>1, <1>12 DEF Spares, staged
    <2>6. rest(u, new) = rest(u, disk)
      BY <1>4, <1>9, <2>5 DEF rest
    <2>7. ASSUME NEW x \in rest(u, disk)
          PROVE  x.refs \cap (pending(u) \cup undoable(u) \cup u.purge) = {}
      <3>1. x \in rest(t, disk) /\ x \in Rows(t.new) /\ x.id # entry.id
        BY <1>9, <2>5 DEF rest
      <3>2. x.refs \cap drop = {}
        BY <1>6, <2>1, <2>5, <3>1
      <3> QED  BY <1>9, <1>11, <2>2, <2>5, <3>1, <3>2
    <2> QED  BY <1>9, <2>3, <2>4, <2>5, <2>6, <2>7 DEF Spares
  <1> QED  BY <1>9, <1>10, <1>12 DEF Spares, t
\* A step that touches no more slots than the call meant to, and changes its
\* file and its ids not at all.
LEMMA SparesFrame ==
    ASSUME NEW t, NEW u, NEW file, Spares(t, file), u.call = t.call, u.ids = t.ids,
           pending(u) \cup undoable(u) \cup u.purge
               \subseteq pending(t) \cup undoable(t) \cup t.purge,
           staged(u) => staged(t) /\ u.new = t.new,
           u.at = "copy" => t.at = "copy",
           u.at = "import" => t.at = "import" /\ u.owner = t.owner,
           u.cur # NoRef => u.at = "secrets" /\ u.cur \in pending(u)
    PROVE  Spares(u, file)
  <1>1. rest(u, file) = rest(t, file) /\ rest(u, t.new) = rest(t, t.new)  BY DEF rest
  <1>2. u.at = "import" => staged(u)  BY DEF staged
  <1> QED  BY <1>1, <1>2 DEF Spares

\* Every other step of an import.
LEMMA StepSpares ==
    ASSUME TypeOK, SpareInv, NEW p \in Procs, Proceed(p), ~accept(p)
    PROVE  Spares(tx'[p], disk')
  <1> DEFINE t == tx[p]
             u == tx'[p]
  <1>0. /\ p \in DOMAIN tx /\ t \in Tx /\ Spares(t, disk) /\ Idle.call = "none"
        /\ Spares(t, disk) /\ t.call = "import_bundle" =>
              /\ t.at # "copy"
              /\ t.at = "secrets" /\ t.cur # NoRef => t.cur \in pending(t)
              /\ t.at # "secrets" => t.cur = NoRef
    BY DEF TypeOK, SpareInv, Spares, Idle
  <1> SUFFICES ASSUME u.call = "import_bundle" PROVE Spares(u, disk')  BY DEF Spares
  <1>1. CASE pass_over(p)
    <2>1. /\ t.at = "import" /\ tx' = [tx EXCEPT ![p] = [t EXCEPT !.incoming = Tail(t.incoming)]]
          /\ disk' = disk
      BY <1>1 DEF pass_over, Step
    <2>2. /\ u.at = t.at /\ u.call = t.call /\ u.ids = t.ids /\ u.new = t.new
          /\ u.owner = t.owner /\ u.cur = t.cur
          /\ u.writes = t.writes /\ u.undo = t.undo /\ u.purge = t.purge
      BY <1>0, <2>1, TxFields
    <2>3. pending(u) = pending(t) /\ undoable(u) = undoable(t)
      BY <2>2 DEF pending, undoable
    <2> QED  BY <1>0, <2>1, <2>2, <2>3, SparesFrame DEF staged
  <1>2. CASE accepted_all(p)
    <2>1. /\ t.at = "import" /\ disk' = disk
          /\ \/ tx' = [tx EXCEPT ![p] = Idle]
             \/ tx' = [tx EXCEPT ![p] = [t EXCEPT !.at = "secrets", !.given = NoWrites,
                                        !.owner = NoOwners, !.overwrite = FALSE]]
      BY <1>2 DEF accepted_all, Step
    <2>2. /\ u.at = "secrets" /\ u.call = t.call /\ u.ids = t.ids /\ u.new = t.new
          /\ u.cur = t.cur /\ u.writes = t.writes /\ u.undo = t.undo /\ u.purge = t.purge
      <3>1. ASSUME tx' = [tx EXCEPT ![p] = Idle]  PROVE FALSE
        <4>1. u = Idle  BY <1>0, <3>1
        <4> QED  BY <1>0, <4>1
      <3> QED  BY <1>0, <2>1, <3>1, TxFields
    <2>3. pending(u) = pending(t) /\ undoable(u) = undoable(t)
      BY <2>2 DEF pending, undoable
    <2> QED  BY <1>0, <2>1, <2>2, <2>3, SparesFrame DEF staged
  <1>3. CASE copy_secrets(p)
    <2>1. t.at = "copy" /\ \/ tx' = [tx EXCEPT ![p] = Idle]
                           \/ \E w : tx' = [tx EXCEPT ![p] = [t EXCEPT !.at = "secrets",
                                               !.copies = NoCopies, !.writes = w]]
      BY <1>3 DEF copy_secrets, Step
    <2>2. u.call \in {"none", t.call}  BY <1>0, <2>1, TxFields
    <2> QED  BY <1>0, <2>1, <2>2
  <1>4. CASE look(p)
    <2>1. PICK r \in pending(t) :
                   \/ tx' = [tx EXCEPT ![p] = [t EXCEPT !.cur = r, !.seen = keyring[r]]]
                   \/ tx' = [tx EXCEPT ![p] = [t EXCEPT !.cur = r, !.seen = NoSecret]]
                   \/ tx' = [tx EXCEPT ![p] = [t EXCEPT !.at = "undo", !.writes = NoWrites]]
                   \/ tx' = [tx EXCEPT ![p] = [t EXCEPT !.cur = r]]
      BY <1>4 DEF look, Step
    <2>2. t.at = "secrets" /\ disk' = disk /\ t.cur = NoRef  BY <1>4 DEF look
    <2>3. /\ u.call = t.call /\ u.ids = t.ids /\ u.new = t.new
          /\ u.undo = t.undo /\ u.purge = t.purge
          /\ \/ u.at = "secrets" /\ u.writes = t.writes /\ u.cur = r
             \/ u.at = "undo" /\ u.writes = NoWrites /\ u.cur = NoRef
      <3>1. CASE tx' = [tx EXCEPT ![p] = [t EXCEPT !.at = "undo", !.writes = NoWrites]]
        BY <1>0, <2>2, <3>1, TxFields
      <3>2. CASE tx' = [tx EXCEPT ![p] = [t EXCEPT !.cur = r]]
        BY <1>0, <2>2, <3>2, TxFields
      <3>3. CASE \/ tx' = [tx EXCEPT ![p] = [t EXCEPT !.cur = r, !.seen = keyring[r]]]
                 \/ tx' = [tx EXCEPT ![p] = [t EXCEPT !.cur = r, !.seen = NoSecret]]
        BY <1>0, <2>2, <3>3, TxFields
      <3> QED  BY <2>1, <3>1, <3>2, <3>3
    <2>4. /\ pending(u) \subseteq pending(t) /\ undoable(u) = undoable(t)
          /\ u.at = "secrets" => pending(u) = pending(t)
      BY <2>3 DEF pending, undoable, NoWrites
    <2> QED  BY <1>0, <2>2, <2>3, <2>4, SparesFrame DEF staged
  <1>5. CASE put(p)
    <2>1. /\ t.at = "secrets" /\ disk' = disk /\ t.cur # NoRef
          /\ tx' = [tx EXCEPT ![p] = [t EXCEPT !.cur = NoRef, !.seen = NoSecret,
                                     !.undo[t.cur] = t.seen, !.found[t.cur] = keyring[t.cur],
                                     !.writes[t.cur] = NoSecret]]
      BY <1>5 DEF put, Step
    <2>2. /\ u.at = "secrets" /\ u.call = t.call /\ u.ids = t.ids /\ u.new = t.new
          /\ u.cur = NoRef /\ u.purge = t.purge
          /\ u.undo = [t.undo EXCEPT ![t.cur] = t.seen]
          /\ u.writes = [t.writes EXCEPT ![t.cur] = NoSecret]
      BY <1>0, <2>1, TxFields
    <2>3. t.cur \in pending(t)  BY <1>0, <2>1, <2>2
    <2>4. DOMAIN t.undo = Refs /\ DOMAIN t.writes = Refs  BY <1>0 DEF Tx
    <2>5. pending(u) \subseteq pending(t) /\ undoable(u) \subseteq undoable(t) \cup {t.cur}
      BY <2>2, <2>4 DEF pending, undoable
    <2>6. pending(u) \cup undoable(u) \cup u.purge
              \subseteq pending(t) \cup undoable(t) \cup t.purge
      BY <2>2, <2>3, <2>5
    <2>7. u.at = "secrets" /\ u.cur = NoRef /\ staged(t)  BY <2>1, <2>2 DEF staged
    <2>8. Spares(u, disk)  BY <1>0, <2>2, <2>6, <2>7, SparesFrame
    <2> QED  BY <2>1, <2>8
  <1>6. CASE put_fails(p)
    <2>1. disk' = disk /\ tx' = [tx EXCEPT ![p] =
              [t EXCEPT !.at = "undo", !.cur = NoRef, !.seen = NoSecret, !.writes = NoWrites]]
      BY <1>6 DEF put_fails, Step
    <2>2. /\ u.at = "undo" /\ u.call = t.call /\ u.ids = t.ids /\ u.cur = NoRef
          /\ u.writes = NoWrites /\ u.undo = t.undo /\ u.purge = t.purge
      BY <1>0, <2>1, TxFields
    <2>3. pending(u) = {} /\ undoable(u) = undoable(t)
      BY <2>2 DEF pending, undoable, NoWrites
    <2> QED  BY <1>0, <2>1, <2>2, <2>3, SparesFrame DEF staged
  <1>7. CASE refuse(p) \/ save_tmp(p) \/ save_tmp_fails(p) \/ rename_fails(p)
    <2>1. PICK at \in {"undo", "rename"} : tx' = [tx EXCEPT ![p] = [t EXCEPT !.at = at]]
      BY <1>7 DEF refuse, save_tmp, save_tmp_fails, rename_fails, Step
    <2>2. disk' = disk /\ t.at \in {"secrets", "rename"}
          /\ (t.at = "secrets" => t.cur = NoRef)
      BY <1>7 DEF refuse, save_tmp, save_tmp_fails, rename_fails, written
    <2>3. /\ u.at = at /\ u.call = t.call /\ u.ids = t.ids /\ u.new = t.new
          /\ u.cur = t.cur /\ u.writes = t.writes /\ u.undo = t.undo /\ u.purge = t.purge
      BY <1>0, <2>1, TxFields
    <2>4. pending(u) = pending(t) /\ undoable(u) = undoable(t)
      BY <2>3 DEF pending, undoable
    <2> QED  BY <1>0, <2>2, <2>3, <2>4, SparesFrame DEF staged
  <1>8. CASE rename(p)
    <2>1. t.at = "rename" /\ disk' = t.new /\ tx' = [tx EXCEPT ![p] =
              [t EXCEPT !.at = "purge", !.new = <<>>, !.undo = NoUndo, !.found = NoUndo]]
      BY <1>8 DEF rename, Step
    <2>2. /\ u.at = "purge" /\ u.call = t.call /\ u.ids = t.ids /\ u.cur = t.cur
          /\ u.writes = t.writes /\ u.undo = NoUndo /\ u.purge = t.purge
      BY <1>0, <2>1, TxFields
    <2>3. pending(u) = pending(t) /\ undoable(u) = {}
      BY <2>2 DEF pending, undoable, NoUndo
    <2>4. Spares(u, disk)
      BY <1>0, <2>1, <2>2, <2>3, SparesFrame DEF staged
    <2>5. rest(u, disk') = rest(t, t.new) /\ rest(t, t.new) = rest(t, disk)
      BY <1>0, <2>1, <2>2 DEF rest, Spares, staged
    <2>6. rest(u, disk') = rest(u, disk)  BY <2>2, <2>5 DEF rest
    <2> QED  BY <2>2, <2>4, <2>6 DEF Spares, staged
  <1>9. CASE purge(p)
    <2>1. PICK r : disk' = disk /\ t.at = "purge"
                   /\ tx' = [tx EXCEPT ![p] = [t EXCEPT !.purge = t.purge \ {r}]]
      BY <1>9 DEF purge, Step
    <2>2. /\ u.at = "purge" /\ u.call = t.call /\ u.ids = t.ids /\ u.cur = t.cur
          /\ u.writes = t.writes /\ u.undo = t.undo /\ u.purge \subseteq t.purge
      BY <1>0, <2>1, TxFields
    <2>3. pending(u) = pending(t) /\ undoable(u) = undoable(t)
      BY <2>2 DEF pending, undoable
    <2> QED  BY <1>0, <2>1, <2>2, <2>3, SparesFrame DEF staged
  <1>10. CASE undo(p)
    <2>1. PICK r : disk' = disk /\ t.at = "undo"
                   /\ tx' = [tx EXCEPT ![p] = [t EXCEPT !.undo[r] = Untouched]]
      BY <1>10 DEF undo, Step
    <2>2. /\ u.at = "undo" /\ u.call = t.call /\ u.ids = t.ids /\ u.cur = t.cur
          /\ u.writes = t.writes /\ u.purge = t.purge
          /\ u.undo = [t.undo EXCEPT ![r] = Untouched]
      BY <1>0, <2>1, TxFields
    <2>3. pending(u) = pending(t)  BY <2>2 DEF pending
    <2>4. undoable(u) \subseteq undoable(t)  BY <1>0, <2>2 DEF undoable, Tx
    <2> QED  BY <1>0, <2>1, <2>2, <2>3, <2>4, SparesFrame DEF staged
  <1>11. CASE return_ok(p) \/ return_err(p)
    BY <1>0, <1>11 DEF return_ok, return_err
  <1> QED
    BY <1>1, <1>2, <1>3, <1>4, <1>5, <1>6, <1>7, <1>8, <1>9, <1>10, <1>11 DEF Proceed

\* The slot a step of an import may change in the keychain.
LEMMA ImportReach ==
    ASSUME TypeOK, NEW p \in Procs, Spares(tx[p], disk), tx[p].call = "import_bundle",
           Proceed(p) \/ crash(p), NEW x \in rest(tx[p], disk), NEW r \in x.refs
    PROVE  keyring'[r] = keyring[r]
  <1> DEFINE t == tx[p]
  <1>1. /\ t \in Tx /\ r \notin pending(t) \cup undoable(t) \cup t.purge
        /\ r \in Refs /\ DOMAIN keyring = Refs
    <2>1. x \in Rows(disk) /\ disk \in Files  BY DEF rest, TypeOK
    <2>2. r \in Refs  BY <2>1, FileDomain DEF Rows, Entries
    <2> QED  BY <2>2 DEF TypeOK, Spares
  <1>2. CASE put(p)
    <2>1. /\ keyring' = [keyring EXCEPT ![t.cur] = t.writes[t.cur]]
          /\ t.cur \in pending(t)
      BY <1>2 DEF put, Spares
    <2> QED  BY <1>1, <2>1
  <1>3. CASE purge(p)
    <2>1. \/ UNCHANGED keyring
          \/ \E c \in t.purge : keyring' = [keyring EXCEPT ![c] = NoSecret]
      BY <1>3 DEF purge
    <2> QED  BY <1>1, <2>1
  <1>4. CASE undo(p)
    <2>1. \/ UNCHANGED keyring
          \/ \E c \in undoable(t) : keyring' = [keyring EXCEPT ![c] = t.undo[c]]
      BY <1>4 DEF undo
    <2> QED  BY <1>1, <2>1
  <1>5. CASE UNCHANGED keyring  BY <1>5
  <1>6. CASE \/ pass_over(p) \/ accept(p) \/ accepted_all(p) \/ copy_secrets(p)
             \/ look(p) \/ put_fails(p) \/ refuse(p)
    BY <1>5, <1>6 DEF pass_over, accept, accepted_all, copy_secrets, look, put_fails, refuse
  <1>7. CASE \/ save_tmp(p) \/ save_tmp_fails(p) \/ rename(p) \/ rename_fails(p)
             \/ return_ok(p) \/ return_err(p) \/ crash(p)
    BY <1>5, <1>7 DEF save_tmp, save_tmp_fails, rename, rename_fails, return_ok, return_err, crash
  <1> QED  BY <1>2, <1>3, <1>4, <1>6, <1>7 DEF Proceed

\* The call a mutator begins is its own.
LEMMA CallName ==
    ASSUME TypeOK, NEW p \in Procs, Call(p)
    PROVE  /\ tx'[p].at = "import" => tx'[p].call = "import_bundle"
           /\ \/ tx'[p].call # "import_bundle"
              \/ \E bundle \in Bundles, overwrite \in BOOLEAN : import_bundle(p, bundle, overwrite)
  <1>0. p \in DOMAIN tx /\ DOMAIN Idle # {}  BY DEF TypeOK, Idle
  <1> DEFINE Named(call) == /\ tx'[p].call = call
                            /\ tx'[p].at = "import" => call = "import_bundle"
  <1>1. ASSUME NEW id, NEW kind, NEW mark, NEW alias, NEW secrets,
               add(p, id, kind, alias, mark, secrets)
        PROVE  Named("add")
    BY <1>0, <1>1 DEF add, Begin, Idle
  <1>2. ASSUME NEW i, NEW ssh, NEW mark, NEW alias, NEW edit,
               update(p, i, edit, ssh, alias, mark)
        PROVE  Named("update")
    BY <1>0, <1>2 DEF update, Begin, Idle
  <1>3. ASSUME NEW i, delete(p, i)
        PROVE  Named("delete")
    BY <1>0, <1>3 DEF delete, Begin, Idle
  <1>4. ASSUME NEW i, NEW index, move_to(p, i, index)
        PROVE  Named("move_to")
    BY <1>0, <1>4 DEF move_to, Begin, Idle
  <1>5. ASSUME NEW i, NEW mark, set_mark(p, i, mark)
        PROVE  Named("set_mark")
    BY <1>0, <1>5 DEF set_mark, Begin, Idle
  <1>6. ASSUME NEW i, NEW new_id, duplicate(p, i, new_id)
        PROVE  Named("duplicate")
    BY <1>0, <1>6 DEF duplicate, Begin, Idle
  <1>7. ASSUME NEW i, NEW key_ref, NEW secret, repair_foreign_ref(p, i, key_ref, secret)
        PROVE  Named("repair_foreign_ref")
    BY <1>0, <1>7 DEF repair_foreign_ref, Begin, Idle
  <1>8. ASSUME NEW bundle \in Bundles, NEW overwrite \in BOOLEAN,
               import_bundle(p, bundle, overwrite)
        PROVE  Named("import_bundle")
    BY <1>0, <1>8 DEF import_bundle, Begin, Idle
  <1> QED
    BY <1>1, <1>2, <1>3, <1>4, <1>5, <1>6, <1>7, <1>8 DEF Call

\* With one writer, every step keeps the invariant.
LEMMA SpareStep ==
    ASSUME OneWriter
    PROVE  TypeOK /\ ParseInv /\ SlotsApart /\ SpareInv /\ [Next]_vars => SpareInv'
  <1> SUFFICES ASSUME TypeOK, ParseInv, SlotsApart, SpareInv, [Next]_vars PROVE SpareInv'
    OBVIOUS
  <1>1. CASE UNCHANGED vars
    BY <1>1 DEF vars, SpareInv
  <1>2. CASE Next
    <2>1. PICK p \in Procs : Call(p) \/ Proceed(p) \/ crash(p)  BY <1>2 DEF Next
    <2>2. CASE Call(p)
      <3>1. disk' = disk  BY <2>2, CallFrame DEF Begun
      <3>2. CASE tx'[p].call # "import_bundle"  BY <3>2 DEF SpareInv, Spares, OneWriter
      <3>3. CASE \E bundle, overwrite : import_bundle(p, bundle, overwrite)
        <4>1. Spares(tx'[p], disk)  BY <3>3, ImportSpares
        <4> QED  BY <3>1, <4>1 DEF SpareInv, OneWriter
      <3> QED  BY <2>2, <3>2, <3>3, CallName
    <2>3. CASE accept(p)
      <3>1. disk' = disk /\ Spares(tx'[p], disk)  BY <2>3, AcceptSpares DEF accept
      <3> QED  BY <3>1 DEF SpareInv, OneWriter
    <2>4. CASE Proceed(p) /\ ~accept(p)
      <3>1. Spares(tx'[p], disk')  BY <2>4, StepSpares
      <3> QED  BY <3>1 DEF SpareInv, OneWriter
    <2>5. CASE crash(p)
      <3>1. tx'[p].call = "none"  BY <2>5 DEF crash, Idle, TypeOK
      <3> QED  BY <3>1 DEF SpareInv, Spares, OneWriter
    <2> QED  BY <2>1, <2>2, <2>3, <2>4, <2>5
  <1> QED  BY <1>1, <1>2

\* Whatever bundles are imported, and whatever fails: in every history in which
\* no two connections ever share a slot, an import touches no secret of a
\* connection that it does not replace.
THEOREM ImportsSpareOthers ==
    ASSUME OneWriter
    PROVE  Spec /\ []SlotsApart => ImportSparesOthers
  <1> DEFINE Spared ==
          \A p \in Procs : tx[p].call = "import_bundle" /\ tx'[p] # tx[p] =>
              \A i \in DOMAIN disk : disk[i].id \notin tx[p].ids =>
                  \A r \in disk[i].refs : keyring'[r] = keyring[r]
  <1>1. Init => SpareInv
    BY DEF Init, SpareInv, Spares, Idle
  <1>2. TypeOK /\ SpareInv /\ [Next]_vars => [Spared]_vars
    <2> SUFFICES ASSUME TypeOK, SpareInv, Next, NEW p \in Procs,
                        tx[p].call = "import_bundle",
                        NEW i \in DOMAIN disk, disk[i].id \notin tx[p].ids,
                        NEW r \in disk[i].refs
                 PROVE  keyring'[r] = keyring[r]
      OBVIOUS
    <2>1. PICK q \in Procs : Call(q) \/ Proceed(q) \/ crash(q)  BY DEF Next
    <2>2. CASE Call(q)  BY <2>2, CallFrame DEF Begun
    <2>3. CASE Proceed(q) \/ crash(q)
      <3>1. q = p /\ Spares(tx[p], disk)  BY DEF OneWriter, SpareInv
      <3>2. disk[i] \in rest(tx[p], disk)  BY DEF rest, Rows
      <3> QED  BY <2>3, <3>1, <3>2, ImportReach
    <2> QED  BY <2>1, <2>2, <2>3
  <1> QED
    BY <1>1, <1>2, SpareStep, AlwaysParses, TypeCorrect, PTL DEF Spec, ImportSparesOthers

\* The calls that mint no slot.
MintsNothing == {"import_bundle", "delete", "move_to", "set_mark"}

Imported(t) == /\ t.at = "import" => t.call = "import_bundle"
               /\ staged(t) => Apart(t.new)

ImportedInv == SlotsApart /\ \A p \in Procs : Imported(tx[p])

\* The plan of a call that mints no slot lets no two rows share one.
LEMMA PlanApart ==
    ASSUME TypeOK, ParseInv, SlotsApart, NEW p \in Procs, Calls[p] \subseteq MintsNothing,
           Call(p)
    PROVE  Imported(tx'[p])
  <1>0. disk \in Files /\ UniqueIds(disk) /\ p \in DOMAIN tx  BY DEF TypeOK, ParseInv
  <1>1. tx'[p].at = "import" => tx'[p].call = "import_bundle"  BY CallName
  <1>2. CASE \E i \in DOMAIN disk : delete(p, i)
    <2>1. PICK i \in DOMAIN disk : tx'[p].new = RemoveAt(disk, i)
      BY <1>0, <1>2 DEF delete, Begin, Idle
    <2>2. Rows(tx'[p].new) \subseteq Rows(disk)  BY <1>0, <2>1, RemoveRow
    <2> QED  BY <1>1, <2>2 DEF Imported, SlotsApart, Apart
  <1>3. CASE \E i \in DOMAIN disk, index \in 0 .. Len(disk) : move_to(p, i, index)
    <2>1. PICK i \in DOMAIN disk, index \in 0 .. Len(disk) : move_to(p, i, index)  BY <1>3
    <2>2. tx'[p].new = moved(disk, i, index)  BY <1>0, <2>1 DEF move_to, Begin, Idle
    <2>3. index \in 0 .. Len(disk) - 1  BY <1>0, <2>1, FileDomain DEF move_to
    <2>4. Rows(tx'[p].new) = Rows(disk)  BY <1>0, <2>2, <2>3, MoveRow
    <2> QED  BY <1>1, <2>4 DEF Imported, SlotsApart, Apart
  <1>4. CASE \E i \in DOMAIN disk, mark \in Marks : set_mark(p, i, mark)
    <2>1. PICK i \in DOMAIN disk, mark \in Marks : set_mark(p, i, mark)  BY <1>4
    <2> DEFINE row == [disk[i] EXCEPT !.mark = mark]
    <2>2. tx'[p].new = [disk EXCEPT ![i] = row]
      BY <1>0, <2>1 DEF set_mark, Begin, Idle
    <2>3. disk[i] \in Entries /\ disk[i] \in Rows(disk)  BY <1>0, FileDomain DEF Rows
    <2>4. row \in Entries /\ row.id = disk[i].id /\ row.refs = disk[i].refs
      BY <2>3 DEF Entries
    <2> HIDE DEF row
    <2>5. Rows(tx'[p].new) = {row} \cup {x \in Rows(disk) : x.id # row.id}
      BY <1>0, <2>2, <2>4, EditRow
    <2>6. Apart(tx'[p].new)
      BY <2>3, <2>4, <2>5 DEF SlotsApart, Apart
    <2> QED  BY <1>1, <2>6 DEF Imported
  <1>5. CASE \E bundle, overwrite : import_bundle(p, bundle, overwrite)
    <2>1. tx'[p].new = disk
      <3>1. PICK bundle, overwrite : import_bundle(p, bundle, overwrite)  BY <1>5
      <3> QED  BY <1>0, <3>1 DEF import_bundle, Begin, Idle
    <2>2. Apart(tx'[p].new)  BY <2>1 DEF SlotsApart
    <2> QED  BY <1>1, <2>2 DEF Imported
  <1>6. \/ \E i \in DOMAIN disk : delete(p, i)
        \/ \E i \in DOMAIN disk, index \in 0 .. Len(disk) : move_to(p, i, index)
        \/ \E i \in DOMAIN disk, mark \in Marks : set_mark(p, i, mark)
        \/ \E bundle, overwrite : import_bundle(p, bundle, overwrite)
    <2>1. ASSUME NEW id, NEW kind, NEW mark, NEW alias, NEW secrets,
                 add(p, id, kind, alias, mark, secrets)
          PROVE  FALSE
      BY <2>1 DEF add, Begin, MintsNothing
    <2>2. ASSUME NEW i, NEW ssh, NEW mark, NEW alias, NEW edit,
                 update(p, i, edit, ssh, alias, mark)
          PROVE  FALSE
      BY <2>2 DEF update, Begin, MintsNothing
    <2>3. ASSUME NEW i, NEW new_id, duplicate(p, i, new_id) PROVE FALSE
      BY <2>3 DEF duplicate, Begin, MintsNothing
    <2>4. ASSUME NEW i, NEW key_ref, NEW secret, repair_foreign_ref(p, i, key_ref, secret)
          PROVE  FALSE
      BY <2>4 DEF repair_foreign_ref, Begin, MintsNothing
    <2> QED  BY <2>1, <2>2, <2>3, <2>4 DEF Call
  <1> QED  BY <1>2, <1>3, <1>4, <1>5, <1>6

\* A store whose connections came in by import, and were renamed, moved and
\* deleted since, has no two that share a slot: the guard of import refuses the
\* entry that would, however a bundle was edited.
THEOREM ImportsKeepSlotsApart ==
    ASSUME OneWriter, \A p \in Procs : Calls[p] \subseteq MintsNothing
    PROVE  Spec => []SlotsApart
  <1>1. Init => SpareInv /\ ImportedInv
    <2>1. Init => Rows(disk) = {}  BY DEF Init, Rows
    <2> QED
      BY <2>1 DEF Init, SpareInv, Spares, Idle, ImportedInv, Imported, SlotsApart, Apart, staged
  <1>2. TypeOK /\ ParseInv /\ SpareInv /\ ImportedInv /\ [Next]_vars => ImportedInv'
    <2> SUFFICES ASSUME TypeOK, ParseInv, SpareInv, ImportedInv, [Next]_vars
                 PROVE  ImportedInv'
      OBVIOUS
    <2>1. CASE UNCHANGED vars
      BY <2>1 DEF vars, ImportedInv, SlotsApart
    <2>2. CASE Next
      <3>1. PICK p \in Procs : Call(p) \/ Proceed(p) \/ crash(p)  BY <2>2 DEF Next
      <3>2. Imported(tx[p]) /\ SlotsApart  BY DEF ImportedInv
      <3>3. CASE Call(p)
        <4>1. Imported(tx'[p]) /\ disk' = disk
          BY <3>2, <3>3, PlanApart, CallFrame DEF Begun
        <4> QED  BY <3>2, <4>1 DEF ImportedInv, SlotsApart, OneWriter
      <3>4. CASE accept(p)
        <4>1. tx[p] \in Tx /\ tx[p].at = "import" /\ p \in DOMAIN tx  BY <3>4 DEF TypeOK, accept
        <4>2. tx'[p].call = tx[p].call /\ disk' = disk
          BY <3>4, <4>1, TxFields DEF accept, Step
        <4>3. tx[p].call = "import_bundle"  BY <3>2, <4>1 DEF Imported
        <4>4. Apart(tx'[p].new)  BY <3>4, <4>3, AcceptSpares
        <4>5. Imported(tx'[p])  BY <3>2, <4>2, <4>3, <4>4 DEF Imported
        <4> QED  BY <3>2, <4>2, <4>5 DEF ImportedInv, SlotsApart, OneWriter
      <3>5. CASE (Proceed(p) \/ crash(p)) /\ ~accept(p)
        <4>1. SlotsApart'
          BY <3>2, <3>5, StagedKept DEF SlotsApart, Imported, staged
        <4>2. Imported(tx'[p])
          BY <3>2, <3>5, StagedKept DEF Imported, staged
        <4> QED  BY <4>1, <4>2 DEF ImportedInv, OneWriter
      <3> QED  BY <3>1, <3>3, <3>4, <3>5
    <2> QED  BY <2>1, <2>2
  <1> QED
    BY <1>1, <1>2, SpareStep, AlwaysParses, TypeCorrect, PTL DEF Spec, ImportedInv
-------------------------------------------------------------------------------
(***************************************************************************)
(* No connection is lost.  What a call saves it built from the file it     *)
(* read; with one writer that is the file it replaces.                     *)
(***************************************************************************)
\* What a call will save has every connection the call is not about.
KeepsEntries(t, file) ==
    staged(t) => entry_ids(file) \ t.ids \subseteq entry_ids(t.new)

KeepInv == \A p \in Procs : KeepsEntries(tx[p], disk)

\* The plan of each mutator.
LEMMA CallKeepsEntries ==
    ASSUME TypeOK, ParseInv, NEW p \in Procs, Call(p)
    PROVE  KeepsEntries(tx'[p], disk)
  <1>0. /\ disk \in Files /\ UniqueIds(disk) /\ p \in DOMAIN tx
        /\ \A file : entry_ids(file) = {x.id : x \in Rows(file)}
    BY DEF TypeOK, ParseInv, entry_ids, Rows
  <1> DEFINE u == tx'[p]
  <1>1. ASSUME NEW row, u.new = Append(disk, row) PROVE KeepsEntries(u, disk)
    <2>1. DOMAIN disk = 1 .. Len(disk) /\ Len(disk) \in Nat  BY <1>0, FileDomain
    <2>2. \A i \in DOMAIN disk : i \in DOMAIN Append(disk, row) /\ Append(disk, row)[i] = disk[i]
      BY <1>0, <2>1 DEF Files
    <2> QED  BY <1>1, <2>2 DEF KeepsEntries, entry_ids
  <1>2. ASSUME NEW i \in DOMAIN disk, NEW row, row.id = disk[i].id,
               u.new = [disk EXCEPT ![i] = row]
        PROVE  KeepsEntries(u, disk)
    BY <1>2 DEF KeepsEntries, entry_ids
  <1>3. ASSUME NEW id, NEW kind, NEW mark, NEW alias, NEW secrets,
               add(p, id, kind, alias, mark, secrets)
        PROVE  KeepsEntries(u, disk)
    <2>1. \E row : u.new = Append(disk, row)  BY <1>0, <1>3 DEF add, Begin, Idle
    <2> QED  BY <1>1, <2>1
  <1>4. ASSUME NEW i \in DOMAIN disk, NEW ssh, NEW mark, NEW alias, NEW edit,
               update(p, i, edit, ssh, alias, mark)
        PROVE  KeepsEntries(u, disk)
    <2>1. PICK refs : u.new = [disk EXCEPT ![i] =
                          [disk[i] EXCEPT !.refs = refs, !.alias = alias, !.mark = mark]]
      BY <1>0, <1>4 DEF update, Begin, Idle
    <2> DEFINE row == [disk[i] EXCEPT !.refs = refs, !.alias = alias, !.mark = mark]
    <2>2. disk[i] \in Entries  BY <1>0, FileDomain
    <2>3. row.id = disk[i].id  BY <2>2 DEF Entries
    <2>4. u.new = [disk EXCEPT ![i] = row]  BY <2>1
    <2> HIDE DEF row
    <2> QED  BY <1>2, <2>3, <2>4
  <1>5. ASSUME NEW i \in DOMAIN disk, delete(p, i) PROVE KeepsEntries(u, disk)
    <2>1. u.new = RemoveAt(disk, i) /\ u.ids = {disk[i].id}
      BY <1>0, <1>5 DEF delete, Begin, Idle
    <2>2. Rows(u.new) = {x \in Rows(disk) : x.id # disk[i].id}  BY <1>0, <2>1, RemoveRow
    <2> QED  BY <1>0, <2>1, <2>2 DEF KeepsEntries
  <1>6. ASSUME NEW i \in DOMAIN disk, NEW index \in 0 .. Len(disk), move_to(p, i, index)
        PROVE  KeepsEntries(u, disk)
    <2>1. u.new = moved(disk, i, index)  BY <1>0, <1>6 DEF move_to, Begin, Idle
    <2>2. index \in 0 .. Len(disk) - 1  BY <1>0, <1>6, FileDomain DEF move_to
    <2>3. Rows(u.new) = Rows(disk)  BY <1>0, <2>1, <2>2, MoveRow
    <2> QED  BY <1>0, <2>3 DEF KeepsEntries
  <1>7. ASSUME NEW i \in DOMAIN disk, NEW mark, set_mark(p, i, mark)
        PROVE  KeepsEntries(u, disk)
    <2> DEFINE row == [disk[i] EXCEPT !.mark = mark]
    <2>1. u.new = [disk EXCEPT ![i] = row]  BY <1>0, <1>7 DEF set_mark, Begin, Idle
    <2>2. disk[i] \in Entries  BY <1>0, FileDomain
    <2>3. row.id = disk[i].id  BY <2>2 DEF Entries
    <2> HIDE DEF row
    <2> QED  BY <1>2, <2>1, <2>3
  <1>8. ASSUME NEW i \in DOMAIN disk, NEW new_id, duplicate(p, i, new_id)
        PROVE  KeepsEntries(u, disk)
    <2>1. \E row : u.new = Append(disk, row)  BY <1>0, <1>8 DEF duplicate, Begin, Idle
    <2> QED  BY <1>1, <2>1
  <1>9. ASSUME NEW i \in DOMAIN disk, NEW key_ref, NEW secret,
               repair_foreign_ref(p, i, key_ref, secret)
        PROVE  KeepsEntries(u, disk)
    <2>1. PICK own_ref : u.new = [disk EXCEPT ![i].refs = (@ \ {key_ref}) \cup {own_ref}]
      BY <1>0, <1>9 DEF repair_foreign_ref, Begin, Idle
    <2> DEFINE row == [disk[i] EXCEPT !.refs = (disk[i].refs \ {key_ref}) \cup {own_ref}]
    <2>2. disk[i] \in Entries  BY <1>0, FileDomain
    <2>3. row.id = disk[i].id  BY <2>2 DEF Entries
    <2>4. u.new = [disk EXCEPT ![i] = row]  BY <2>1
    <2> HIDE DEF row
    <2> QED  BY <1>2, <2>3, <2>4
  <1>10. ASSUME NEW bundle, NEW overwrite, import_bundle(p, bundle, overwrite)
         PROVE  KeepsEntries(u, disk)
    <2>1. u.new = disk  BY <1>0, <1>10 DEF import_bundle, Begin, Idle
    <2> QED  BY <2>1 DEF KeepsEntries
  <1> QED
    BY <1>3, <1>4, <1>5, <1>6, <1>7, <1>8, <1>9, <1>10 DEF Call

\* An entry a bundle brings replaces the one of its id and no other.
LEMMA AcceptKeepsEntries ==
    ASSUME TypeOK, ParseInv, NEW p \in Procs, accept(p), KeepsEntries(tx[p], disk)
    PROVE  KeepsEntries(tx'[p], disk)
  <1> DEFINE t == tx[p]
             entry == Head(t.incoming)
             rows == find_index(t.new, entry.id)
             new == IF rows = {} THEN Append(t.new, entry)
                    ELSE [j \in DOMAIN t.new |-> IF j \in rows THEN entry ELSE t.new[j]]
  <1>1. t \in Tx /\ t.incoming \in Files /\ t.incoming # <<>> /\ t.new \in Files
        /\ UniqueIds(t.new) /\ p \in DOMAIN tx /\ staged(t)
    BY DEF TypeOK, ParseInv, StagedParses, staged, accept, Tx
  <1>2. entry \in Entries  BY <1>1, TailRows
  <1>3. tx'[p].new = new /\ tx'[p].ids = t.ids \cup {entry.id}
    BY <1>1, TxFields DEF accept, Step
  <1>4. new = joined(t.new, entry)  BY DEF joined
  <1>5. \A file : entry_ids(file) = {x.id : x \in Rows(file)}  BY DEF entry_ids, Rows
  <1>6. entry_ids(disk) \ t.ids \subseteq entry_ids(t.new)  BY <1>1 DEF KeepsEntries
  <1> HIDE DEF t, entry, new
  <1>7. Rows(new) = {entry} \cup {x \in Rows(t.new) : x.id # entry.id}
    BY <1>1, <1>2, <1>4, JoinedRows
  <1> QED  BY <1>3, <1>5, <1>6, <1>7 DEF KeepsEntries

\* One process alone never loses a connection: what a call saves has every
\* connection of the file it replaces but those the call is about.  That no
\* two processes can be promised this is shown by a run.
THEOREM OneWriterLosesNothing ==
    ASSUME OneWriter
    PROVE  Spec => EntriesSurvive
  <1> DEFINE Kept == \A p \in Procs : rename(p) =>
                         entry_ids(disk) \ tx[p].ids \subseteq entry_ids(disk')
  <1>1. Init => KeepInv
    BY DEF Init, KeepInv, KeepsEntries, staged, Idle
  <1>2. TypeOK /\ ParseInv /\ KeepInv /\ [Next]_vars => KeepInv'
    <2> SUFFICES ASSUME TypeOK, ParseInv, KeepInv, [Next]_vars PROVE KeepInv'  OBVIOUS
    <2>1. CASE UNCHANGED vars
      BY <2>1 DEF vars, KeepInv
    <2>2. CASE Next
      <3>1. PICK p \in Procs : Call(p) \/ Proceed(p) \/ crash(p)  BY <2>2 DEF Next
      <3>2. KeepsEntries(tx[p], disk)  BY DEF KeepInv
      <3>3. CASE Call(p)
        <4>1. KeepsEntries(tx'[p], disk) /\ disk' = disk
          BY <3>3, CallKeepsEntries, CallFrame DEF Begun
        <4> QED  BY <4>1 DEF KeepInv, OneWriter
      <3>4. CASE accept(p)
        <4>1. KeepsEntries(tx'[p], disk) /\ disk' = disk
          BY <3>2, <3>4, AcceptKeepsEntries DEF accept
        <4> QED  BY <4>1 DEF KeepInv, OneWriter
      <3>5. CASE (Proceed(p) \/ crash(p)) /\ ~accept(p)
        <4>1. KeepsEntries(tx'[p], disk')
          BY <3>2, <3>5, StagedKept DEF KeepsEntries
        <4> QED  BY <4>1 DEF KeepInv, OneWriter
      <3> QED  BY <3>1, <3>3, <3>4, <3>5
    <2> QED  BY <2>1, <2>2
  <1>3. TypeOK /\ KeepInv => Kept
    BY DEF KeepInv, KeepsEntries, staged, rename
  <1> QED  BY <1>1, <1>2, <1>3, AlwaysParses, TypeCorrect, PTL DEF Spec, EntriesSurvive
-------------------------------------------------------------------------------
(***************************************************************************)
(* One call at a time.  The list a caller sees (saved_list) changes at the *)
(* rename and at no other step, and there it changes the way the call's    *)
(* operation of ConnectionStore does.                                      *)
(***************************************************************************)
\* What the file in a call's hands is to the file it read.
Adds(t, file) ==
    \E entry \in Entries :
        t.new = Append(file, entry) /\ t.ids = {entry.id} /\ entry.id \notin entry_ids(file)

Edits(t, file) ==
    \E i \in DOMAIN file :
        /\ t.ids = {file[i].id}
        /\ DOMAIN t.new = DOMAIN file /\ t.new[i].id = file[i].id
        /\ \A j \in DOMAIN file \ {i} : t.new[j] = file[j]

Deletes(t, file) ==
    \E i \in DOMAIN file : t.ids = {file[i].id} /\ t.new = RemoveAt(file, i)

Moves(t, file) ==
    /\ pending(t) \cup undoable(t) = {}
    /\ \E i \in DOMAIN file, index \in 0 .. Len(file) - 1 : t.new = moved(file, i, index)

\* What a slot holds, or will when the call has written what it means to.
due(t, keys, r) == IF r \in pending(t) THEN t.writes[r] ELSE keys[r]

\* A row the bundle did not replace is as it was; one it did, or added, is the
\* bundle's, and gets the bundle's secrets.
Merges(t, file, keys, bundle) ==
    /\ t.at = "import" => /\ t.given = bundle.secrets
                          /\ Rows(t.incoming) \subseteq Rows(bundle.entries)
    /\ Len(file) <= Len(t.new)
    /\ \A i \in DOMAIN t.new :
         \/ i \in DOMAIN file /\ t.new[i] = file[i] /\ file[i].id \notin t.ids
         \/ /\ t.new[i].id \in t.ids /\ t.new[i] \in Rows(bundle.entries)
            /\ IF i \in DOMAIN file THEN t.new[i].id = file[i].id
                                    ELSE t.new[i].id \notin entry_ids(file)
            /\ \A r \in t.new[i].refs : due(t, keys, r) = bundle.secrets[r]

Planned(t, file, keys) ==
    staged(t) /\ ~t.doomed =>
        \/ t.call \in {"add", "duplicate"} /\ Adds(t, file)
        \/ t.call \in {"update", "set_mark"} /\ Edits(t, file)
        \/ t.call = "delete" /\ Deletes(t, file)
        \/ t.call = "move_to" /\ Moves(t, file)
        \/ t.call = "import_bundle" /\ \E bundle \in Bundles : Merges(t, file, keys, bundle)

\* The plan of each mutator is of its kind.
LEMMA CallPlanned ==
    ASSUME TypeOK, SafeInv, NEW p \in Procs, Call(p)
    PROVE  Planned(tx'[p], disk, keyring)
  <1>0. disk \in Files /\ p \in DOMAIN tx  BY DEF TypeOK
  <1>1. ASSUME NEW id \in Ids, NEW kind \in DraftKinds[p], NEW mark \in Marks,
               NEW alias \in Ids \cup Aliases \cup {NoAlias},
               NEW fields \in SecretShapes(kind), NEW secrets \in [fields -> Values],
               add(p, id, kind, alias, mark, secrets)
        PROVE  Planned(tx'[p], disk, keyring)
    <2> DEFINE entry == [id |-> id, kind |-> kind, alias |-> alias, mark |-> mark,
                         refs |-> minted(id, DOMAIN secrets)]
    <2>1. kind \in Kinds /\ fields \subseteq Fields
      BY KindAssumption DEF SecretShapes, Kinds, Fields, SshFields
    <2>2. entry \in Entries /\ entry.id = id
      BY <2>1, RefTypes DEF minted, Entries
    <2>3. /\ tx'[p].new = Append(disk, entry) /\ tx'[p].ids = {id} /\ tx'[p].call = "add"
          /\ id \notin entry_ids(disk)
      BY <1>0, <1>1 DEF add, Begin, Idle, find_index, entry_ids
    <2> HIDE DEF entry
    <2> QED  BY <2>2, <2>3 DEF Planned, Adds
  <1>2. ASSUME NEW i \in DOMAIN disk, NEW ssh, NEW mark, NEW alias, NEW edit,
               update(p, i, edit, ssh, alias, mark)
        PROVE  Planned(tx'[p], disk, keyring)
    <2>1. PICK refs : tx'[p].new = [disk EXCEPT ![i] =
                          [disk[i] EXCEPT !.refs = refs, !.alias = alias, !.mark = mark]]
      BY <1>0, <1>2 DEF update, Begin, Idle
    <2>2. tx'[p].ids = {disk[i].id} /\ tx'[p].call = "update"
      BY <1>0, <1>2 DEF update, Begin, Idle
    <2>3. disk[i] \in Entries  BY <1>0, FileDomain
    <2>4. [disk[i] EXCEPT !.refs = refs, !.alias = alias, !.mark = mark].id = disk[i].id
      BY <2>3 DEF Entries
    <2> QED  BY <2>1, <2>2, <2>4 DEF Planned, Edits
  <1>3. ASSUME NEW i \in DOMAIN disk, delete(p, i)
        PROVE  Planned(tx'[p], disk, keyring)
    <2>1. /\ tx'[p].new = RemoveAt(disk, i) /\ tx'[p].ids = {disk[i].id}
          /\ tx'[p].call = "delete"
      BY <1>0, <1>3 DEF delete, Begin, Idle
    <2> QED  BY <2>1 DEF Planned, Deletes
  <1>4. ASSUME NEW i \in DOMAIN disk, NEW index \in 0 .. Len(disk), move_to(p, i, index)
        PROVE  Planned(tx'[p], disk, keyring)
    <2>1. /\ tx'[p].new = moved(disk, i, index) /\ tx'[p].call = "move_to"
          /\ tx'[p].writes = NoWrites /\ tx'[p].undo = NoUndo
      BY <1>0, <1>4 DEF move_to, Begin, Idle
    <2>2. pending(tx'[p]) \cup undoable(tx'[p]) = {}
      BY <2>1 DEF pending, undoable, NoWrites, NoUndo
    <2>3. index \in 0 .. Len(disk) - 1  BY <1>0, <1>4, FileDomain DEF move_to
    <2> QED  BY <2>1, <2>2, <2>3 DEF Planned, Moves
  <1>5. ASSUME NEW i \in DOMAIN disk, NEW mark, set_mark(p, i, mark)
        PROVE  Planned(tx'[p], disk, keyring)
    <2>1. /\ tx'[p].new = [disk EXCEPT ![i].mark = mark] /\ tx'[p].ids = {disk[i].id}
          /\ tx'[p].call = "set_mark"
      BY <1>0, <1>5 DEF set_mark, Begin, Idle
    <2>2. disk[i] \in Entries  BY <1>0, FileDomain
    <2>3. [disk[i] EXCEPT !.mark = mark].id = disk[i].id  BY <2>2 DEF Entries
    <2> QED  BY <2>1, <2>3 DEF Planned, Edits
  <1>6. ASSUME NEW i \in DOMAIN disk, NEW new_id \in Ids, duplicate(p, i, new_id)
        PROVE  Planned(tx'[p], disk, keyring)
    <2>1. disk[i] \in Entries  BY <1>0, FileDomain
    <2> DEFINE refs == {keyring_ref(new_id, ref_field(r)) : r \in disk[i].refs}
               entry == [disk[i] EXCEPT !.id = new_id, !.alias = NoAlias, !.mark = NoMark,
                                        !.refs = refs]
    <2>2. refs \subseteq Refs  BY <2>1, RefTypes
    <2>3. entry \in Entries /\ entry.id = new_id
      BY <2>1, <2>2, MarkAssumption DEF Entries
    <2>4. /\ tx'[p].new = Append(disk, entry) /\ tx'[p].ids = {new_id}
          /\ tx'[p].call = "duplicate" /\ new_id \notin entry_ids(disk)
      BY <1>0, <1>6 DEF duplicate, Begin, Idle, find_index, entry_ids
    <2> HIDE DEF entry
    <2> QED  BY <2>3, <2>4 DEF Planned, Adds
  <1>7. ASSUME NEW bundle \in Bundles, NEW overwrite, import_bundle(p, bundle, overwrite)
        PROVE  Planned(tx'[p], disk, keyring)
    <2>1. /\ tx'[p].new = disk /\ tx'[p].ids = {} /\ tx'[p].call = "import_bundle"
          /\ tx'[p].given = bundle.secrets /\ tx'[p].incoming = bundle.entries
      BY <1>0, <1>7 DEF import_bundle, Begin, Idle
    <2>2. Len(disk) <= Len(disk)  BY <1>0, FileDomain
    <2> QED  BY <2>1, <2>2 DEF Planned, Merges
  <1> QED
    BY <1>1, <1>2, <1>3, <1>4, <1>5, <1>6, <1>7, RepairSafe DEF Call

\* A plan is kept by every step that does not change what it speaks of.
LEMMA PlanCarried ==
    ASSUME NEW t \in Tx, NEW u, NEW file, NEW keys, NEW held, Planned(t, file, keys),
           u.call = t.call, u.ids = t.ids, u.new = t.new,
           staged(u) /\ ~u.doomed => staged(t) /\ ~t.doomed,
           t.call = "move_to" => pending(u) \cup undoable(u) \subseteq pending(t) \cup undoable(t),
           t.call = "import_bundle" =>
               /\ u.at = "import" => /\ t.at = "import" /\ u.given = t.given
                                     /\ Rows(u.incoming) \subseteq Rows(t.incoming)
               /\ \A r \in Refs : due(u, held, r) = due(t, keys, r)
    PROVE  Planned(u, file, held)
  <1> SUFFICES ASSUME staged(u) /\ ~u.doomed PROVE Planned(u, file, held)  BY DEF Planned
  <1>1. CASE t.call # "import_bundle"
    BY <1>1 DEF Planned, Adds, Edits, Deletes, Moves
  <1>2. CASE t.call = "import_bundle"
    <2>1. PICK bundle \in Bundles : Merges(t, file, keys, bundle)  BY <1>2 DEF Planned
    <2>2. \A i \in DOMAIN t.new : t.new[i].refs \subseteq Refs
      BY FileDomain DEF Tx, Entries
    <2>3. Merges(u, file, held, bundle)  BY <1>2, <2>1, <2>2 DEF Merges
    <2> QED  BY <1>2, <2>3 DEF Planned
  <1> QED  BY <1>1, <1>2

\* An entry the import accepts takes the place of the row it collides with, or
\* follows the others.
LEMMA AcceptPlanned ==
    ASSUME TypeOK, SafeInv, NEW p \in Procs, accept(p), Planned(tx[p], disk, keyring)
    PROVE  Planned(tx'[p], disk, keyring)
  <1> DEFINE t == tx[p]
             entry == Head(t.incoming)
             rows == find_index(t.new, entry.id)
             writes == [r \in Refs |-> IF r \in entry.refs /\ t.given[r] # NoSecret
                                       THEN t.given[r] ELSE t.writes[r]]
             new == IF rows = {} THEN Append(t.new, entry)
                    ELSE [j \in DOMAIN t.new |-> IF j \in rows THEN entry ELSE t.new[j]]
             u == tx'[p]
  <1>1. /\ t \in Tx /\ Safe(t, disk, keyring) /\ t.at = "import" /\ entry.id \notin t.ids
        /\ t.incoming \in Files /\ t.incoming # <<>> /\ t.new \in Files /\ Sound(t.new)
        /\ t.call = "import_bundle" /\ disk \in Files
    BY DEF TypeOK, SafeInv, Safe, NewSound, Orderly, staged, accept, passed_over, Tx
  <1>2. /\ u.new = new /\ u.ids = t.ids \cup {entry.id} /\ u.writes = writes
        /\ u.incoming = Tail(t.incoming) /\ u.at = t.at /\ u.call = t.call
        /\ u.given = t.given /\ u.doomed = t.doomed
    BY <1>1, TxFields DEF TypeOK, accept, Step
  <1>3. /\ entry \in Rows(t.incoming) /\ entry \in Entries
        /\ Rows(Tail(t.incoming)) \subseteq Rows(t.incoming)
    BY <1>1, TailRows
  <1>4. /\ entry.refs \subseteq Refs
        /\ \A r \in entry.refs : t.given[r] # NoSecret /\ ref_owner(r) = entry.id
    BY <1>1, <1>3 DEF Safe, IncomingOwned, foreign_refs, Entries
  <1>5. \A r \in Refs : writes[r] = IF r \in entry.refs THEN t.given[r] ELSE t.writes[r]
    BY <1>4
  <1>6. /\ Len(t.new) \in Nat /\ DOMAIN t.new = 1 .. Len(t.new)
        /\ Len(disk) \in Nat /\ DOMAIN disk = 1 .. Len(disk)
        /\ \A i \in DOMAIN t.new : t.new[i] \in Entries /\ t.new[i].refs \subseteq Refs
    BY <1>1, FileDomain DEF Entries
  <1>7. \A i \in DOMAIN t.new : \A r \in t.new[i].refs : ref_owner(r) = t.new[i].id
    BY <1>1, SoundOwner
  <1> HIDE DEF t, writes
  <1>8. SUFFICES ASSUME ~t.doomed PROVE Planned(u, disk, keyring)
    BY <1>2 DEF Planned
  <1>9. PICK bundle \in Bundles : Merges(t, disk, keyring, bundle)
    BY <1>1, <1>8 DEF Planned, staged, t
  <1>10. /\ t.given = bundle.secrets /\ Rows(t.incoming) \subseteq Rows(bundle.entries)
         /\ Len(disk) <= Len(t.new)
    BY <1>1, <1>9 DEF Merges
  <1>11. \A r \in Refs : due(u, keyring, r) = IF r \in entry.refs THEN bundle.secrets[r]
                                                            ELSE due(t, keyring, r)
    BY <1>2, <1>4, <1>5, <1>10 DEF due, pending
  <1> DEFINE Good(x, i) ==
        \/ i \in DOMAIN disk /\ x = disk[i] /\ disk[i].id \notin u.ids
        \/ /\ x.id \in u.ids /\ x \in Rows(bundle.entries)
           /\ IF i \in DOMAIN disk THEN x.id = disk[i].id ELSE x.id \notin entry_ids(disk)
           /\ \A r \in x.refs : due(u, keyring, r) = bundle.secrets[r]
  <1>12. ASSUME NEW i \in DOMAIN t.new, t.new[i].id # entry.id
         PROVE  Good(t.new[i], i)
    <2>1. CASE i \in DOMAIN disk /\ t.new[i] = disk[i] /\ disk[i].id \notin t.ids
      BY <1>2, <1>12, <2>1
    <2>2. CASE /\ t.new[i].id \in t.ids /\ t.new[i] \in Rows(bundle.entries)
               /\ IF i \in DOMAIN disk THEN t.new[i].id = disk[i].id
                                       ELSE t.new[i].id \notin entry_ids(disk)
               /\ \A r \in t.new[i].refs : due(t, keyring, r) = bundle.secrets[r]
      <3>1. \A r \in t.new[i].refs : r \in Refs /\ r \notin entry.refs
        BY <1>4, <1>6, <1>7, <1>12
      <3> QED  BY <1>2, <1>11, <2>2, <3>1
    <2> QED  BY <1>9, <2>1, <2>2 DEF Merges
  <1>13. /\ entry.id \in u.ids /\ entry \in Rows(bundle.entries)
         /\ \A r \in entry.refs : due(u, keyring, r) = bundle.secrets[r]
    BY <1>2, <1>3, <1>4, <1>10, <1>11
  <1>14. \A i \in DOMAIN disk : i \in DOMAIN t.new /\ t.new[i].id = disk[i].id
    <2>1. \A i \in DOMAIN disk : i \in DOMAIN t.new  BY <1>6, <1>10
    <2> QED  BY <1>9, <2>1 DEF Merges
  <1>15. Len(disk) <= Len(new) /\ \A i \in DOMAIN new : Good(new[i], i)
    <2>1. CASE rows = {}
      <3>1. new = Append(t.new, entry)  BY <2>1
      <3>2. \A i \in DOMAIN t.new : t.new[i].id # entry.id  BY <2>1 DEF find_index
      <3>3. entry.id \notin entry_ids(disk)  BY <1>14, <3>2 DEF entry_ids
      <3> HIDE DEF new, entry, Good
      <3>4. /\ new \in Files /\ Len(new) = Len(t.new) + 1 /\ new[Len(t.new) + 1] = entry
            /\ \A i \in 1 .. Len(t.new) : new[i] = t.new[i]
        BY <1>1, <1>3, <3>1, AppendProperties DEF Files
      <3>5. DOMAIN new = 1 .. Len(t.new) + 1  BY <3>4, FileDomain
      <3>6. Len(t.new) + 1 \notin DOMAIN disk  BY <1>6, <1>10
      <3>7. Good(entry, Len(t.new) + 1)  BY <1>13, <3>3, <3>6 DEF Good
      <3>8. \A i \in DOMAIN new : i \in DOMAIN t.new \/ i = Len(t.new) + 1
        BY <1>6, <3>5
      <3>9. \A i \in DOMAIN new : Good(new[i], i)
        BY <1>6, <1>12, <3>2, <3>4, <3>7, <3>8
      <3> QED  BY <1>6, <1>10, <3>4, <3>9
    <2>2. CASE rows # {}
      <3>1. new = [j \in DOMAIN t.new |-> IF j \in rows THEN entry ELSE t.new[j]]
        BY <2>2
      <3>2. \A i \in DOMAIN t.new : i \in rows <=> t.new[i].id = entry.id
        BY DEF find_index
      <3>3. \A i \in rows : i \in DOMAIN disk /\ disk[i].id = entry.id
        BY <1>1, <1>9, <3>2 DEF Merges, find_index
      <3> HIDE DEF new, rows
      <3>4. Len(new) = Len(t.new)  BY <1>6, <3>1
      <3>5. ASSUME NEW i \in DOMAIN new PROVE Good(new[i], i)
        <4>1. i \in DOMAIN t.new  BY <3>1
        <4>2. CASE i \in rows
          <5>1. new[i] = entry  BY <3>1, <4>1, <4>2
          <5> HIDE DEF entry
          <5> QED  BY <1>13, <3>3, <4>2, <5>1
        <4>3. CASE i \notin rows  BY <1>12, <3>1, <3>2, <4>1, <4>3
        <4> QED  BY <4>2, <4>3
      <3> QED  BY <1>10, <3>4, <3>5
    <2> QED  BY <2>1, <2>2
  <1>16. Merges(u, disk, keyring, bundle)
    BY <1>2, <1>3, <1>10, <1>15 DEF Merges
  <1> QED  BY <1>1, <1>2, <1>16 DEF Planned

LEMMA PlannedKept ==
    ASSUME TypeOK, SafeInv, Healthy, NEW p \in Procs, Proceed(p) \/ crash(p),
           Planned(tx[p], disk, keyring)
    PROVE  Planned(tx'[p], disk', keyring')
  <1> DEFINE t == tx[p]
             u == tx'[p]
  <1>0. /\ p \in DOMAIN tx /\ t \in Tx /\ Orderly(t) /\ BlindSafe(t, disk)
        /\ disk \in Files /\ keyring \in [Refs -> Slot]
    BY DEF TypeOK, SafeInv, Safe
  <1>1. ASSUME u.at \in {"idle", "undo", "purge"}
        PROVE  Planned(u, disk', keyring')
    BY <1>1 DEF Planned, staged
  <1>2. CASE accept(p)
    <2>1. UNCHANGED <<disk, keyring>>  BY <1>2 DEF accept
    <2> QED  BY <1>2, <2>1, AcceptPlanned
  <1>3. CASE pass_over(p)
    <2>1. /\ t.at = "import" /\ UNCHANGED <<disk, keyring>> /\ t.incoming # <<>>
          /\ tx' = [tx EXCEPT ![p] = [t EXCEPT !.incoming = Tail(t.incoming)]]
      BY <1>3 DEF pass_over, Step
    <2>2. /\ u.at = t.at /\ u.call = t.call /\ u.ids = t.ids /\ u.new = t.new
          /\ u.doomed = t.doomed /\ u.given = t.given /\ u.writes = t.writes
          /\ u.undo = t.undo /\ u.incoming = Tail(t.incoming)
      BY <1>0, <2>1, TxFields
    <2>3. Rows(u.incoming) \subseteq Rows(t.incoming)
      BY <1>0, <2>1, <2>2, TailRows DEF Tx
    <2>4. /\ pending(u) = pending(t) /\ undoable(u) = undoable(t)
          /\ \A r \in Refs : due(u, keyring, r) = due(t, keyring, r)
      BY <2>2 DEF pending, undoable, due
    <2>5. Planned(u, disk, keyring)
      BY <1>0, <2>1, <2>2, <2>3, <2>4, PlanCarried DEF staged
    <2> QED  BY <2>1, <2>5
  <1>4. CASE accepted_all(p)
    <2>1. /\ t.at = "import" /\ UNCHANGED <<disk, keyring>>
          /\ \/ tx' = [tx EXCEPT ![p] = Idle]
             \/ tx' = [tx EXCEPT ![p] = [t EXCEPT !.at = "secrets", !.given = NoWrites,
                                        !.owner = NoOwners, !.overwrite = FALSE]]
      BY <1>4 DEF accepted_all, Step
    <2>2. CASE tx' = [tx EXCEPT ![p] = Idle]  BY <1>0, <1>1, <2>2 DEF Idle
    <2>3. CASE tx' = [tx EXCEPT ![p] = [t EXCEPT !.at = "secrets", !.given = NoWrites,
                                       !.owner = NoOwners, !.overwrite = FALSE]]
      <3>1. /\ u.at = "secrets" /\ u.call = t.call /\ u.ids = t.ids /\ u.new = t.new
            /\ u.doomed = t.doomed /\ u.writes = t.writes /\ u.undo = t.undo
        BY <1>0, <2>3, TxFields
      <3>2. /\ pending(u) = pending(t) /\ undoable(u) = undoable(t)
            /\ \A r \in Refs : due(u, keyring, r) = due(t, keyring, r)
        BY <3>1 DEF pending, undoable, due
      <3>3. Planned(u, disk, keyring)
        BY <1>0, <2>1, <3>1, <3>2, PlanCarried DEF staged
      <3> QED  BY <2>1, <3>3
    <2> QED  BY <2>1, <2>2, <2>3
  <1>5. CASE copy_secrets(p)
    <2>1. PICK w : /\ t.at = "copy" /\ UNCHANGED <<disk, keyring>>
                   /\ \/ tx' = [tx EXCEPT ![p] = [t EXCEPT !.at = "secrets",
                                                 !.copies = NoCopies, !.writes = w]]
                      \/ tx' = [tx EXCEPT ![p] = Idle]
      BY <1>5 DEF copy_secrets, Step
    <2>2. t.call = "duplicate"  BY <1>0, <2>1 DEF BlindSafe
    <2>3. CASE tx' = [tx EXCEPT ![p] = Idle]  BY <1>0, <1>1, <2>3 DEF Idle
    <2>4. CASE tx' = [tx EXCEPT ![p] = [t EXCEPT !.at = "secrets", !.copies = NoCopies,
                                       !.writes = w]]
      <3>1. /\ u.at = "secrets" /\ u.call = t.call /\ u.ids = t.ids /\ u.new = t.new
            /\ u.doomed = t.doomed
        BY <1>0, <2>4, TxFields
      <3>2. Planned(u, disk, keyring)
        BY <1>0, <2>1, <2>2, <3>1, PlanCarried DEF staged
      <3> QED  BY <2>1, <3>2
    <2> QED  BY <2>1, <2>3, <2>4
  <1>6. CASE look(p)
    <2>1. PICK c, s : \/ tx' = [tx EXCEPT ![p] = [t EXCEPT !.cur = c, !.seen = s]]
                      \/ tx' = [tx EXCEPT ![p] = [t EXCEPT !.at = "undo", !.writes = NoWrites]]
                      \/ tx' = [tx EXCEPT ![p] = [t EXCEPT !.cur = c]]
      BY <1>6 DEF look, Step
    <2>2. t.at = "secrets" /\ UNCHANGED <<disk, keyring>>  BY <1>6 DEF look
    <2>3. \/ u.at = "undo"
          \/ /\ u.at = t.at /\ u.call = t.call /\ u.ids = t.ids /\ u.new = t.new
             /\ u.doomed = t.doomed /\ u.writes = t.writes /\ u.undo = t.undo
      <3>1. CASE tx' = [tx EXCEPT ![p] = [t EXCEPT !.cur = c, !.seen = s]]
        BY <1>0, <3>1, TxFields
      <3>2. CASE tx' = [tx EXCEPT ![p] = [t EXCEPT !.at = "undo", !.writes = NoWrites]]
        BY <1>0, <3>2, TxFields
      <3>3. CASE tx' = [tx EXCEPT ![p] = [t EXCEPT !.cur = c]]
        BY <1>0, <3>3, TxFields
      <3> QED  BY <2>1, <3>1, <3>2, <3>3
    <2>4. CASE u.at = "undo"  BY <1>1, <2>4
    <2>5. CASE /\ u.at = t.at /\ u.call = t.call /\ u.ids = t.ids /\ u.new = t.new
               /\ u.doomed = t.doomed /\ u.writes = t.writes /\ u.undo = t.undo
      <3>1. /\ pending(u) = pending(t) /\ undoable(u) = undoable(t)
            /\ \A r \in Refs : due(u, keyring, r) = due(t, keyring, r)
        BY <2>5 DEF pending, undoable, due
      <3>2. Planned(u, disk, keyring)
        BY <1>0, <2>2, <2>5, <3>1, PlanCarried DEF staged
      <3> QED  BY <2>2, <3>2
    <2> QED  BY <2>3, <2>4, <2>5
  <1>7. CASE put(p)
    <2>1. PICK c \in pending(t) : Puts(p, c)  BY <1>7, PutMoves
    <2>2. PICK f, g : tx' = [tx EXCEPT ![p] =
                         [t EXCEPT !.cur = NoRef, !.seen = NoSecret, !.undo[c] = f,
                                   !.found[c] = g, !.writes[c] = NoSecret]]
      BY <1>7, <2>1 DEF put, Step, Puts
    <2>3. /\ u.at = t.at /\ t.at = "secrets" /\ u.call = t.call /\ u.ids = t.ids
          /\ u.new = t.new /\ u.doomed = t.doomed
          /\ u.writes = [t.writes EXCEPT ![c] = NoSecret]
      <3>1. t.at = "secrets"  BY <2>1 DEF Puts
      <3>2. u = [t EXCEPT !.cur = NoRef, !.seen = NoSecret, !.undo[c] = f, !.found[c] = g,
                          !.writes[c] = NoSecret]
        BY <1>0, <2>2
      <3> HIDE DEF u, t
      <3> QED  BY <1>0, <3>1, <3>2, TxFields
    <2>4. \A r \in Refs : u.writes[r] = IF r = c THEN NoSecret ELSE t.writes[r]
      BY <1>0, <2>3 DEF Tx
    <2>5. c \in Refs /\ t.writes[c] # NoSecret  BY DEF pending
    <2>6. pending(u) = pending(t) \ {c}
      BY <2>4, <2>5 DEF pending
    <2>7. \A r \in Refs : keyring'[r] = IF r = c THEN t.writes[c] ELSE keyring[r]
      BY <2>1 DEF Puts
    <2>8. \A r \in Refs : due(u, keyring', r) = due(t, keyring, r)
      BY <2>1, <2>4, <2>6, <2>7 DEF due
    <2>9. Planned(u, disk, keyring')
      <3>1. CASE t.call = "move_to" /\ ~t.doomed
        BY <2>1, <2>3, <3>1 DEF Planned, Moves, staged
      <3>2. CASE t.call # "move_to"
        BY <1>0, <2>3, <2>8, <3>2, PlanCarried DEF staged
      <3>3. CASE t.doomed  BY <2>3, <3>3 DEF Planned
      <3> QED  BY <3>1, <3>2, <3>3
    <2> QED  BY <2>1, <2>9 DEF Puts
  <1>8. CASE save_tmp(p)
    <2>1. /\ t.at = "secrets" /\ UNCHANGED <<disk, keyring>>
          /\ tx' = [tx EXCEPT ![p] = [t EXCEPT !.at = "rename"]]
      BY <1>8 DEF save_tmp, written, Step
    <2>2. /\ u.at = "rename" /\ u.call = t.call /\ u.ids = t.ids /\ u.new = t.new
          /\ u.doomed = t.doomed /\ u.writes = t.writes /\ u.undo = t.undo
      BY <1>0, <2>1, TxFields
    <2>3. /\ pending(u) = pending(t) /\ undoable(u) = undoable(t)
          /\ \A r \in Refs : due(u, keyring, r) = due(t, keyring, r)
      BY <2>2 DEF pending, undoable, due
    <2>4. Planned(u, disk, keyring)
      BY <1>0, <2>1, <2>2, <2>3, PlanCarried DEF staged
    <2> QED  BY <2>1, <2>4
  <1>9. CASE put_fails(p) \/ refuse(p) \/ save_tmp_fails(p) \/ rename_fails(p)
    <2>1. u.at = "undo"
      <3>1. CASE put_fails(p)
        BY <1>0, <3>1, TxFields DEF put_fails, Step
      <3>2. CASE refuse(p)
        BY <1>0, <3>2, TxFields DEF refuse, Step
      <3>3. CASE save_tmp_fails(p)
        BY <1>0, <3>3, TxFields DEF save_tmp_fails, Step
      <3>4. CASE rename_fails(p)
        BY <1>0, <3>4, TxFields DEF rename_fails, Step
      <3> QED  BY <1>9, <3>1, <3>2, <3>3, <3>4
    <2> QED  BY <1>1, <2>1
  <1>10. CASE rename(p)
    BY <1>1, <1>10, RenameMoves
  <1>11. CASE purge(p)
    BY <1>1, <1>11, PurgeMoves DEF Purges
  <1>12. CASE undo(p)
    <2>1. u.at = "undo"
      <3>1. PICK r : tx' = [tx EXCEPT ![p] = [t EXCEPT !.undo[r] = Untouched]]
        BY <1>12 DEF undo, Step
      <3>2. t.at = "undo"  BY <1>12 DEF undo
      <3> QED  BY <1>0, <3>1, <3>2, TxFields
    <2> QED  BY <1>1, <2>1
  <1>13. CASE return_ok(p) \/ return_err(p) \/ crash(p)
    <2>1. u = Idle  BY <1>0, <1>13 DEF return_ok, return_err, crash
    <2> QED  BY <1>1, <2>1 DEF Idle
  <1> QED
    BY <1>2, <1>3, <1>4, <1>5, <1>6, <1>7, <1>8, <1>9, <1>10, <1>11, <1>12, <1>13 DEF Proceed

\* The list a caller sees, from the file, the undo plan of the one writer and
\* the keychain.
held(undone, keys, r) == IF undone[r] # Untouched THEN undone[r] ELSE keys[r]

shown(file, undone, keys) ==
    [i \in DOMAIN file |->
        [entry |-> file[i], secrets |-> [r \in file[i].refs |-> held(undone, keys, r)]]]

LEMMA SavedIsShown ==
    ASSUME OneWriter, TypeOK, TypeOK', NEW p \in Procs
    PROVE  /\ saved_list = shown(disk, tx[p].undo, keyring)
           /\ saved_list' = shown(disk', tx'[p].undo, keyring')
  <1>1. Procs = {p}  BY DEF OneWriter
  <1>2. /\ \A i \in DOMAIN disk : disk[i].refs \subseteq Refs
        /\ \A i \in DOMAIN disk' : disk'[i].refs \subseteq Refs
    BY FileDomain DEF TypeOK, Entries
  <1>3. \A r \in Refs : effective(r) = held(tx[p].undo, keyring, r)
    BY <1>1 DEF effective, held, undoable
  <1>4. saved_list = shown(disk, tx[p].undo, keyring)
    BY <1>2, <1>3 DEF saved_list, with_secrets, shown
  <1>5. \A r \in Refs : effective(r)' = held(tx'[p].undo, keyring', r)
    BY <1>1 DEF effective, held, undoable
  <1>6. saved_list' = shown(disk', tx'[p].undo, keyring')
    BY <1>2, <1>5 DEF saved_list, with_secrets, shown
  <1> QED  BY <1>4, <1>6

\* A slot in use keeps its meaning while it is overwritten and while that is
\* undone: until the rename nothing is to be seen of the call.
LEMMA NothingShows ==
    ASSUME TypeOK, SafeInv, Healthy, "undo" \notin Faults, NEW p \in Procs,
           Call(p) \/ Proceed(p), ~rename(p), Reversible(tx[p], disk, keyring)
    PROVE  shown(disk', tx'[p].undo, keyring') = shown(disk, tx[p].undo, keyring)
  <1> DEFINE t == tx[p]
             u == tx'[p]
  <1>0. /\ \A i \in DOMAIN disk : disk[i].refs \subseteq FileRefs(disk)
        /\ FileRefs(disk) \subseteq Refs
        /\ t \in Tx /\ Orderly(t) /\ PurgeSafe(t, disk)
    BY RefTypes DEF TypeOK, SafeInv, Safe, FileRefs
  <1>1. SUFFICES /\ disk' = disk
                 /\ \A r \in FileRefs(disk) : held(u.undo, keyring', r) = held(t.undo, keyring, r)
    BY <1>0 DEF shown
  <1>2. CASE Quiet(p)
    <2>1. CASE Remembers(p)  BY <1>2, <2>1 DEF Quiet, Remembers, held
    <2>2. CASE Forgets(p) /\ undoable(t) = {}
      <3>1. \A r \in Refs : u.undo[r] = Untouched /\ t.undo[r] = Untouched
        BY <2>2 DEF Forgets, NoUndo, undoable
      <3> QED  BY <1>0, <1>2, <3>1 DEF Quiet, held
    <2> QED  BY <1>2, <2>1, <2>2 DEF Quiet
  <1>3. CASE Looks(p)
    BY <1>3 DEF Looks, held
  <1>4. CASE put(p)
    <2>1. PICK c \in pending(t) : Puts(p, c)  BY <1>4, PutMoves
    <2>2. c \in Refs /\ t.undo[c] = Untouched /\ t.seen # Untouched
      BY <1>0, SecretAssumption DEF pending, undoable, Orderly, Tx, Slot
    <2>3. c # NoRef  BY <2>2, RefAssumption
    <2>4. c \in FileRefs(disk) => t.seen = keyring[c]
      BY <2>1, <2>3 DEF Puts, Reversible
    <2> QED  BY <1>0, <2>1, <2>2, <2>4 DEF Puts, held
  <1>5. CASE undo(p)
    <2>1. PICK c \in undoable(t) : Undoes(p, c)  BY <1>5, UndoMoves
    <2>2. c \in Refs /\ t.undo[c] # Untouched  BY DEF undoable
    <2> QED  BY <1>0, <2>1, <2>2 DEF Undoes, held
  <1>6. CASE purge(p)
    <2>1. PICK c \in t.purge : Purges(p, c)  BY <1>6, PurgeMoves
    <2>2. c \notin FileRefs(disk)  BY <1>0, <2>1 DEF Purges, PurgeSafe
    <2> QED  BY <1>0, <2>1, <2>2 DEF Purges, held
  <1> QED  BY <1>2, <1>3, <1>4, <1>5, <1>6, QuietMoves, LookMoves DEF Proceed

\* A bundle's entry with the secrets the bundle carries for it.
carried(bundle, entry) ==
    [entry |-> entry, secrets |-> [r \in entry.refs |-> bundle.secrets[r]]]

Store == INSTANCE ConnectionStore WITH
    list <- saved_list,
    Secret <- Values,
    Bundled <- UNION {{carried(bundle, row) : row \in Rows(bundle.entries)} : bundle \in Bundles}

\* What is shown is a sequence with one element for each row.
LEMMA ShownRows ==
    ASSUME NEW file \in Files, NEW undone, NEW keys
    PROVE  LET s == shown(file, undone, keys)
           IN  /\ s \in Seq({s[i] : i \in DOMAIN file})
               /\ Len(s) = Len(file) /\ DOMAIN s = DOMAIN file
               /\ \A i \in DOMAIN file :
                     s[i] = [entry |-> file[i],
                             secrets |-> [r \in file[i].refs |-> held(undone, keys, r)]]
  <1> DEFINE s == shown(file, undone, keys)
  <1>1. Len(file) \in Nat /\ DOMAIN file = 1 .. Len(file)  BY FileDomain
  <1>2. /\ DOMAIN s = DOMAIN file
        /\ \A i \in DOMAIN file :
              s[i] = [entry |-> file[i],
                      secrets |-> [r \in file[i].refs |-> held(undone, keys, r)]]
    BY DEF shown
  <1>3. s = [i \in 1 .. Len(file) |-> s[i]]  BY <1>1 DEF shown
  <1> HIDE DEF s
  <1>4. s \in Seq({s[i] : i \in DOMAIN file})
    <2> DEFINE S == {s[i] : i \in DOMAIN file}
    <2>1. \A i \in 1 .. Len(file) : s[i] \in S  BY <1>1
    <2> HIDE DEF S
    <2>2. [i \in 1 .. Len(file) |-> s[i]] \in Seq(S)  BY <1>1, <2>1
    <2> QED  BY <1>3, <2>2 DEF S
  <1>5. Len(s) = Len(file)  BY <1>1, <1>2, <1>4, LenProperties
  <1> QED  BY <1>2, <1>4, <1>5 DEF s

LEMMA SameSeq ==
    ASSUME NEW S, NEW T, NEW s \in Seq(S), NEW t \in Seq(T), Len(s) = Len(t),
           \A i \in 1 .. Len(s) : s[i] = t[i]
    PROVE  s = t
  <1>1. s \in Seq(S \cup T) /\ t \in Seq(S \cup T)  BY SeqMonotonic
  <1> QED  BY <1>1, SeqEqual

\* The rename shows the new file with its secrets in place, and of each row of a
\* connection the call is not about what was shown before.
OldList(p) == shown(disk, tx[p].undo, keyring)
NewList(p) == shown(tx[p].new, NoUndo, keyring)

LEMMA RenameShows ==
    ASSUME TypeOK, SafeInv, NEW p \in Procs, rename(p)
    PROVE  /\ disk' = tx[p].new /\ keyring' = keyring /\ tx'[p].undo = NoUndo
           /\ tx[p].at = "rename" /\ ~tx[p].doomed /\ pending(tx[p]) = {}
           /\ tx[p].new \in Files /\ Sound(tx[p].new) /\ tx[p] \in Tx
           /\ \A j \in DOMAIN tx[p].new :
                 /\ NewList(p)[j] = [entry |-> tx[p].new[j],
                                     secrets |-> [r \in tx[p].new[j].refs |-> keyring[r]]]
                 /\ \A r \in tx[p].new[j].refs : keyring[r] \in Values
           /\ \A i \in DOMAIN disk, j \in DOMAIN tx[p].new :
                 /\ tx[p].new[j] = disk[i]
                 /\ disk[i].id \notin tx[p].ids \/ undoable(tx[p]) = {}
                 => NewList(p)[j] = OldList(p)[i]
  <1> DEFINE t == tx[p]
  <1>1. /\ t \in Tx /\ t.new \in Files /\ disk \in Files /\ keyring \in [Refs -> Slot]
        /\ Safe(t, disk, keyring) /\ Sound(disk) /\ t.at = "rename"
        /\ disk' = t.new /\ keyring' = keyring
    BY DEF TypeOK, SafeInv, rename, Tx
  <1>2. ~t.doomed /\ pending(t) = {} /\ copying(t) = {} /\ Sound(t.new)
    BY <1>1 DEF Safe, Orderly, NewSound, staged
  <1>3. tx'[p].undo = NoUndo
    BY <1>1, TxFields DEF rename, Step, TypeOK
  <1>4. /\ \A j \in DOMAIN t.new : \A r \in t.new[j].refs : r \in Refs /\ r \in FileRefs(t.new)
        /\ \A i \in DOMAIN disk : \A r \in disk[i].refs : r \in Refs
    BY <1>1, FileDomain DEF Entries, FileRefs
  <1>5. \A r \in FileRefs(t.new) : r \in Refs => keyring[r] \in Values
    <2>1. \A r \in FileRefs(t.new) : r \in Refs => keyring[r] # NoSecret
      BY <1>1, <1>2 DEF Safe, NewComplete, staged, pending, copying
    <2> QED  BY <1>1, <2>1 DEF Slot
  <1>6. \A j \in DOMAIN t.new :
           NewList(p)[j] = [entry |-> t.new[j], secrets |-> [r \in t.new[j].refs |-> keyring[r]]]
    BY <1>4 DEF NewList, shown, held, NoUndo
  <1>7. ASSUME NEW i \in DOMAIN disk, disk[i].id \notin t.ids \/ undoable(t) = {}
        PROVE  OldList(p)[i] = [entry |-> disk[i], secrets |-> [r \in disk[i].refs |-> keyring[r]]]
    <2>1. \A r \in disk[i].refs : ref_owner(r) = disk[i].id  BY <1>1, SoundOwner
    <2>2. \A r \in disk[i].refs : r \notin undoable(t)
      BY <1>1, <1>7, <2>1 DEF Safe, Confined
    <2>3. \A r \in disk[i].refs : held(t.undo, keyring, r) = keyring[r]
      BY <1>4, <2>2 DEF held, undoable
    <2> QED  BY <2>3 DEF OldList, shown
  <1> QED  BY <1>1, <1>2, <1>3, <1>4, <1>5, <1>6, <1>7

\* Both lists are sequences, a row for each element.
LEMMA ListRows ==
    ASSUME TypeOK, NEW p \in Procs
    PROVE  /\ OldList(p) \in Seq({OldList(p)[i] : i \in DOMAIN disk})
           /\ Len(OldList(p)) = Len(disk) /\ DOMAIN OldList(p) = 1 .. Len(disk)
           /\ DOMAIN disk = 1 .. Len(disk) /\ Len(disk) \in Nat
           /\ \A i \in DOMAIN disk : OldList(p)[i].entry = disk[i]
           /\ NewList(p) \in Seq({NewList(p)[i] : i \in DOMAIN tx[p].new})
           /\ Len(NewList(p)) = Len(tx[p].new) /\ DOMAIN NewList(p) = 1 .. Len(tx[p].new)
           /\ DOMAIN tx[p].new = 1 .. Len(tx[p].new) /\ Len(tx[p].new) \in Nat
  <1>1. disk \in Files /\ tx[p].new \in Files  BY DEF TypeOK, Tx
  <1>2. /\ DOMAIN disk = 1 .. Len(disk) /\ Len(disk) \in Nat
        /\ DOMAIN tx[p].new = 1 .. Len(tx[p].new) /\ Len(tx[p].new) \in Nat
    BY <1>1, FileDomain
  <1>3. /\ OldList(p) \in Seq({OldList(p)[i] : i \in DOMAIN disk})
        /\ Len(OldList(p)) = Len(disk) /\ DOMAIN OldList(p) = DOMAIN disk
    <2> DEFINE undone == tx[p].undo
               s == shown(disk, undone, keyring)
    <2>1. disk \in Files /\ OldList(p) = s  BY <1>1 DEF OldList
    <2> HIDE DEF undone
    <2>2. s \in Seq({s[i] : i \in DOMAIN disk}) /\ Len(s) = Len(disk) /\ DOMAIN s = DOMAIN disk
      BY <2>1, ShownRows
    <2> QED  BY <2>1, <2>2
  <1>4. \A i \in DOMAIN disk : OldList(p)[i].entry = disk[i]
    BY DEF OldList, shown
  <1>5. /\ NewList(p) \in Seq({NewList(p)[i] : i \in DOMAIN tx[p].new})
        /\ Len(NewList(p)) = Len(tx[p].new) /\ DOMAIN NewList(p) = DOMAIN tx[p].new
    <2> DEFINE new == tx[p].new
               s == shown(new, NoUndo, keyring)
    <2>1. new \in Files /\ NewList(p) = s  BY <1>1 DEF NewList
    <2> HIDE DEF new
    <2>2. s \in Seq({s[i] : i \in DOMAIN new}) /\ Len(s) = Len(new) /\ DOMAIN s = DOMAIN new
      BY <2>1, ShownRows
    <2> QED  BY <2>1, <2>2 DEF new
  <1> QED  BY <1>2, <1>3, <1>4, <1>5

LEMMA AddsRefine ==
    ASSUME TypeOK, SafeInv, NEW p \in Procs, rename(p), Adds(tx[p], disk),
           saved_list = OldList(p), saved_list' = NewList(p)
    PROVE  Store!Added
  <1> DEFINE t == tx[p]
             n == Len(disk)
             list == OldList(p)
             new == NewList(p)
             S == {new[i] : i \in DOMAIN t.new}
  <1>1. PICK entry \in Entries :
           t.new = Append(disk, entry) /\ t.ids = {entry.id} /\ entry.id \notin entry_ids(disk)
    BY DEF Adds
  <1>2. /\ Len(t.new) = n + 1 /\ t.new[n + 1] = entry /\ \A i \in 1 .. n : t.new[i] = disk[i]
    BY <1>1, AppendProperties DEF TypeOK, Files
  <1>3. /\ n \in Nat /\ DOMAIN disk = 1 .. n /\ DOMAIN t.new = 1 .. n + 1
        /\ Len(list) = n /\ Len(new) = n + 1 /\ new \in Seq(S)
        /\ list \in Seq({list[i] : i \in DOMAIN disk})
        /\ DOMAIN list = 1 .. n
        /\ \A i \in DOMAIN disk : list[i].entry = disk[i]
    BY <1>2, ListRows
  <1>4. \A i \in 1 .. n : new[i] = list[i]
    <2>1. ASSUME NEW i \in 1 .. n PROVE new[i] = list[i]
      <3>1. i \in DOMAIN disk /\ i \in DOMAIN t.new /\ t.new[i] = disk[i]  BY <1>2, <1>3
      <3>2. disk[i].id \notin t.ids  BY <1>1, <3>1 DEF entry_ids
      <3> QED  BY <3>1, <3>2, RenameShows
    <2> QED  BY <2>1
  <1>5. /\ new[n + 1].entry = entry
        /\ \A r \in entry.refs : new[n + 1].secrets[r] \in Values
    <2>1. n + 1 \in DOMAIN t.new /\ t.new[n + 1] = entry  BY <1>2, <1>3
    <2>2. /\ new[n + 1] = [entry |-> t.new[n + 1],
                            secrets |-> [r \in t.new[n + 1].refs |-> keyring[r]]]
          /\ \A r \in t.new[n + 1].refs : keyring[r] \in Values
      BY <2>1, RenameShows
    <2> QED  BY <2>1, <2>2
  <1> HIDE DEF t, list, new, S
  <1>6. SubSeq(new, 1, n) = list
    <2>1. \A i \in 1 .. n : new[i] \in S  BY <1>3 DEF S, t
    <2>2. /\ SubSeq(new, 1, n) \in Seq(S) /\ Len(SubSeq(new, 1, n)) = n
          /\ \A i \in 1 .. n : SubSeq(new, 1, n)[i] = new[i]
      BY <1>3, <2>1, SubSeqProperties
    <2> DEFINE sub == SubSeq(new, 1, n)
               L == {list[i] : i \in DOMAIN disk}
    <2>3. /\ sub \in Seq(S) /\ list \in Seq(L) /\ Len(sub) = Len(list)
          /\ \A i \in 1 .. Len(sub) : sub[i] = list[i]
      BY <1>3, <1>4, <2>2
    <2> HIDE DEF sub, L
    <2> QED  BY <2>3, SameSeq DEF sub
  <1>7. /\ Store!Front(new) = list /\ Store!Last(new) = new[n + 1] /\ new # <<>>
    BY <1>3, <1>6, EmptySeq DEF Store!Front, Store!Last
  <1>8. entry.id \notin {list[i].entry.id : i \in DOMAIN list}
    BY <1>1, <1>3 DEF entry_ids
  <1> QED
    BY <1>5, <1>7, <1>8 DEF Store!Added, Store!ids, Store!complete, list, new

LEMMA EditsRefine ==
    ASSUME TypeOK, SafeInv, NEW p \in Procs, rename(p), Edits(tx[p], disk),
           saved_list = OldList(p), saved_list' = NewList(p)
    PROVE  Store!Changed
  <1> DEFINE t == tx[p]
             list == OldList(p)
             new == NewList(p)
  <1>1. PICK i \in DOMAIN disk :
           /\ t.ids = {disk[i].id} /\ DOMAIN t.new = DOMAIN disk
           /\ t.new[i].id = disk[i].id /\ \A j \in DOMAIN disk \ {i} : t.new[j] = disk[j]
    BY DEF Edits
  <1>2. /\ DOMAIN list = DOMAIN disk /\ DOMAIN new = DOMAIN disk
        /\ \A j \in DOMAIN disk : list[j].entry = disk[j]
    BY <1>1, ListRows
  <1>3. /\ new[i] = [entry |-> t.new[i], secrets |-> [r \in t.new[i].refs |-> keyring[r]]]
        /\ \A r \in t.new[i].refs : keyring[r] \in Values
    BY <1>1, RenameShows
  <1>4. ASSUME NEW j \in DOMAIN disk \ {i} PROVE new[j] = list[j]
    <2>1. disk[j].id \notin t.ids
      BY <1>1 DEF SafeInv, Sound, UniqueIds
    <2> QED  BY <1>1, <2>1, RenameShows
  <1>5. /\ new[i].entry.id = list[i].entry.id
        /\ \A r \in new[i].entry.refs : new[i].secrets[r] \in Values
    BY <1>1, <1>2, <1>3
  <1> HIDE DEF t, list, new
  <1> QED
    BY <1>2, <1>4, <1>5 DEF Store!Changed, Store!complete, list, new

LEMMA DeletesRefine ==
    ASSUME TypeOK, SafeInv, NEW p \in Procs, rename(p), Deletes(tx[p], disk),
           saved_list = OldList(p), saved_list' = NewList(p)
    PROVE  Store!Removed
  <1> DEFINE t == tx[p]
             n == Len(disk)
             list == OldList(p)
             new == NewList(p)
             L == {list[j] : j \in DOMAIN disk}
             N == {new[j] : j \in DOMAIN t.new}
             k(j, i) == IF j < i THEN j ELSE j + 1
  <1>1. PICK i \in DOMAIN disk : t.ids = {disk[i].id} /\ t.new = RemoveAt(disk, i)
    BY DEF Deletes
  <1>2. /\ n \in Nat /\ DOMAIN disk = 1 .. n /\ DOMAIN list = 1 .. n /\ Len(list) = n
        /\ list \in Seq(L) /\ new \in Seq(N) /\ Len(new) = Len(t.new)
        /\ DOMAIN t.new = 1 .. Len(t.new)
    BY ListRows
  <1>3. /\ Len(t.new) = n - 1
        /\ \A j \in 1 .. n - 1 : t.new[j] = disk[k(j, i)]
    <2>1. disk \in Seq(Entries) /\ i \in 1 .. Len(disk)  BY <1>2 DEF TypeOK, Files
    <2>2. /\ Len(RemoveAt(disk, i)) = n - 1
          /\ \A j \in 1 .. n - 1 : RemoveAt(disk, i)[j] = disk[k(j, i)]
      BY <2>1, RemoveAtProperties
    <2> QED  BY <1>1, <2>2
  <1>4. ASSUME NEW j \in 1 .. n - 1 PROVE new[j] = list[k(j, i)]
    <2>1. k(j, i) \in DOMAIN disk /\ k(j, i) # i  BY <1>2
    <2>2. j \in DOMAIN t.new /\ t.new[j] = disk[k(j, i)]  BY <1>2, <1>3
    <2>3. disk[k(j, i)].id \notin t.ids
      BY <1>1, <2>1 DEF SafeInv, Sound, UniqueIds
    <2> HIDE DEF k
    <2> QED  BY <2>1, <2>2, <2>3, RenameShows
  <1> HIDE DEF list, new, L, N, t
  <1>5. /\ RemoveAt(list, i) \in Seq(L) /\ Len(RemoveAt(list, i)) = n - 1
        /\ \A j \in 1 .. n - 1 : RemoveAt(list, i)[j] = list[k(j, i)]
    <2>1. list \in Seq(L) /\ i \in 1 .. Len(list) /\ Len(list) = n  BY <1>2
    <2> QED  BY <2>1, RemoveAtProperties
  <1> DEFINE removed == RemoveAt(list, i)
  <1>6. new = removed
    <2>1. /\ removed \in Seq(L) /\ new \in Seq(N) /\ Len(new) = Len(removed)
          /\ \A j \in 1 .. Len(new) : new[j] = removed[j]
      BY <1>2, <1>3, <1>4, <1>5
    <2> HIDE DEF removed
    <2> QED  BY <2>1, SameSeq
  <1>7. Store!RemoveAt(list, i) = removed  BY DEF Store!RemoveAt, RemoveAt
  <1> QED  BY <1>2, <1>6, <1>7 DEF Store!Removed, list, new

LEMMA MovesRefine ==
    ASSUME TypeOK, SafeInv, NEW p \in Procs, rename(p), Moves(tx[p], disk),
           saved_list = OldList(p), saved_list' = NewList(p)
    PROVE  Store!Moved
  <1> DEFINE t == tx[p]
             n == Len(disk)
             list == OldList(p)
             new == NewList(p)
             L == {list[j] : j \in DOMAIN disk}
             N == {new[j] : j \in DOMAIN t.new}
  <1>1. PICK i \in DOMAIN disk, index \in 0 .. Len(disk) - 1 : t.new = moved(disk, i, index)
    BY DEF Moves
  <1>2. /\ n \in Nat /\ DOMAIN disk = 1 .. n /\ DOMAIN list = 1 .. n /\ Len(list) = n
        /\ list \in Seq(L) /\ new \in Seq(N) /\ Len(new) = Len(t.new)
        /\ DOMAIN t.new = 1 .. Len(t.new)
    BY ListRows
  <1>3. /\ Len(t.new) = n
        /\ \A j \in 1 .. n : /\ Permuted(i, index, j) \in 1 .. n
                             /\ t.new[j] = disk[Permuted(i, index, j)]
    <2>1. disk \in Seq(Entries) /\ i \in 1 .. Len(disk)  BY <1>2 DEF TypeOK, Files
    <2>2. /\ Len(moved(disk, i, index)) = n
          /\ \A j \in 1 .. n : /\ Permuted(i, index, j) \in 1 .. n
                               /\ moved(disk, i, index)[j] = disk[Permuted(i, index, j)]
      BY <2>1, MovedRows
    <2> QED  BY <1>1, <2>2
  <1>4. ASSUME NEW j \in 1 .. n PROVE new[j] = list[Permuted(i, index, j)]
    <2>1. /\ Permuted(i, index, j) \in DOMAIN disk /\ j \in DOMAIN t.new
          /\ t.new[j] = disk[Permuted(i, index, j)] /\ undoable(t) = {}
      BY <1>2, <1>3 DEF Moves
    <2> QED  BY <2>1, RenameShows
  <1> HIDE DEF list, new, L, N, t
  <1> DEFINE there == moved(list, i, index)
  <1>5. /\ there \in Seq(L) /\ Len(there) = n
        /\ \A j \in 1 .. n : there[j] = list[Permuted(i, index, j)]
    <2>1. list \in Seq(L) /\ i \in 1 .. Len(list) /\ index \in 0 .. Len(list) - 1
      BY <1>2
    <2>2. /\ moved(list, i, index) \in Seq(L) /\ Len(moved(list, i, index)) = Len(list)
          /\ \A j \in 1 .. Len(list) :
                moved(list, i, index)[j] = list[Permuted(i, index, j)]
      BY <2>1, MovedRows
    <2> QED  BY <1>2, <2>2
  <1>6. new = there
    <2>1. /\ there \in Seq(L) /\ new \in Seq(N) /\ Len(new) = Len(there)
          /\ \A j \in 1 .. Len(new) : new[j] = there[j]
      BY <1>2, <1>3, <1>4, <1>5
    <2> HIDE DEF there
    <2> QED  BY <2>1, SameSeq
  <1>7. Store!InsertAt(Store!RemoveAt(list, i), index + 1, list[i]) = there
    BY DEF Store!RemoveAt, Store!InsertAt, RemoveAt, InsertAt, moved
  <1>8. index + 1 \in DOMAIN list  BY <1>2
  <1> QED  BY <1>2, <1>6, <1>7, <1>8 DEF Store!Moved, list, new

LEMMA MergesRefine ==
    ASSUME TypeOK, SafeInv, NEW p \in Procs, rename(p), NEW bundle \in Bundles,
           Merges(tx[p], disk, keyring, bundle),
           saved_list = OldList(p), saved_list' = NewList(p)
    PROVE  Store!Merged
  <1> DEFINE t == tx[p]
             list == OldList(p)
             new == NewList(p)
             Bundled == UNION {{carried(b, row) : row \in Rows(b.entries)} : b \in Bundles}
  <1>1. /\ Len(disk) \in Nat /\ DOMAIN disk = 1 .. Len(disk) /\ DOMAIN list = 1 .. Len(disk)
        /\ Len(list) = Len(disk) /\ \A i \in DOMAIN disk : list[i].entry = disk[i]
        /\ Len(new) = Len(t.new) /\ DOMAIN t.new = 1 .. Len(t.new) /\ Len(t.new) \in Nat
        /\ Len(disk) <= Len(t.new)
    BY ListRows DEF Merges
  <1>2. pending(t) = {} /\ \A r : due(t, keyring, r) = keyring[r]
    BY RenameShows DEF due
  <1>3. ASSUME NEW i \in DOMAIN t.new
        PROVE  \/ i \in DOMAIN disk /\ new[i] = list[i]
               \/ /\ new[i] \in Bundled /\ new[i].entry = t.new[i]
                  /\ IF i \in DOMAIN disk THEN t.new[i].id = disk[i].id
                                          ELSE t.new[i].id \notin entry_ids(disk)
    <2>1. CASE i \in DOMAIN disk /\ t.new[i] = disk[i] /\ disk[i].id \notin t.ids
      <3>1. new[i] = list[i]  BY <2>1, RenameShows
      <3> QED  BY <2>1, <3>1
    <2>2. CASE /\ t.new[i] \in Rows(bundle.entries)
               /\ IF i \in DOMAIN disk THEN t.new[i].id = disk[i].id
                                       ELSE t.new[i].id \notin entry_ids(disk)
               /\ \A r \in t.new[i].refs : due(t, keyring, r) = bundle.secrets[r]
      <3>1. new[i] = [entry |-> t.new[i], secrets |-> [r \in t.new[i].refs |-> keyring[r]]]
        BY RenameShows
      <3>2. new[i] = carried(bundle, t.new[i])
        BY <1>2, <2>2, <3>1 DEF carried
      <3>3. new[i] \in Bundled  BY <2>2, <3>2
      <3> QED  BY <2>2, <3>1, <3>3
    <2> QED  BY <2>1, <2>2 DEF Merges
  <1>4. {list[i].entry.id : i \in DOMAIN list} = entry_ids(disk)
    BY <1>1 DEF entry_ids
  <1> HIDE DEF list, new, t, Bundled
  <1>5. \A i \in DOMAIN list :
           new[i] = list[i] \/ (new[i] \in Bundled /\ new[i].entry.id = list[i].entry.id)
    <2> SUFFICES ASSUME NEW i \in DOMAIN list
                 PROVE  \/ new[i] = list[i]
                        \/ new[i] \in Bundled /\ new[i].entry.id = list[i].entry.id
      OBVIOUS
    <2>1. i \in DOMAIN t.new /\ i \in DOMAIN disk /\ list[i].entry = disk[i]  BY <1>1
    <2> QED  BY <1>3, <2>1
  <1>6. \A i \in (Len(list) + 1) .. Len(new) :
           new[i] \in Bundled /\ new[i].entry.id \notin entry_ids(disk)
    <2> SUFFICES ASSUME NEW i \in (Len(list) + 1) .. Len(new)
                 PROVE  new[i] \in Bundled /\ new[i].entry.id \notin entry_ids(disk)
      OBVIOUS
    <2>1. i \in DOMAIN t.new /\ i \notin DOMAIN disk  BY <1>1
    <2> QED  BY <1>3, <2>1
  <1>7. Len(new) >= Len(list)  BY <1>1
  <1> QED
    BY <1>4, <1>5, <1>6, <1>7 DEF Store!Merged, Store!ids, list, new, Bundled

\* Every behaviour of a healthy instance whose rollbacks work, and in which no
\* process dies inside a call, is one of ConnectionStore: each call takes effect
\* whole, when its file replaces the old one, or not at all, whatever else fails.
THEOREM CallsAreAtomic ==
    ASSUME Healthy, "undo" \notin Faults, Crashes = FALSE
    PROVE  Spec => Store!Spec
  <1> DEFINE PlanInv == \A p \in Procs : /\ Planned(tx[p], disk, keyring)
                                         /\ Reversible(tx[p], disk, keyring)
  <1>1. Init => Store!Init
    BY DEF Init, Store!Init, saved_list
  <1>2. Init => PlanInv
    <2> SUFFICES ASSUME Init, NEW p \in Procs
                 PROVE  Planned(tx[p], disk, keyring) /\ Reversible(tx[p], disk, keyring)
      OBVIOUS
    <2>1. FileRefs(disk) = {} /\ tx[p] = Idle  BY DEF Init, FileRefs
    <2>2. Idle.at = "idle"  BY DEF Idle
    <2> QED  BY <2>1, <2>2, IdleForgets DEF Reversible, Planned, staged
  <1>3. TypeOK /\ SafeInv /\ PlanInv /\ [Next]_vars => PlanInv'
    <2> SUFFICES ASSUME TypeOK, SafeInv, PlanInv, [Next]_vars PROVE PlanInv'  OBVIOUS
    <2>1. CASE UNCHANGED vars
      <3>1. UNCHANGED <<disk, tmp, keyring, tx>>  BY <2>1 DEF vars
      <3> QED  BY <3>1
    <2>2. CASE Next
      <3>1. PICK p \in Procs : Call(p) \/ Proceed(p) \/ crash(p)  BY <2>2 DEF Next
      <3>2. Reversible(tx'[p], disk', keyring')  BY <3>1, ReversibleKept
      <3>3. Planned(tx'[p], disk', keyring')
        <4>1. CASE Call(p)  BY <4>1, CallFrame, CallPlanned DEF Begun
        <4>2. CASE Proceed(p) \/ crash(p)  BY <4>2, PlannedKept
        <4> QED  BY <3>1, <4>1, <4>2
      <3> QED  BY <3>2, <3>3 DEF Healthy, OneWriter
    <2> QED  BY <2>1, <2>2
  <1>4. TypeOK /\ TypeOK' /\ SafeInv /\ PlanInv /\ [Next]_vars => [Store!Next]_saved_list
    <2> SUFFICES ASSUME TypeOK, TypeOK', SafeInv, PlanInv, [Next]_vars
                 PROVE  Store!Next \/ saved_list' = saved_list
      OBVIOUS
    <2>1. CASE UNCHANGED vars
      <3>1. UNCHANGED <<disk, tmp, keyring, tx>>  BY <2>1 DEF vars
      <3> QED  BY <3>1 DEF saved_list, with_secrets, effective, undoable
    <2>2. CASE Next
      <3>1. PICK p \in Procs : Call(p) \/ Proceed(p)  BY <2>2 DEF Next, crash
      <3>2. /\ saved_list = OldList(p)
            /\ saved_list' = shown(disk', tx'[p].undo, keyring')
        BY SavedIsShown DEF Healthy, OldList
      <3>3. CASE ~rename(p)
        <4>1. shown(disk', tx'[p].undo, keyring') = shown(disk, tx[p].undo, keyring)
          BY <3>1, <3>3, NothingShows
        <4> QED  BY <3>2, <4>1 DEF OldList
      <3>4. CASE rename(p)
        <4>1. saved_list' = NewList(p)
          BY <3>2, <3>4, RenameShows DEF NewList
        <4>2. \/ Adds(tx[p], disk) \/ Edits(tx[p], disk) \/ Deletes(tx[p], disk)
              \/ Moves(tx[p], disk)
              \/ \E bundle \in Bundles : Merges(tx[p], disk, keyring, bundle)
          BY <3>4, RenameShows DEF Planned, staged
        <4> QED
          BY <3>2, <3>4, <4>1, <4>2, AddsRefine, EditsRefine, DeletesRefine, MovesRefine,
             MergesRefine DEF Store!Next
      <3> QED  BY <3>3, <3>4
    <2> QED  BY <2>1, <2>2
  <1> QED
    BY <1>1, <1>2, <1>3, <1>4, AlwaysSafe, TypeCorrect, PTL DEF Spec, Store!Spec
===============================================================================
