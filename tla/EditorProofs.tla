----------------------------- MODULE EditorProofs -----------------------------
(***************************************************************************)
(* What is proved of the two editors of the desktop page.                  *)
(*                                                                         *)
(* Browse, for any rows, sizes of a page, places and numbers of writes by  *)
(* other clients: the next page is the rows that follow, and an edit       *)
(* reaches the row it was made on.                                         *)
(*                                                                         *)
(* ConnectionForm, for any of its kinds, any number of forms opened and of *)
(* fields changed in them: every secret an entry refers to is stored, and  *)
(* a save changes what the user changed and nothing else.                  *)
(***************************************************************************)
EXTENDS Browse, ConnectionForm, TLAPS, FiniteSetTheorems

\* The keys are numbers the page carries there and back.
KeysAssumption ==
    /\ Keys \subseteq Nat /\ IsFiniteSet(Keys)
    /\ \A k \in Keys : through_the_page(k) = k

LimitsAssumption == RowLimits \subseteq Nat \ {0}

PlacesAssumption == "none" \notin Places

-------------------------------------------------------------------------------
(***************************************************************************)
(* The pages: what is on screen, and the trail of cursors to it.           *)
(***************************************************************************)
Page == [rows : Seq(Keys), next : Int]

Grids == [origin : Places \cup {"none"}, table : BOOLEAN, rows : Seq(Keys), next : Int,
          trail : Seq(Int), index : Nat \ {0}, pk : BOOLEAN]
Calls == [at : {"none", "asked", "answered", "described", "running"},
          origin : Places \cup {"none"}, index : Nat \ {0}, answer : Page]

BrowseTypes ==
    /\ tables \in [Places -> [Keys -> {Absent, Old, Edited}]]
    /\ keyed \in BOOLEAN /\ selected \in Places
    /\ grid \in Grids /\ call \in Calls

\* A cursor is the last of the rows before it.
LastOf(rows, next) == next # NoCursor => rows # <<>> /\ next = rows[Len(rows)]

\* The trail leads to the page behind the one on screen, where there is one.
TrailGoesOn ==
    /\ Len(grid.trail) = grid.index + 1
    /\ LastOf(grid.rows, grid.next) /\ grid.trail[grid.index + 1] = grid.next

page_read == call.at \in {"asked", "answered"}

\* While a page is read for the table on screen its cursor is in the trail, and
\* if it is the page behind this one, there is one.
TrailInv ==
    /\ grid.index <= Len(grid.trail)
    /\ grid.table => grid.origin \in Places
    /\ busy => call.origin \in Places
    /\ LastOf(call.answer.rows, call.answer.next)
    /\ call.at = "running" => ~ grid.table
    /\ page_read /\ grid.table => grid.origin = call.origin
    /\ page_read /\ grid.origin = call.origin =>
          /\ call.index <= Len(grid.trail)
          /\ call.index = grid.index + 1 => TrailGoesOn /\ grid.next # NoCursor
    /\ ~ page_read /\ grid.table => TrailGoesOn

PagesInv == BrowseTypes /\ TrailInv

\* What the engine may answer: the rows of a page, in the order of their keys
\* and with none before its last one missing.
LEMMA PagesFollow ==
    ASSUME KeysAssumption, LimitsAssumption, keyed \in BOOLEAN,
           NEW table \in [Keys -> {Absent, Old, Edited}], NEW cursor \in Int,
           NEW limit \in RowLimits, NEW answer \in browse_page(table, cursor, limit)
    PROVE  /\ answer \in Page /\ LastOf(answer.rows, answer.next)
           /\ ToSet(answer.rows) \subseteq after(table, cursor)
           /\ keyed => \A k \in after(table, cursor) \ ToSet(answer.rows) :
                          \A p \in ToSet(answer.rows) : p < k
           /\ after(table, cursor) # {} => ToSet(answer.rows) # {}
  <1> DEFINE found == after(table, cursor)
             n == IF limit + 1 < Cardinality(found) THEN limit + 1 ELSE Cardinality(found)
  <1>1. PICK rows \in select_page(table, cursor, limit + 1) : answer = page_of(rows, limit)
    BY DEF browse_page
  <1>2. found \subseteq Keys /\ IsFiniteSet(found)
    <2>1. found \subseteq Keys  BY DEF after, rows_of
    <2> QED  BY <2>1, FS_Subset DEF KeysAssumption
  <1>3. Cardinality(found) \in Nat /\ (found # {} => Cardinality(found) # 0)
    BY <1>2, FS_CardinalityType, FS_EmptySet
  <1>4. limit \in Nat /\ limit # 0  BY DEF LimitsAssumption
  <1>5. n \in Nat /\ n <= limit + 1  BY <1>3, <1>4
  <1>6. /\ rows \in [1 .. n -> found]
        /\ keyed => \A i \in 1 .. n : \A k \in found : k < rows[i] => \E j \in 1 .. i - 1 : rows[j] = k
    BY <1>1 DEF select_page
  <1>7. rows \in Seq(found) /\ Len(rows) = n  BY <1>5, <1>6
  <1> DEFINE m == IF limit < n THEN limit ELSE n
             page == SubSeq(rows, 1, m)
  <1>8. m \in Nat /\ m <= n /\ (n # 0 => m # 0)  BY <1>4, <1>5
  <1>9. /\ answer.rows = page
        /\ answer.next = IF n > limit /\ keyed THEN through_the_page(page[Len(page)]) ELSE NoCursor
        /\ answer = [rows |-> answer.rows, next |-> answer.next]
    BY <1>1, <1>7 DEF page_of, cursor_from_last_row
  <1>10. n = 0 => found = {}  BY <1>3, <1>4
  <1> HIDE DEF n, m, found
  <1>11. /\ page \in Seq(found) /\ Len(page) = m
         /\ \A i \in 1 .. m : page[i] = rows[i] /\ page[i] \in found
    BY <1>5, <1>6, <1>7, <1>8
  <1>12. ToSet(page) = {rows[i] : i \in 1 .. m}
    <2>1. DOMAIN page = 1 .. m  BY <1>11
    <2> HIDE DEF page
    <2> QED  BY <1>11, <2>1 DEF ToSet
  <1> HIDE DEF page
  <1>13. ToSet(page) \subseteq found  BY <1>11, <1>12
  <1>14. ASSUME keyed, NEW k \in found \ ToSet(page), NEW p \in ToSet(page) PROVE p < k
    <2>1. PICK i \in 1 .. m : p = rows[i]  BY <1>12
    <2>2. i \in 1 .. n  BY <1>5, <1>8
    <2>3. ~ (k < p)
      <3> SUFFICES ASSUME k < p PROVE FALSE  OBVIOUS
      <3>1. PICK j \in 1 .. i - 1 : rows[j] = k  BY <1>6, <1>14, <2>1, <2>2
      <3>2. j \in 1 .. m  BY <1>8
      <3> QED  BY <1>12, <1>14, <3>1, <3>2
    <2>4. k \in Nat /\ p \in Nat /\ p # k  BY <1>2, <1>13, <1>14 DEF KeysAssumption
    <2> QED  BY <2>3, <2>4
  <1>15. found # {} => ToSet(page) # {}
    <2> SUFFICES ASSUME found # {} PROVE ToSet(page) # {}  OBVIOUS
    <2>1. 1 \in 1 .. m  BY <1>8, <1>10
    <2> QED  BY <1>12, <2>1
  <1>16. answer \in Page /\ LastOf(answer.rows, answer.next)
    <2>1. page \in Seq(Keys)  BY <1>2, <1>5, <1>8, <1>11
    <2>2. CASE n > limit /\ keyed
      <3>1. m \in 1 .. m /\ page # <<>>  BY <1>4, <1>8, <1>11, <2>2 DEF m
      <3>2. page[m] \in Keys /\ through_the_page(page[m]) = page[m] /\ page[m] \in Int
        <4>1. page[m] \in Keys  BY <1>2, <1>11, <3>1
        <4> DEFINE last == page[m]
        <4> HIDE DEF last
        <4>2. last \in Keys => through_the_page(last) = last /\ last \in Int
          BY DEF KeysAssumption
        <4> QED  BY <4>1, <4>2 DEF last
      <3> QED  BY <1>9, <1>11, <2>1, <2>2, <3>1, <3>2 DEF Page, LastOf
    <2>3. CASE ~ (n > limit /\ keyed)  BY <1>9, <2>1, <2>3 DEF Page, LastOf, NoCursor
    <2> QED  BY <2>2, <2>3
  <1> QED  BY <1>9, <1>13, <1>14, <1>15, <1>16 DEF found

LEMMA Blanks ==
    /\ Blank \in Grids /\ Blank.origin = "none" /\ ~ Blank.table /\ Blank.index = 1
    /\ Len(Blank.trail) = 1 /\ Blank.rows = <<>>
    /\ NoCall \in Calls /\ NoCall.at = "none" /\ LastOf(NoCall.answer.rows, NoCall.answer.next)
  <1>1. <<>> \in Seq(Keys) /\ NoCursor \in Int /\ <<NoCursor>> \in Seq(Int) /\ Len(<<NoCursor>>) = 1
    BY DEF NoCursor
  <1>2. [rows |-> <<>>, next |-> NoCursor] \in Page  BY <1>1 DEF Page
  <1> QED  BY <1>1, <1>2 DEF Blank, NoCall, Grids, Calls, LastOf

LEMMA PagesBegin == BrowseInit /\ PlacesAssumption => PagesInv
  <1> SUFFICES ASSUME BrowseInit, PlacesAssumption PROVE PagesInv  OBVIOUS
  <1>1. BrowseTypes  BY Blanks DEF BrowseInit, BrowseTypes
  <1>2. TrailInv  BY Blanks DEF BrowseInit, TrailInv, page_read, busy
  <1> QED  BY <1>1, <1>2 DEF PagesInv

\* A read is asked for in a place, for a page that may exist.
LEMMA Asks ==
    ASSUME NEW at \in {"asked", "running"}, NEW origin \in Places, NEW index \in Nat \ {0}
    PROVE  LET c == asked(at, origin, index)
           IN  /\ c \in Calls /\ c.at = at /\ c.origin = origin /\ c.index = index
               /\ LastOf(c.answer.rows, c.answer.next)
  BY Blanks DEF asked, Calls, NoCall, Page

LEMMA Anew ==
    ASSUME grid \in Grids, selected \in Places, NEW table \in BOOLEAN
    PROVE  LET g == starts_anew(table)
           IN  /\ g \in Grids /\ g.origin = selected /\ g.table = table /\ g.index = 1
               /\ Len(g.trail) = 1 /\ g.rows = grid.rows /\ g.next = grid.next
  <1> DEFINE start == <<NoCursor>>
             there == [grid EXCEPT !.origin = selected]
             that == [there EXCEPT !.table = table]
             begun == [that EXCEPT !.trail = start]
             first == [begun EXCEPT !.index = 1]
             g == [first EXCEPT !.pk = FALSE]
  <1>1. start \in Seq(Int) /\ Len(start) = 1  BY DEF NoCursor
  <1>2. starts_anew(table) = g  BY DEF starts_anew
  <1> HIDE DEF start
  <1>3. there \in Grids  BY DEF Grids
  <1>4. that \in Grids /\ that.table = table
    <2> HIDE DEF there
    <2> QED  BY <1>3 DEF Grids
  <1>5. begun \in Grids
    <2> HIDE DEF that
    <2> QED  BY <1>1, <1>4 DEF Grids
  <1>6. first \in Grids
    <2> DEFINE one == 1
    <2>1. one \in Nat \ {0}  OBVIOUS
    <2> HIDE DEF begun, one
    <2>2. [begun EXCEPT !.index = one] \in Grids  BY <1>5, <2>1 DEF Grids
    <2> QED  BY <2>2 DEF one
  <1>7. g \in Grids
    <2> HIDE DEF first
    <2> QED  BY <1>6 DEF Grids
  <1>8. /\ g.origin = selected /\ g.index = 1 /\ g.trail = start /\ g.rows = grid.rows
        /\ g.next = grid.next
    BY DEF Grids
  <1>9. g.table = table  BY DEF Grids
  <1> QED  BY <1>1, <1>2, <1>7, <1>8, <1>9

LEMMA SelectKeepsPages ==
    ASSUME PlacesAssumption, PagesInv, NEW p \in Places, select_place(p) PROVE PagesInv'
  <1>1. CASE UNCHANGED grid
    <2>1. BrowseTypes'  BY <1>1 DEF PagesInv, BrowseTypes, select_place
    <2>2. TrailInv'  BY <1>1 DEF PagesInv, TrailInv, TrailGoesOn, page_read, busy, select_place
    <2> QED  BY <2>1, <2>2 DEF PagesInv
  <1>2. CASE grid' = Blank
    <2>1. BrowseTypes'  BY <1>2, Blanks DEF PagesInv, BrowseTypes, select_place
    <2>2. TrailInv'
      BY <1>2, Blanks DEF PagesInv, BrowseTypes, TrailInv, page_read, busy, select_place, PlacesAssumption
    <2> QED  BY <2>1, <2>2 DEF PagesInv
  <1> QED  BY <1>1, <1>2 DEF select_place

LEMMA BrowseKeepsPages ==
    ASSUME PagesInv, start_browse PROVE PagesInv'
  <1>1. grid \in Grids /\ selected \in Places  BY DEF PagesInv, BrowseTypes
  <1>2. grid' = starts_anew(TRUE) /\ call' = asked("asked", selected, 1)  BY DEF start_browse
  <1>5. /\ grid' \in Grids /\ grid'.origin = selected /\ grid'.table /\ grid'.index = 1
        /\ Len(grid'.trail) = 1
    <2>1. TRUE \in BOOLEAN  OBVIOUS
    <2> QED  BY <1>1, <1>2, <2>1, Anew
  <1>6. /\ call' \in Calls /\ call'.at = "asked" /\ call'.origin = selected /\ call'.index = 1
        /\ LastOf(call'.answer.rows, call'.answer.next)
    BY <1>1, <1>2, Asks
  <1>3. BrowseTypes'  BY <1>5, <1>6 DEF PagesInv, BrowseTypes, start_browse
  <1>4. TrailInv'  BY <1>1, <1>5, <1>6 DEF TrailInv, page_read, busy
  <1> QED  BY <1>3, <1>4 DEF PagesInv

LEMMA ExecuteKeepsPages ==
    ASSUME PagesInv, executes, UNCHANGED <<keyed, selected>>,
           tables' \in [Places -> [Keys -> {Absent, Old, Edited}]]
    PROVE  PagesInv'
  <1>1. grid \in Grids /\ selected \in Places  BY DEF PagesInv, BrowseTypes
  <1>2. grid' = starts_anew(FALSE) /\ call' = asked("running", selected, 1)  BY DEF executes
  <1>5. /\ grid' \in Grids /\ grid'.origin = selected /\ ~ grid'.table /\ grid'.index = 1
        /\ Len(grid'.trail) = 1
    <2>1. FALSE \in BOOLEAN  OBVIOUS
    <2> QED  BY <1>1, <1>2, <2>1, Anew
  <1>6. /\ call' \in Calls /\ call'.at = "running" /\ call'.origin = selected /\ call'.index = 1
        /\ LastOf(call'.answer.rows, call'.answer.next)
    BY <1>1, <1>2, Asks
  <1>3. BrowseTypes'  BY <1>5, <1>6 DEF PagesInv, BrowseTypes
  <1>4. TrailInv'  BY <1>1, <1>5, <1>6 DEF TrailInv, page_read, busy
  <1> QED  BY <1>3, <1>4 DEF PagesInv

\* A page of the table on screen: the one before, the one behind, or itself.
LEMMA AskingKeepsPages ==
    ASSUME PagesInv, ~ busy, grid.table, UNCHANGED <<keyed, selected, grid>>,
           tables' \in [Places -> [Keys -> {Absent, Old, Edited}]],
           NEW index \in Nat \ {0}, call' = asked("asked", grid.origin, index),
           index <= grid.index \/ (index = grid.index + 1 /\ grid.next # NoCursor)
    PROVE  PagesInv'
  <1>1. grid \in Grids /\ grid.origin \in Places /\ TrailGoesOn
    BY DEF PagesInv, BrowseTypes, TrailInv, page_read, busy
  <1>2. /\ call' \in Calls /\ call'.at = "asked" /\ call'.origin = grid.origin /\ call'.index = index
        /\ LastOf(call'.answer.rows, call'.answer.next)
    BY <1>1, Asks
  <1>3. BrowseTypes'  BY <1>2 DEF PagesInv, BrowseTypes
  <1>4. grid.index \in Nat /\ Len(grid.trail) \in Nat  BY <1>1 DEF Grids
  <1>5. TrailInv'
    BY <1>1, <1>2, <1>4 DEF PagesInv, TrailInv, TrailGoesOn, page_read, busy
  <1> QED  BY <1>3, <1>5 DEF PagesInv

LEMMA TurnKeepsPages ==
    ASSUME PagesInv, turn_page PROVE PagesInv'
  <1>1. grid.index \in Nat \ {0} /\ tables \in [Places -> [Keys -> {Absent, Old, Edited}]]
    BY DEF PagesInv, BrowseTypes, Grids
  <1>2. CASE grid.next # NoCursor /\ call' = asked("asked", grid.origin, grid.index + 1)
    BY <1>1, <1>2, AskingKeepsPages DEF turn_page
  <1>3. CASE grid.index > 1 /\ call' = asked("asked", grid.origin, grid.index - 1)
    <2>1. grid.index - 1 \in Nat \ {0} /\ grid.index - 1 <= grid.index  BY <1>1, <1>3
    <2> QED  BY <1>1, <1>3, <2>1, AskingKeepsPages DEF turn_page
  <1> QED  BY <1>2, <1>3 DEF turn_page

\* The answer to a page that is asked for, and the rows it may be of.
LEMMA EngineAnswers ==
    ASSUME KeysAssumption, LimitsAssumption, PagesInv, engine_reads, grid.origin = call.origin
    PROVE  \E answer \in Page :
              /\ LastOf(answer.rows, answer.next)
              /\ call' = [call EXCEPT !.at = "answered", !.answer = answer]
              /\ LET found == after(tables[call.origin], the_cursor)
                 IN  /\ ToSet(answer.rows) \subseteq found
                     /\ keyed => \A k \in found \ ToSet(answer.rows) :
                                    \A p \in ToSet(answer.rows) : p < k
                     /\ found # {} => ToSet(answer.rows) # {}
  <1>0. PICK limit \in RowLimits :
           \E answer \in browse_page(tables[call.origin], the_cursor, limit) :
              call' = [call EXCEPT !.at = "answered", !.answer = answer]
    BY DEF engine_reads
  <1>1. PICK answer \in browse_page(tables[call.origin], the_cursor, limit) :
           call' = [call EXCEPT !.at = "answered", !.answer = answer]
    BY <1>0
  <1>2. /\ call.origin \in Places /\ call.index \in Nat \ {0} /\ call.index <= Len(grid.trail)
        /\ grid.trail \in Seq(Int)
    BY DEF PagesInv, BrowseTypes, TrailInv, Grids, Calls, busy, page_read, engine_reads
  <1>3. tables[call.origin] \in [Keys -> {Absent, Old, Edited}] /\ the_cursor \in Int /\ keyed \in BOOLEAN
    BY <1>2 DEF PagesInv, BrowseTypes, the_cursor
  <1> QED  BY <1>1, <1>3, PagesFollow

LEMMA ReadKeepsPages ==
    ASSUME KeysAssumption, LimitsAssumption, PagesInv, engine_reads PROVE PagesInv'
  <1>1. \E answer \in Page : /\ LastOf(answer.rows, answer.next)
                             /\ call' = [call EXCEPT !.at = "answered", !.answer = answer]
    <2>1. CASE grid.origin = call.origin  BY <2>1, EngineAnswers
    <2>2. CASE grid.origin # call.origin
      <3>1. call \in Calls /\ LastOf(call.answer.rows, call.answer.next)
        BY DEF PagesInv, BrowseTypes, TrailInv
      <3>2. call' = [call EXCEPT !.at = "answered", !.answer = call.answer]
        BY <2>2, <3>1 DEF engine_reads, Calls
      <3> QED  BY <3>1, <3>2 DEF Calls
    <2> QED  BY <2>1, <2>2
  <1>2. PICK answer \in Page : /\ LastOf(answer.rows, answer.next)
                              /\ call' = [call EXCEPT !.at = "answered", !.answer = answer]
    BY <1>1
  <1>3. /\ call \in Calls /\ call' \in Calls /\ call'.at = "answered" /\ call'.origin = call.origin
        /\ call'.index = call.index /\ call'.answer = answer
    BY <1>2 DEF PagesInv, BrowseTypes, Calls
  <1>4. BrowseTypes'  BY <1>3 DEF PagesInv, BrowseTypes, engine_reads
  <1>5. TrailInv'
    BY <1>2, <1>3 DEF PagesInv, TrailInv, TrailGoesOn, page_read, busy, engine_reads
  <1> QED  BY <1>4, <1>5 DEF PagesInv

\* The trail up to a page, and the cursor behind it.
LEMMA Advanced ==
    ASSUME NEW trail \in Seq(Int), NEW index \in 1 .. Len(trail), NEW next \in Int
    PROVE  LET t == advance_trail(trail, index, next)
           IN  t \in Seq(Int) /\ Len(t) = index + 1 /\ t[index + 1] = next
  <1>1. SubSeq(trail, 1, index) \in Seq(Int) /\ Len(SubSeq(trail, 1, index)) = index  OBVIOUS
  <1> DEFINE s == SubSeq(trail, 1, index)
  <1> HIDE DEF s
  <1>2. s \in Seq(Int) /\ Len(s) = index => /\ Append(s, next) \in Seq(Int)
                                          /\ Len(Append(s, next)) = index + 1
                                          /\ Append(s, next)[index + 1] = next
    OBVIOUS
  <1> QED  BY <1>1, <1>2 DEF advance_trail, s

LEMMA ArrivalKeepsPages ==
    ASSUME PagesInv, rows_arrive PROVE PagesInv'
  <1>1. grid \in Grids /\ call \in Calls /\ call.at = "answered" /\ call.origin \in Places
    BY DEF PagesInv, BrowseTypes, TrailInv, busy, rows_arrive
  <1>2. CASE grid.origin = call.origin
    <2>1. call.index \in 1 .. Len(grid.trail)
      BY <1>1, <1>2 DEF PagesInv, TrailInv, page_read, Calls, Grids
    <2>2. call.answer \in Page /\ LastOf(call.answer.rows, call.answer.next)
      BY <1>1 DEF PagesInv, TrailInv, Calls
    <2> DEFINE t == advance_trail(grid.trail, call.index, call.answer.next)
    <2>3. t \in Seq(Int) /\ Len(t) = call.index + 1 /\ t[call.index + 1] = call.answer.next
      <3>1. grid.trail \in Seq(Int)  BY <1>1 DEF Grids
      <3>2. call.answer.next \in Int  BY <2>2 DEF Page
      <3> QED  BY <2>1, <3>1, <3>2, Advanced
    <2> HIDE DEF t
    <2>4. grid' = [grid EXCEPT !.rows = call.answer.rows, !.next = call.answer.next,
                               !.index = call.index, !.trail = t]
      BY <1>2 DEF rows_arrive, t
    <2>5. /\ grid' \in Grids /\ grid'.rows = call.answer.rows /\ grid'.next = call.answer.next
          /\ grid'.index = call.index /\ grid'.trail = t /\ grid'.table = grid.table
          /\ grid'.origin = grid.origin
      BY <1>1, <2>2, <2>3, <2>4 DEF Grids, Page, Calls
    <2>6. call' \in Calls /\ call'.at = "described" /\ call'.origin = call.origin
          /\ LastOf(call'.answer.rows, call'.answer.next)
      BY <1>1, <1>2, Blanks DEF rows_arrive, Calls, NoCall
    <2>7. BrowseTypes'  BY <2>5, <2>6 DEF PagesInv, BrowseTypes, rows_arrive
    <2>8. TrailInv'
      <3>1. call.index \in Nat  BY <1>1 DEF Calls
      <3> QED  BY <1>1, <1>2, <2>2, <2>3, <2>5, <2>6, <3>1
               DEF PagesInv, TrailInv, TrailGoesOn, page_read, busy
    <2> QED  BY <2>7, <2>8 DEF PagesInv
  <1>3. CASE grid.origin # call.origin
    <2>1. call' = NoCall /\ UNCHANGED grid /\ ~ grid.table
      BY <1>1, <1>3 DEF rows_arrive, PagesInv, TrailInv, page_read
    <2>2. BrowseTypes'  BY <2>1, Blanks DEF PagesInv, BrowseTypes, rows_arrive
    <2>3. TrailInv'  BY <2>1, Blanks DEF PagesInv, TrailInv, page_read, busy
    <2> QED  BY <2>2, <2>3 DEF PagesInv
  <1> QED  BY <1>2, <1>3

LEMMA DescriptionKeepsPages ==
    ASSUME PagesInv, described PROVE PagesInv'
  <1>1. PICK told \in BOOLEAN : grid' = [grid EXCEPT !.pk = keyed /\ told]  BY DEF described
  <1>2. grid \in Grids /\ keyed \in BOOLEAN /\ call.at = "described" /\ call' = NoCall
    BY DEF PagesInv, BrowseTypes, described
  <1>3. /\ grid' \in Grids /\ grid'.rows = grid.rows /\ grid'.next = grid.next
        /\ grid'.index = grid.index /\ grid'.trail = grid.trail /\ grid'.table = grid.table
        /\ grid'.origin = grid.origin
    BY <1>1, <1>2 DEF Grids
  <1>4. BrowseTypes'  BY <1>2, <1>3, Blanks DEF PagesInv, BrowseTypes, described
  <1>5. TrailInv'
    BY <1>2, <1>3, Blanks DEF PagesInv, TrailInv, TrailGoesOn, page_read, busy
  <1> QED  BY <1>4, <1>5 DEF PagesInv

LEMMA FailureKeepsPages ==
    ASSUME PlacesAssumption, PagesInv, read_fails PROVE PagesInv'
  <1>1. call.at = "asked" /\ call' = NoCall  BY DEF read_fails
  <1>2. CASE grid.origin = call.origin
    <2>1. grid' = Blank  BY <1>2 DEF read_fails
    <2>2. BrowseTypes'  BY <1>1, <2>1, Blanks DEF PagesInv, BrowseTypes, read_fails
    <2>3. TrailInv'  BY <1>1, <2>1, Blanks DEF TrailInv, page_read, busy
    <2> QED  BY <2>2, <2>3 DEF PagesInv
  <1>3. CASE grid.origin # call.origin
    <2>1. UNCHANGED grid /\ ~ grid.table
      BY <1>1, <1>3 DEF read_fails, PagesInv, TrailInv, page_read
    <2>2. BrowseTypes'  BY <1>1, <2>1, Blanks DEF PagesInv, BrowseTypes, read_fails
    <2>3. TrailInv'  BY <1>1, <2>1, Blanks DEF PagesInv, TrailInv, page_read, busy
    <2> QED  BY <2>2, <2>3 DEF PagesInv
  <1> QED  BY <1>2, <1>3

LEMMA StatementKeepsPages ==
    ASSUME PagesInv, statement_ends PROVE PagesInv'
  <1>1. grid \in Grids /\ ~ grid.table /\ call' = NoCall
    BY DEF PagesInv, BrowseTypes, TrailInv, statement_ends
  <1>2. /\ grid' \in Grids /\ grid'.table = grid.table /\ grid'.index = grid.index
        /\ grid'.trail = grid.trail
    <2>1. CASE UNCHANGED grid  BY <1>1, <2>1
    <2>2. CASE grid' = [grid EXCEPT !.rows = <<>>, !.next = NoCursor]
      <3> DEFINE none == <<>>
      <3>1. none \in Seq(Keys) /\ NoCursor \in Int  BY DEF NoCursor
      <3> HIDE DEF none
      <3>2. grid' = [grid EXCEPT !.rows = none, !.next = NoCursor]  BY <2>2 DEF none
      <3> QED  BY <1>1, <3>1, <3>2 DEF Grids
    <2> QED  BY <2>1, <2>2 DEF statement_ends
  <1>3. BrowseTypes'  BY <1>1, <1>2, Blanks DEF PagesInv, BrowseTypes, statement_ends
  <1>4. TrailInv'  BY <1>1, <1>2, Blanks DEF PagesInv, TrailInv, page_read, busy
  <1> QED  BY <1>3, <1>4 DEF PagesInv

\* The rows behind the operator's back: those of a place change, nothing else.
LEMMA TablesMove ==
    ASSUME PagesInv, UNCHANGED <<keyed, selected, grid, call>>,
           tables' \in [Places -> [Keys -> {Absent, Old, Edited}]]
    PROVE  PagesInv'
  <1>1. BrowseTypes'  BY DEF PagesInv, BrowseTypes
  <1>2. TrailInv'  BY DEF PagesInv, TrailInv, TrailGoesOn, page_read, busy
  <1> QED  BY <1>1, <1>2 DEF PagesInv

LEMMA RowsStayTyped ==
    ASSUME PagesInv, update_row \/ others_write
    PROVE  tables' \in [Places -> [Keys -> {Absent, Old, Edited}]]
  <1>1. tables \in [Places -> [Keys -> {Absent, Old, Edited}]]  BY DEF PagesInv, BrowseTypes
  <1>2. CASE update_row
    <2> DEFINE hit == matching(Head(saving.updates))
    <2>1. tables' = [tables EXCEPT ![saving.to] = [k \in Keys |-> IF k \in hit THEN Edited ELSE @[k]]]
      BY <1>2 DEF update_row
    <2> HIDE DEF hit
    <2> QED  BY <1>1, <2>1
  <1>3. CASE others_write
    <2>1. PICK p \in Places : \E k \in Keys :
             tables' = [tables EXCEPT ![p][k] = IF @ = Absent THEN Old ELSE Absent]
      BY <1>3 DEF others_write
    <2>2. PICK k \in Keys : tables' = [tables EXCEPT ![p][k] = IF @ = Absent THEN Old ELSE Absent]
      BY <2>1
    <2> QED  BY <1>1, <2>2
  <1> QED  BY <1>2, <1>3

LEMMA UpdateKeepsPages ==
    ASSUME PagesInv, update_row PROVE PagesInv'
  <1>1. tables' \in [Places -> [Keys -> {Absent, Old, Edited}]] /\ UNCHANGED <<keyed, selected>>
    BY RowsStayTyped DEF update_row
  <1>2. CASE UNCHANGED <<grid, call>>  BY <1>1, <1>2, TablesMove
  <1>3. CASE reload_after_save
    <2>1. CASE busy  BY <1>1, <1>3, <2>1, TablesMove DEF reload_after_save
    <2>2. CASE ~ busy /\ grid.table
      <3>1. grid.index \in Nat \ {0} /\ grid.index <= grid.index
        BY DEF PagesInv, BrowseTypes, Grids
      <3>2. call' = asked("asked", grid.origin, grid.index) /\ UNCHANGED grid
        BY <1>3, <2>2 DEF reload_after_save
      <3> QED  BY <1>1, <2>2, <3>1, <3>2, AskingKeepsPages
    <2>3. CASE ~ busy /\ ~ grid.table
      BY <1>1, <1>3, <2>3, ExecuteKeepsPages DEF reload_after_save
    <2> QED  BY <2>1, <2>2, <2>3
  <1>4. UNCHANGED <<grid, call>> \/ reload_after_save
    BY DEF update_row
  <1> QED  BY <1>2, <1>3, <1>4

LEMMA PagesStep ==
    ASSUME KeysAssumption, LimitsAssumption, PlacesAssumption, PagesInv, [BrowseNext]_BrowseVars
    PROVE  PagesInv'
  <1>1. tables \in [Places -> [Keys -> {Absent, Old, Edited}]]  BY DEF PagesInv, BrowseTypes
  <1>2. ASSUME NEW p \in Places, select_place(p) PROVE PagesInv'  BY <1>2, SelectKeepsPages
  <1>3. CASE start_browse  BY <1>3, BrowseKeepsPages
  <1>4. CASE turn_page  BY <1>4, TurnKeepsPages
  <1>5. CASE engine_reads  BY <1>5, ReadKeepsPages
  <1>6. CASE rows_arrive  BY <1>6, ArrivalKeepsPages
  <1>7. CASE described  BY <1>7, DescriptionKeepsPages
  <1>8. CASE read_fails  BY <1>8, FailureKeepsPages
  <1>9. CASE run  BY <1>1, <1>9, ExecuteKeepsPages DEF run
  <1>10. CASE statement_ends  BY <1>10, StatementKeepsPages
  <1>11. CASE stage  BY <1>1, <1>11, TablesMove DEF stage
  <1>12. CASE discard_edits  BY <1>1, <1>12, TablesMove DEF discard_edits
  <1>13. CASE save  BY <1>1, <1>13, TablesMove DEF save
  <1>14. CASE update_row  BY <1>14, UpdateKeepsPages
  <1>15. CASE update_fails  BY <1>1, <1>15, TablesMove DEF update_fails
  <1>16. CASE others_write  BY <1>16, RowsStayTyped, TablesMove DEF others_write
  <1>17. CASE UNCHANGED BrowseVars  BY <1>1, <1>17, TablesMove DEF BrowseVars
  <1> QED  BY <1>2, <1>3, <1>4, <1>5, <1>6, <1>7, <1>8, <1>9, <1>10, <1>11, <1>12, <1>13, <1>14,
              <1>15, <1>16, <1>17 DEF BrowseNext

\* Only a table that declares its key has a next page.
KeyedInv == (grid.next # NoCursor \/ call.answer.next # NoCursor) => keyed

LEMMA KeyedStep ==
    ASSUME LimitsAssumption, PagesInv, KeyedInv, [BrowseNext]_BrowseVars PROVE KeyedInv'
  <1>1. grid \in Grids /\ call \in Calls /\ selected \in Places  BY DEF PagesInv, BrowseTypes
  <1>2. ASSUME NEW at, NEW origin, NEW index PROVE asked(at, origin, index).answer.next = NoCursor
    BY DEF asked, NoCall
  <1>3. NoCall.answer.next = NoCursor /\ Blank.next = NoCursor  BY DEF NoCall, Blank
  <1>4. ASSUME NEW table \in BOOLEAN PROVE starts_anew(table).next = grid.next
    BY <1>1, Anew
  <1>5. executes => grid'.next = grid.next /\ call'.answer.next = NoCursor
    <2>1. starts_anew(FALSE).next = grid.next
      <3>1. FALSE \in BOOLEAN  OBVIOUS
      <3> QED  BY <1>4, <3>1
    <2>2. executes => grid' = starts_anew(FALSE) /\ call' = asked("running", selected, 1)
      BY DEF executes
    <2>3. asked("running", selected, 1).answer.next = NoCursor  BY <1>2
    <2>4. executes => grid'.next = starts_anew(FALSE).next  BY <2>2, Zenon
    <2>5. executes => call'.answer.next = asked("running", selected, 1).answer.next  BY <2>2, Zenon
    <2> QED  BY <2>1, <2>3, <2>4, <2>5
  <1>6. ASSUME UNCHANGED <<keyed, grid, call>> PROVE KeyedInv'  BY <1>6 DEF KeyedInv
  <1>7. ASSUME NEW p \in Places, select_place(p) PROVE KeyedInv'
    BY <1>3, <1>7 DEF KeyedInv, select_place
  <1>8. CASE start_browse
    <2>1. TRUE \in BOOLEAN  OBVIOUS
    <2> QED  BY <1>2, <1>4, <1>8, <2>1 DEF KeyedInv, start_browse
  <1>9. CASE turn_page  BY <1>2, <1>9 DEF KeyedInv, turn_page
  <1>10. CASE engine_reads
    <2>1. keyed' = keyed /\ grid' = grid  BY <1>10 DEF engine_reads
    <2>2. CASE grid.origin = call.origin
      <3>1. PICK limit \in RowLimits :
               \E answer \in browse_page(tables[call.origin], the_cursor, limit) :
                  call' = [call EXCEPT !.at = "answered", !.answer = answer]
        BY <1>10, <2>2 DEF engine_reads
      <3>2. PICK answer \in browse_page(tables[call.origin], the_cursor, limit) :
               call' = [call EXCEPT !.at = "answered", !.answer = answer]
        BY <3>1
      <3>3. call'.answer = answer  BY <1>1, <3>2 DEF Calls
      <3>4. answer.next # NoCursor => keyed  BY DEF browse_page, page_of
      <3> QED  BY <2>1, <3>3, <3>4 DEF KeyedInv
    <2>3. CASE grid.origin # call.origin
      <3>1. call'.answer = call.answer  BY <1>1, <1>10, <2>3 DEF engine_reads, Calls
      <3> QED  BY <2>1, <3>1 DEF KeyedInv
    <2> QED  BY <2>2, <2>3
  <1>11. CASE rows_arrive
    <2>1. grid'.next = grid.next \/ grid'.next = call.answer.next
      BY <1>1, <1>11 DEF rows_arrive, Grids
    <2>2. call'.answer.next = NoCursor  BY <1>3, <1>11 DEF rows_arrive, NoCall
    <2> QED  BY <1>11, <2>1, <2>2 DEF KeyedInv, rows_arrive
  <1>12. CASE described
    <2>1. PICK told \in BOOLEAN : grid' = [grid EXCEPT !.pk = keyed /\ told]
      BY <1>12 DEF described
    <2>2. grid'.next = grid.next  BY <1>1, <2>1 DEF Grids
    <2> QED  BY <1>3, <1>12, <2>2 DEF KeyedInv, described
  <1>13. CASE read_fails  BY <1>3, <1>13 DEF KeyedInv, read_fails
  <1>14. CASE run  BY <1>5, <1>14 DEF KeyedInv, run
  <1>15. CASE statement_ends
    <2>1. grid'.next = grid.next \/ grid'.next = NoCursor
      BY <1>1, <1>15 DEF statement_ends, Grids
    <2> QED  BY <1>3, <1>15, <2>1 DEF KeyedInv, statement_ends
  <1>16. CASE update_row
    <2>1. UNCHANGED <<grid, call>> \/ reload_after_save  BY <1>16 DEF update_row
    <2>2. CASE reload_after_save
      BY <1>2, <1>5, <1>16, <2>2 DEF KeyedInv, reload_after_save, update_row
    <2> QED  BY <1>6, <1>16, <2>1, <2>2 DEF update_row
  <1>17. CASE stage \/ discard_edits \/ save \/ update_fails \/ others_write \/ UNCHANGED BrowseVars
    BY <1>6, <1>17 DEF stage, discard_edits, save, update_fails, others_write, BrowseVars
  <1> QED  BY <1>7, <1>8, <1>9, <1>10, <1>11, <1>12, <1>13, <1>14, <1>15, <1>16, <1>17
           DEF BrowseNext

\* Nothing but the engine's answer ends what was asked.
LEMMA OnlyTheEngineAnswers ==
    ASSUME [BrowseNext]_BrowseVars, PagesInv, call.at = "asked", call'.at = "answered"
    PROVE  engine_reads
  <1>1. ASSUME NEW at, NEW origin, NEW index PROVE asked(at, origin, index).at = at
    BY DEF asked, NoCall
  <1>2. busy  BY DEF busy
  <1>3. update_row => UNCHANGED call
    BY <1>2 DEF update_row, reload_after_save
  <1> QED  BY <1>2, <1>3 DEF BrowseNext, BrowseVars, select_place, start_browse, turn_page, rows_arrive,
              described, read_fails, NoCall, run, statement_ends, stage, discard_edits, save,
              update_fails, others_write

LEMMA PagesFollowOn ==
    ASSUME KeysAssumption, LimitsAssumption, PagesInv, KeyedInv, [BrowseNext]_BrowseVars
    PROVE  NextPageFollows
  <1> SUFFICES ASSUME call.at = "asked", call'.at = "answered", grid.origin = call.origin,
                      call.index = grid.index + 1, grid.rows # <<>>
               PROVE  NextPageFollows
    BY DEF NextPageFollows
  <1> DEFINE shown == grid.rows[Len(grid.rows)]
             following == {k \in rows_of(tables[call.origin]) : k > shown}
             page == ToSet(call'.answer.rows)
  <1>1. engine_reads  BY OnlyTheEngineAnswers
  <1>2. TrailGoesOn /\ grid.next # NoCursor /\ keyed
    BY DEF PagesInv, TrailInv, page_read, KeyedInv
  <1>3. the_cursor = shown /\ the_cursor # NoCursor
    BY <1>2 DEF TrailGoesOn, LastOf, the_cursor
  <1>4. after(tables[call.origin], the_cursor) = following
    BY <1>2, <1>3 DEF after
  <1>5. PICK answer \in Page :
           /\ call' = [call EXCEPT !.at = "answered", !.answer = answer]
           /\ LET found == after(tables[call.origin], the_cursor)
              IN  /\ ToSet(answer.rows) \subseteq found
                  /\ keyed => \A k \in found \ ToSet(answer.rows) :
                                 \A p \in ToSet(answer.rows) : p < k
                  /\ found # {} => ToSet(answer.rows) # {}
    BY <1>1, EngineAnswers
  <1>6. call'.answer = answer  BY <1>5 DEF PagesInv, BrowseTypes, Calls
  <1> HIDE DEF following, shown
  <1>7. /\ page \subseteq following
        /\ \A k \in following \ page : \A p \in page : p < k
        /\ following # {} => page # {}
    BY <1>2, <1>4, <1>5, <1>6
  <1> QED  BY <1>7 DEF NextPageFollows, following, shown

\* The page behind Next is the rows that follow the last one on screen, whatever
\* was put in or taken out meanwhile and however the pages were turned
\* (core browse.rs browse_page; pages.ts advanceTrail).
THEOREM TheNextPageFollows ==
    ASSUME KeysAssumption, LimitsAssumption, PlacesAssumption
    PROVE  BrowseSpec => [][NextPageFollows]_BrowseVars
  <1>1. BrowseInit => PagesInv /\ KeyedInv
    BY PagesBegin DEF BrowseInit, KeyedInv, Blank, NoCall
  <1>2. PagesInv /\ KeyedInv /\ [BrowseNext]_BrowseVars => PagesInv' /\ KeyedInv'
    BY PagesStep, KeyedStep
  <1>3. PagesInv /\ KeyedInv /\ [BrowseNext]_BrowseVars => NextPageFollows
    BY PagesFollowOn
  <1> QED  BY <1>1, <1>2, <1>3, PTL DEF BrowseSpec

-------------------------------------------------------------------------------
(***************************************************************************)
(* The edits: what is picked is on screen, and what is sent is for it.    *)
(***************************************************************************)
Updates == [key : Keys, meant : Keys, from : Places]
Saves == [to : Places, updates : Seq(Updates), moved : BOOLEAN]

\* Every update names the row it is meant for; and as long as no other table was
\* opened, the table on screen, where there is one, is the one they are for.
SaveInv ==
    /\ saving \in Saves /\ saving.updates # <<>>
    /\ \A n \in DOMAIN saving.updates : saving.updates[n].key = saving.updates[n].meant
    /\ ~ saving.moved =>
          /\ \A n \in DOMAIN saving.updates : saving.updates[n].from = saving.to
          /\ grid.table => grid.origin = saving.to

EditInv == staged \subseteq DOMAIN grid.rows /\ (is_saving => SaveInv)

LEMMA StagedStep ==
    ASSUME PagesInv, staged \subseteq DOMAIN grid.rows, [BrowseNext]_BrowseVars
    PROVE  staged' \subseteq DOMAIN grid'.rows
  <1>1. grid \in Grids /\ selected \in Places  BY DEF PagesInv, BrowseTypes
  <1>2. ASSUME UNCHANGED staged, grid'.rows = grid.rows PROVE staged' \subseteq DOMAIN grid'.rows
    BY <1>2
  <1>3. starts_anew(TRUE).rows = grid.rows /\ starts_anew(FALSE).rows = grid.rows
    <2>1. TRUE \in BOOLEAN /\ FALSE \in BOOLEAN  OBVIOUS
    <2>2. starts_anew(TRUE).rows = grid.rows  BY <1>1, <2>1, Anew
    <2>3. starts_anew(FALSE).rows = grid.rows  BY <1>1, <2>1, Anew
    <2> QED  BY <2>2, <2>3
  <1>4. executes => grid'.rows = grid.rows
    <2>1. executes => grid' = starts_anew(FALSE)  BY DEF executes
    <2> QED  BY <1>3, <2>1, Zenon
  <1>5. ASSUME NEW p \in Places, select_place(p) PROVE staged' \subseteq DOMAIN grid'.rows
    BY <1>2, <1>5 DEF select_place
  <1>6. CASE start_browse
    <2>1. grid' = starts_anew(TRUE) /\ UNCHANGED staged  BY <1>6 DEF start_browse
    <2>2. grid'.rows = grid.rows  BY <1>3, <2>1, Zenon
    <2> QED  BY <1>2, <2>1, <2>2
  <1>7. CASE run  BY <1>2, <1>4, <1>7 DEF run
  <1>8. CASE rows_arrive  BY <1>2, <1>8 DEF rows_arrive
  <1>9. CASE described
    <2>1. PICK told \in BOOLEAN : grid' = [grid EXCEPT !.pk = keyed /\ told]
      BY <1>9 DEF described
    <2>2. grid'.rows = grid.rows  BY <1>1, <2>1 DEF Grids
    <2> QED  BY <1>2, <1>9, <2>2 DEF described
  <1>10. CASE read_fails  BY <1>2, <1>10 DEF read_fails
  <1>11. CASE statement_ends  BY <1>2, <1>11 DEF statement_ends
  <1>12. CASE stage  BY <1>12 DEF stage
  <1>13. CASE update_row
    <2>1. staged' = {} \/ UNCHANGED <<staged, grid>>  BY <1>13 DEF update_row
    <2> QED  BY <1>2, <2>1
  <1>14. CASE discard_edits  BY <1>14 DEF discard_edits
  <1>15. CASE turn_page \/ engine_reads \/ save \/ update_fails \/ others_write \/ UNCHANGED BrowseVars
    BY <1>2, <1>15 DEF turn_page, engine_reads, save, update_fails, others_write, BrowseVars
  <1> QED  BY <1>5, <1>6, <1>7, <1>8, <1>9, <1>10, <1>11, <1>12, <1>13, <1>14, <1>15 DEF BrowseNext

\* What is sent goes to the table on screen.
LEMMA Sends ==
    ASSUME PlacesAssumption, PagesInv, NEW updates \in Seq(Updates), saving.moved \in BOOLEAN,
           send(updates) # NoSave
    PROVE  /\ send(updates) \in Saves /\ send(updates).updates = updates
           /\ send(updates).moved = saving.moved
           /\ grid.table /\ send(updates).to = grid.origin
  <1>1. edit_context # "none"  BY DEF send
  <1>2. grid.table /\ edit_context = grid.origin  BY <1>1 DEF edit_context
  <1>3. edit_context \in Places  BY <1>2 DEF PagesInv, TrailInv
  <1>4. send(updates) = [to |-> edit_context, updates |-> updates, moved |-> saving.moved]
    BY <1>1 DEF send
  <1> QED  BY <1>2, <1>3, <1>4 DEF Saves

LEMMA SaveBegins ==
    ASSUME KeysAssumption, PlacesAssumption, PagesInv, EditInv, save, saving' # NoSave
    PROVE  SaveInv'
  <1>1. PICK picked \in in_order(staged) : saving' = send(build_row_updates(grid.rows, picked))
    BY DEF save
  <1> DEFINE updates == build_row_updates(grid.rows, picked)
             n == Cardinality(staged)
  <1>2. editable /\ staged # {} /\ saving = NoSave /\ grid' = grid
    BY DEF save, is_saving
  <1>3. grid \in Grids /\ grid.origin \in Places
    BY <1>2 DEF PagesInv, BrowseTypes, TrailInv, editable, edit_context
  <1>4. staged \subseteq DOMAIN grid.rows  BY DEF EditInv
  <1>5. n \in Nat /\ n # 0
    <2>1. DOMAIN grid.rows = 1 .. Len(grid.rows) /\ Len(grid.rows) \in Nat  BY <1>3 DEF Grids
    <2>2. IsFiniteSet(1 .. Len(grid.rows))  BY <2>1, FS_Interval
    <2>3. IsFiniteSet(staged)  BY <1>4, <2>1, <2>2, FS_Subset
    <2> QED  BY <1>2, <2>3, FS_CardinalityType, FS_EmptySet
  <1>6. picked \in [1 .. n -> staged]  BY DEF in_order
  <1> HIDE DEF n
  <1>7. /\ updates = [i \in 1 .. n |-> [key |-> through_the_page(grid.rows[picked[i]]),
                                      meant |-> grid.rows[picked[i]], from |-> grid.origin]]
    BY <1>6 DEF build_row_updates
  <1>8. ASSUME NEW i \in 1 .. n
        PROVE  /\ grid.rows[picked[i]] \in Keys
               /\ through_the_page(grid.rows[picked[i]]) = grid.rows[picked[i]]
    <2>1. grid.rows[picked[i]] \in Keys  BY <1>3, <1>4, <1>6 DEF Grids
    <2> DEFINE k == grid.rows[picked[i]]
    <2> HIDE DEF k
    <2>2. k \in Keys => through_the_page(k) = k  BY DEF KeysAssumption
    <2> QED  BY <2>1, <2>2 DEF k
  <1> HIDE DEF updates
  <1>9. \A i \in 1 .. n : updates[i] \in Updates /\ updates[i].key = updates[i].meant
                          /\ updates[i].from = grid.origin
    BY <1>3, <1>7, <1>8 DEF Updates
  <1>10. updates \in Seq(Updates) /\ DOMAIN updates = 1 .. n /\ Len(updates) = n
    BY <1>5, <1>7, <1>9
  <1>11. saving.moved \in BOOLEAN /\ saving.moved = FALSE  BY <1>2 DEF NoSave
  <1>12. /\ saving' \in Saves /\ saving'.updates = updates
         /\ grid.table /\ saving'.to = grid.origin
    BY <1>1, <1>10, <1>11, Sends DEF updates
  <1>13. updates # <<>>  BY <1>5, <1>10
  <1> QED  BY <1>2, <1>9, <1>10, <1>12, <1>13 DEF SaveInv

LEMMA SaveGoesOn ==
    ASSUME PlacesAssumption, PagesInv, EditInv, update_row, saving' # NoSave
    PROVE  SaveInv'
  <1> DEFINE left == Tail(saving.updates)
  <1>1. /\ saving \in Saves /\ saving.updates # <<>>
        /\ \A n \in DOMAIN saving.updates : saving.updates[n].key = saving.updates[n].meant
        /\ ~ saving.moved =>
              /\ \A n \in DOMAIN saving.updates : saving.updates[n].from = saving.to
              /\ grid.table => grid.origin = saving.to
    BY DEF update_row, EditInv, SaveInv
  <1>2. saving' = send(left) /\ left # <<>> /\ UNCHANGED grid
    BY DEF update_row
  <1>3. saving.updates \in Seq(Updates) /\ saving.moved \in BOOLEAN  BY <1>1 DEF Saves
  <1>4. /\ left \in Seq(Updates)
        /\ \A n \in DOMAIN left : n + 1 \in DOMAIN saving.updates /\ left[n] = saving.updates[n + 1]
    BY <1>1, <1>3
  <1> HIDE DEF left
  <1>5. /\ saving' \in Saves /\ saving'.updates = left /\ saving'.moved = saving.moved
        /\ grid.table /\ saving'.to = grid.origin
    BY <1>2, <1>3, <1>4, Sends
  <1>6. \A n \in DOMAIN left : left[n].key = left[n].meant  BY <1>1, <1>4
  <1>7. ~ saving.moved => \A n \in DOMAIN left : left[n].from = grid.origin
    BY <1>1, <1>4, <1>5
  <1> QED  BY <1>2, <1>5, <1>6, <1>7 DEF SaveInv

\* A save under way is as it was, or is known to have been left for another
\* table, and no table came upon the screen.
LEMMA SaveWaits ==
    ASSUME EditInv, is_saving, UNCHANGED saving,
           grid'.table => grid.table /\ grid'.origin = grid.origin
    PROVE  SaveInv'
  BY DEF EditInv, SaveInv

LEMMA EditStep ==
    ASSUME KeysAssumption, PlacesAssumption, PagesInv, EditInv, [BrowseNext]_BrowseVars
    PROVE  EditInv'
  <1>1. staged' \subseteq DOMAIN grid'.rows  BY StagedStep DEF EditInv
  <1> SUFFICES ASSUME is_saving' PROVE SaveInv'  BY <1>1 DEF EditInv
  <1>2. grid \in Grids /\ selected \in Places /\ ~ Blank.table
    BY Blanks DEF PagesInv, BrowseTypes
  <1>3. saving' # NoSave  BY DEF is_saving
  <1>4. ASSUME UNCHANGED saving, grid'.table => grid.table /\ grid'.origin = grid.origin PROVE SaveInv'
    BY <1>3, <1>4, SaveWaits DEF is_saving
  <1>5. CASE start_browse
    <2>1. is_saving /\ saving' = [saving EXCEPT !.moved = TRUE]
      BY <1>3, <1>5 DEF start_browse, is_saving
    <2>2. SaveInv  BY <2>1 DEF EditInv
    <2>3. saving' \in Saves /\ saving'.moved /\ saving'.updates = saving.updates
      BY <2>1, <2>2 DEF SaveInv, Saves
    <2> QED  BY <2>2, <2>3 DEF SaveInv
  <1>6. CASE save  BY <1>3, <1>6, SaveBegins
  <1>7. CASE update_row  BY <1>3, <1>7, SaveGoesOn
  <1>8. CASE update_fails  BY <1>3, <1>8 DEF update_fails
  <1>9. ASSUME NEW p \in Places, select_place(p) PROVE SaveInv'
    BY <1>2, <1>4, <1>9 DEF select_place
  <1>10. CASE run
    <2>1. grid' = starts_anew(FALSE) /\ UNCHANGED saving  BY <1>10 DEF run, executes
    <2>2. starts_anew(FALSE).table = FALSE
      <3>1. FALSE \in BOOLEAN  OBVIOUS
      <3> QED  BY <1>2, <3>1, Anew
    <2>3. ~ grid'.table  BY <2>1, <2>2, Zenon
    <2> QED  BY <1>4, <2>1, <2>3
  <1>11. CASE rows_arrive
    <2>1. grid'.table = grid.table /\ grid'.origin = grid.origin
      BY <1>2, <1>11 DEF rows_arrive, Grids
    <2> QED  BY <1>4, <1>11, <2>1 DEF rows_arrive
  <1>12. CASE described
    <2>1. PICK told \in BOOLEAN : grid' = [grid EXCEPT !.pk = keyed /\ told]
      BY <1>12 DEF described
    <2>2. grid'.table = grid.table /\ grid'.origin = grid.origin  BY <1>2, <2>1 DEF Grids
    <2> QED  BY <1>4, <1>12, <2>2 DEF described
  <1>13. CASE read_fails  BY <1>2, <1>4, <1>13 DEF read_fails
  <1>14. CASE statement_ends
    <2>1. grid'.table = grid.table /\ grid'.origin = grid.origin
      BY <1>2, <1>14 DEF statement_ends, Grids
    <2> QED  BY <1>4, <1>14, <2>1 DEF statement_ends
  <1>15. CASE turn_page \/ engine_reads \/ stage \/ discard_edits \/ others_write \/ UNCHANGED BrowseVars
    BY <1>4, <1>15 DEF turn_page, engine_reads, stage, discard_edits, others_write, BrowseVars
  <1> QED  BY <1>5, <1>6, <1>7, <1>8, <1>9, <1>10, <1>11, <1>12, <1>13, <1>14, <1>15 DEF BrowseNext

LEMMA EditsLand ==
    ASSUME PlacesAssumption, PagesInv, EditInv, [BrowseNext]_BrowseVars
    PROVE  EditLandsOnTheRowShown
  <1> SUFFICES ASSUME is_saving, ~ saving.moved, saving' # saving,
                      NEW p \in Places, NEW k \in Keys, tables'[p][k] # tables[p][k]
               PROVE  p = Head(saving.updates).from /\ k = Head(saving.updates).meant
    BY DEF EditLandsOnTheRowShown
  <1>1. update_row
    BY DEF BrowseNext, BrowseVars, is_saving, select_place, start_browse, turn_page, engine_reads,
           rows_arrive, described, read_fails, run, statement_ends, stage, discard_edits, save,
           update_fails, others_write
  <1> DEFINE update == Head(saving.updates)
             hit == matching(update)
  <1>2. /\ saving.to \in Places
        /\ update.key = update.meant /\ update.from = saving.to
    <2>1. /\ saving \in Saves /\ saving.updates # <<>>
          /\ \A n \in DOMAIN saving.updates : saving.updates[n].key = saving.updates[n].meant
          /\ \A n \in DOMAIN saving.updates : saving.updates[n].from = saving.to
      BY DEF EditInv, SaveInv
    <2>2. saving.updates \in Seq(Updates) /\ saving.to \in Places  BY <2>1 DEF Saves
    <2>3. 1 \in DOMAIN saving.updates /\ update = saving.updates[1]  BY <2>1, <2>2
    <2> QED  BY <2>1, <2>2, <2>3
  <1>3. tables' = [tables EXCEPT ![saving.to] = [x \in Keys |-> IF x \in hit THEN Edited ELSE @[x]]]
    BY <1>1 DEF update_row
  <1>4. hit \subseteq {update.key}  BY DEF matching
  <1> HIDE DEF update, hit
  <1>5. tables \in [Places -> [Keys -> {Absent, Old, Edited}]]  BY DEF PagesInv, BrowseTypes
  <1>6. p = saving.to /\ k \in hit  BY <1>2, <1>3, <1>5
  <1> QED  BY <1>2, <1>4, <1>6 DEF update

\* A save changes rows that were on screen, in the place they were read from,
\* whatever is selected, run or turned to while it is under way (edit.ts
\* buildRowUpdates; write_back.rs apply_row_update).
THEOREM AnEditReachesTheRowItWasMadeOn ==
    ASSUME KeysAssumption, LimitsAssumption, PlacesAssumption
    PROVE  BrowseSpec => [][EditLandsOnTheRowShown]_BrowseVars
  <1>1. BrowseInit => PagesInv /\ EditInv
    BY PagesBegin DEF BrowseInit, EditInv, is_saving
  <1>2. PagesInv /\ EditInv /\ [BrowseNext]_BrowseVars => PagesInv' /\ EditInv'
    BY PagesStep, EditStep
  <1>3. PagesInv /\ EditInv /\ [BrowseNext]_BrowseVars => EditLandsOnTheRowShown
    BY EditsLand
  <1> QED  BY <1>1, <1>2, <1>3, PTL DEF BrowseSpec

-------------------------------------------------------------------------------
(***************************************************************************)
(* The form over a saved connection.                                       *)
(***************************************************************************)

\* The kinds of ConnectionForm, and the queries its form itself writes: of any
\* other it keeps no more than the choice of TLS.
FormAssumption ==
    /\ Kinds \subseteq {"file", "dsn", "redis", "mongodb", "token", "firestore"}
    /\ Queries \subseteq {"", "tls off"}

Words ==
    {"", "new", "theirs", "shop", "here", "s", "red", "prod", "bastion", "id", "db", "elsewhere",
     "stored", "garbage", "keep", "drop"}
Boxes == {"", "new"}
Secrets == [host : Words, query : {"", "tls off"}, password : Words]
Sshs ==
    [where : Words, key_path : Words, auth : {"key"}, encrypted : BOOLEAN]
    \union [where : Words, key_path : {""}, auth : {"password"}, encrypted : {FALSE}]
    \union {NoSsh}
Entries ==
    [kind : Kinds, name : Words, plain : Words, alias : Words, color : Words, tag : Words,
     write : BOOLEAN, ssh : Sshs, keyed : BOOLEAN]

\* An entry is of one kind: what its kind needs it has, what its kind has no
\* place for it has not.
IsEntry(e) ==
    /\ e \in Entries
    /\ e.kind = "file" => ~ e.keyed
    /\ e.kind \notin {"file", "firestore"} => e.keyed
    /\ ~ supportsSshTunnel(e.kind) => e.ssh = NoSsh

FormFields ==
    {"mode", "kind", "name", "plain", "alias", "color", "tag", "write", "use_url", "url", "db_host",
     "db_ssl", "db_password", "secret", "use_emulator", "ssh_enabled", "where", "auth", "key_path",
     "encrypted", "ssh_passphrase", "ssh_password", "had_passphrase", "had_password", "changes"}

TextFields == {"name", "plain", "alias", "color", "tag", "db_host", "where", "key_path"}
SecretFields == {"db_password", "secret", "ssh_passphrase", "ssh_password"}

IsForm(f) ==
    /\ DOMAIN f = FormFields
    /\ f.mode \in {"add", "edit"} /\ f.kind \in Kinds
    /\ \A field \in TextFields : f[field] \in Words
    /\ \A field \in Toggles : f[field] \in BOOLEAN
    /\ \A field \in SecretFields : f[field] \in Boxes
    /\ f.url \in Secrets /\ f.url # Keep /\ f.db_ssl \in {"require", "disable"}
    /\ f.auth \in {"key", "password"}

FormTypes ==
    /\ entry = NoEntry \/ IsEntry(entry)
    /\ held = NoEntry \/ IsEntry(held)
    /\ slots \in [Slots -> Secrets]
    /\ entry # NoEntry /\ entry.keyed /\ ~ usesDsnFields(entry.kind) => slots["own"].query = ""
    /\ form = Closed \/ IsForm(form)

\* What is typed into the boxes of a secret.
TypedSecrets ==
    form # Closed =>
        /\ "secret" \in touched => form.secret = "new" /\ form.kind \notin {"file", "dsn"}
        /\ "db_password" \in touched => form.db_password = "new" /\ usesDsnFields(form.kind)

\* An edited form that is not out of date: what the user left alone is what
\* formForEdit made of the entry, the string's parts shown or not.
FilledFrom(shown) ==
    /\ form.kind = entry.kind
    /\ shown => usesDsnFields(entry.kind) /\ parses(slots["own"])
    /\ \A field \in {"name", "plain", "alias", "color", "tag", "write"} \ touched :
          form[field] = entry[field]
    /\ \A field \in {"where", "key_path", "encrypted"} \ touched : form[field] = entry.ssh[field]
    /\ \A field \in SecretFields \ touched : form[field] = ""
    /\ "use_emulator" \notin touched =>
          form.use_emulator = (entry.kind = "firestore" /\ ~ entry.keyed)
    /\ "use_url" \notin touched => form.use_url = (usesDsnFields(entry.kind) /\ ~ shown)
    /\ "url" \notin touched => form.url = Nothing
    /\ shown /\ "db_host" \notin touched => form.db_host = slots["own"].host
    /\ shown /\ "db_ssl" \notin touched => form.db_ssl = sslModeFromQuery(slots["own"].query)
    /\ "ssh_enabled" \notin touched => form.ssh_enabled = (entry.ssh # NoSsh)
    /\ entry.ssh # NoSsh /\ "auth" \notin touched => form.auth = entry.ssh.auth

FilledInv ==
    form # Closed /\ form.mode = "edit" /\ ~ moved =>
        /\ held = entry /\ entry # NoEntry
        /\ \E shown \in BOOLEAN : FilledFrom(shown)

FormInv == FormTypes /\ TypedSecrets /\ FilledInv

LEMMA KindsAreShapes ==
    ASSUME FormAssumption, NEW kind \in Kinds
    PROVE  kind \in {"file", "dsn", "redis", "mongodb", "token", "firestore"}
  BY DEF FormAssumption

LEMMA SecretsAreSecrets ==
    ASSUME FormAssumption
    PROVE  /\ \A text \in Words : whole(text) \in Secrets
           /\ Nothing \in Secrets /\ Garbage \in Secrets /\ Elsewhere \in Secrets
           /\ Keep \in Secrets /\ Drop \in Secrets
           /\ Keep # Nothing /\ Drop # Nothing /\ Drop # Keep
           /\ Garbage # Nothing /\ Garbage # Keep /\ Elsewhere # Nothing
           /\ Urls \subseteq Secrets \ {Keep, Nothing}
           /\ \A kind \in Kinds : OwnSecrets(kind) \subseteq Secrets \ {Keep, Nothing}
           /\ \A kind \in Kinds : ~ usesDsnFields(kind) =>
                  \A own \in OwnSecrets(kind) : own.query = ""
<1>1. /\ \A text \in Words : whole(text) \in Secrets
      /\ Nothing \in Secrets /\ Garbage \in Secrets /\ Elsewhere \in Secrets
      /\ Keep \in Secrets /\ Drop \in Secrets
  BY DEF Words, Secrets, whole, Nothing, Garbage, Elsewhere, Keep, Drop
<1>2. /\ Keep # Nothing /\ Drop # Nothing /\ Drop # Keep
      /\ Garbage # Nothing /\ Garbage # Keep /\ Elsewhere # Nothing
  BY DEF whole, Nothing, Garbage, Elsewhere, Keep, Drop
<1>3. ASSUME NEW url \in Urls PROVE url \in Secrets \ {Keep, Nothing}
  <2>1. CASE url \in [host : {"new"}, query : Queries, password : {"new"}]
    <3>1. PICK query \in Queries : url = [host |-> "new", query |-> query, password |-> "new"]
      BY <2>1
    <3>2. query \in {"", "tls off"}
      BY DEF FormAssumption
    <3>3. QED
      BY <3>1, <3>2 DEF Words, Secrets, Keep, Nothing, whole
  <2>2. CASE url = Garbage
    BY <2>2, <1>1, <1>2
  <2>3. QED
    BY <2>1, <2>2 DEF Urls
<1>4. ASSUME NEW kind \in Kinds, NEW own \in OwnSecrets(kind)
      PROVE  own \in Secrets \ {Keep, Nothing} /\ (~ usesDsnFields(kind) => own.query = "")
  <2>1. CASE usesDsnFields(kind) /\ own \in [host : {"db"}, query : Queries, password : {"", "stored"}]
    <3>1. PICK query \in Queries, password \in {"", "stored"} :
             own = [host |-> "db", query |-> query, password |-> password]
      BY <2>1
    <3>2. query \in {"", "tls off"}
      BY DEF FormAssumption
    <3>3. QED
      BY <2>1, <3>1, <3>2 DEF Words, Secrets, Keep, Nothing, whole
  <2>2. CASE usesDsnFields(kind) /\ own = Garbage
    BY <2>2, <1>1, <1>2
  <2>3. CASE ~ usesDsnFields(kind) /\ own = whole("stored")
    BY <2>3 DEF Words, Secrets, Keep, Nothing, whole
  <2>4. QED
    BY <2>1, <2>2, <2>3 DEF OwnSecrets
<1>5. QED
  BY <1>1, <1>2, <1>3, <1>4

LEMMA StoredEntries ==
    ASSUME FormAssumption, NEW kind \in Kinds, NEW e \in Stored(kind)
    PROVE  IsEntry(e) /\ e # NoEntry
<1>1. \A ssh \in Tunnels : ssh \in Sshs
  BY DEF Tunnels, Sshs, Words
<1>2. NoSsh \in Sshs
  BY DEF Sshs
<1>3. e.ssh \in Sshs /\ (~ supportsSshTunnel(kind) => e.ssh = NoSsh) /\ e.kind = kind
  BY <1>1, <1>2 DEF Stored
<1>4. e.keyed \in BOOLEAN /\ (kind = "file" => ~ e.keyed) /\ (kind \notin {"file", "firestore"} => e.keyed)
  BY KindsAreShapes DEF Stored
<1>5. e \in Entries
  BY <1>3, <1>4 DEF Stored, Entries, Words
<1>6. QED
  BY <1>3, <1>4, <1>5, KindsAreShapes DEF IsEntry, NoEntry

LEMMA EntryIsNotNone == ASSUME FormAssumption, NEW e, IsEntry(e) PROVE e # NoEntry
  BY KindsAreShapes DEF IsEntry, Entries, NoEntry

\* What apply_update_ssh and build_ssh_for_add write is a tunnel.
LEMMA WrittenTunnels ==
    ASSUME NEW f, IsForm(f), NEW encrypted \in BOOLEAN
    PROVE  /\ ssh_toml(f, encrypted) \in Sshs \ {NoSsh, Refused}
           /\ ssh_toml(f, encrypted).where = f.where
           /\ ssh_toml(f, encrypted).auth = f.auth
           /\ ssh_toml(f, encrypted).key_path = IF f.auth = "key" THEN f.key_path ELSE ""
           /\ ssh_toml(f, encrypted).encrypted = (f.auth = "key" /\ encrypted)
<1>1. f.where \in Words /\ f.key_path \in Words /\ f.auth \in {"key", "password"}
  BY DEF IsForm, TextFields, Toggles
<1>2. CASE f.auth = "key"
  BY <1>1, <1>2 DEF ssh_toml, Sshs, NoSsh, Refused
<1>3. CASE f.auth = "password"
  BY <1>1, <1>3 DEF ssh_toml, Sshs, NoSsh, Refused
<1>4. QED
  BY <1>1, <1>2, <1>3

\* A form is an entry once it is given a credential and a tunnel its kind allows.
LEMMA DraftedEntries ==
    ASSUME FormAssumption, NEW f, IsForm(f), NEW refers \in BOOLEAN, NEW ssh \in Sshs,
           f.kind = "file" => ~ refers, f.kind \notin {"file", "firestore"} => refers,
           ~ supportsSshTunnel(f.kind) => ssh = NoSsh
    PROVE  IsEntry(drafted(f, refers, ssh)) /\ drafted(f, refers, ssh) # NoEntry
<1>1. f.kind \in Kinds /\ f.name \in Words /\ f.plain \in Words /\ f.alias \in Words
      /\ f.color \in Words /\ f.tag \in Words /\ f.write \in BOOLEAN
  BY DEF IsForm, TextFields, Toggles
<1>2. IsEntry(drafted(f, refers, ssh))
  BY <1>1 DEF drafted, IsEntry, Entries
<1>3. QED
  BY <1>2, EntryIsNotNone

-------------------------------------------------------------------------------
(* Filling a form and typing into it. *)

\* A value a field may have.
Suits(field, value) ==
    /\ field \in FormFields \ {"mode", "kind"}
    /\ field \in TextFields => value \in Words
    /\ field \in Toggles => value \in BOOLEAN
    /\ field \in SecretFields => value \in Boxes
    /\ field = "url" => value \in Secrets /\ value # Keep
    /\ field = "db_ssl" => value \in {"require", "disable"}
    /\ field = "auth" => value \in {"key", "password"}

LEMMA FormsStayForms ==
    ASSUME NEW f, IsForm(f), NEW field, NEW value, Suits(field, value),
           NEW g, DOMAIN g = FormFields, g[field] = value,
           \A x \in FormFields \ {field} : g[x] = f[x]
    PROVE  IsForm(g)
  BY DEF IsForm, Suits, FormFields, TextFields, SecretFields, Toggles

LEMMA EmptyForms ==
    ASSUME NEW kind \in Kinds
    PROVE  IsForm([emptyForm EXCEPT !.kind = kind])
<1>1. Nothing \in Secrets /\ Nothing # Keep
  BY DEF Secrets, Words, Nothing, Keep, whole
<1> DEFINE f == [emptyForm EXCEPT !.kind = kind]
<1>2. /\ DOMAIN f = FormFields /\ f.mode = "add" /\ f.kind = kind
      /\ f.name = "" /\ f.plain = "" /\ f.alias = "" /\ f.color = "" /\ f.tag = ""
      /\ f.db_host = "" /\ f.where = "" /\ f.key_path = ""
      /\ f.db_password = "" /\ f.secret = "" /\ f.ssh_passphrase = "" /\ f.ssh_password = ""
      /\ f.url = Nothing /\ f.db_ssl = "require" /\ f.auth = "key"
  BY DEF emptyForm, FormFields
<1>3. /\ f.write \in BOOLEAN /\ f.use_url \in BOOLEAN /\ f.use_emulator \in BOOLEAN
      /\ f.ssh_enabled \in BOOLEAN /\ f.encrypted \in BOOLEAN
  BY DEF emptyForm
<1> HIDE DEF f
<1>4. /\ \A field \in TextFields : f[field] \in Words
      /\ \A field \in Toggles : f[field] \in BOOLEAN
      /\ \A field \in SecretFields : f[field] \in Boxes
  BY <1>2, <1>3 DEF TextFields, Toggles, SecretFields, Words, Boxes
<1>5. IsForm(f)
  BY <1>1, <1>2, <1>4 DEF IsForm
<1>6. QED
  BY <1>5 DEF f

\* What formForEdit fills in.
LEMMA FilledForms ==
    ASSUME FormAssumption, slots \in [Slots -> Secrets], NEW e, IsEntry(e), NEW shown \in BOOLEAN
    PROVE  LET f == formForEdit(e.name, connection_edit_fields(e), shown)
           IN  /\ IsForm(f) /\ f.mode = "edit" /\ f.kind = e.kind
               /\ \A field \in {"name", "plain", "alias", "color", "tag", "write"} : f[field] = e[field]
               /\ \A field \in {"where", "key_path", "encrypted"} : f[field] = e.ssh[field]
               /\ \A field \in SecretFields : f[field] = ""
               /\ f.use_emulator = (e.kind = "firestore" /\ ~ e.keyed)
               /\ f.use_url = (usesDsnFields(e.kind) /\ ~ shown)
               /\ f.url = Nothing
               /\ shown => f.db_host = slots["own"].host /\ f.db_ssl = sslModeFromQuery(slots["own"].query)
               /\ f.ssh_enabled = (e.ssh # NoSsh)
               /\ e.ssh # NoSsh => f.auth = e.ssh.auth
<1> DEFINE b == [emptyForm EXCEPT !.mode = "edit", !.kind = e.kind, !.name = e.name,
                          !.plain = e.plain, !.alias = e.alias,
                          !.color = e.color, !.tag = e.tag, !.write = e.write,
                          !.use_url = usesDsnFields(e.kind),
                          !.use_emulator = e.kind = "firestore" /\ ~e.keyed]
           t == applySshPrefill(b, e.ssh)
           f == applyDsnPrefill(t, shown)
<1>1. formForEdit(e.name, connection_edit_fields(e), shown) = f
  BY DEF formForEdit, connection_edit_fields, EditFieldsDto
<1>2. e.kind \in Kinds /\ e.keyed \in BOOLEAN /\ e.ssh \in Sshs /\ e.write \in BOOLEAN
      /\ e.name \in Words /\ e.plain \in Words /\ e.alias \in Words /\ e.color \in Words /\ e.tag \in Words
  BY DEF IsEntry, Entries
<1>3. /\ IsForm(b) /\ b.mode = "edit" /\ b.kind = e.kind
      /\ \A field \in {"name", "plain", "alias", "color", "tag", "write"} : b[field] = e[field]
      /\ b.use_emulator = (e.kind = "firestore" /\ ~e.keyed)
      /\ b.use_url = usesDsnFields(e.kind)
  <2>1. Nothing \in Secrets /\ Nothing # Keep
    BY DEF Secrets, Words, Nothing, Keep, whole
  <2>2. usesDsnFields(e.kind) \in BOOLEAN /\ (e.kind = "firestore" /\ ~e.keyed) \in BOOLEAN
    BY <1>2 DEF usesDsnFields
  <2>3. /\ DOMAIN b = FormFields /\ b.mode = "edit" /\ b.kind = e.kind
        /\ b.name = e.name /\ b.plain = e.plain /\ b.alias = e.alias /\ b.color = e.color /\ b.tag = e.tag
        /\ b.db_host = "" /\ b.where = "" /\ b.key_path = ""
        /\ b.db_password = "" /\ b.secret = "" /\ b.ssh_passphrase = "" /\ b.ssh_password = ""
        /\ b.url = Nothing /\ b.db_ssl = "require" /\ b.auth = "key"
    BY DEF emptyForm, FormFields
  <2>4. b.write = e.write
    BY DEF emptyForm
  <2>5. b.use_url = usesDsnFields(e.kind)
    BY DEF emptyForm
  <2>6. b.use_emulator = (e.kind = "firestore" /\ ~e.keyed)
    BY DEF emptyForm
  <2>7. b.ssh_enabled \in BOOLEAN /\ b.encrypted \in BOOLEAN
    BY DEF emptyForm
  <2> HIDE DEF b
  <2>8. /\ \A field \in TextFields : b[field] \in Words
        /\ \A field \in SecretFields : b[field] \in Boxes
    <3>1. "" \in Words /\ "" \in Boxes
      BY DEF Words, Boxes
    <3>2. \A field \in TextFields : b[field] \in Words
      BY <1>2, <2>3, <3>1 DEF TextFields
    <3>3. \A field \in SecretFields : b[field] \in Boxes
      BY <1>2, <2>3, <3>1 DEF SecretFields
    <3>4. QED
      BY <3>2, <3>3
  <2>9. \A field \in Toggles : b[field] \in BOOLEAN
    BY <1>2, <2>2, <2>4, <2>5, <2>6, <2>7 DEF Toggles
  <2>10. IsForm(b)
    BY <1>2, <2>1, <2>3, <2>8, <2>9 DEF IsForm
  <2>11. QED
    BY <2>3, <2>4, <2>5, <2>6, <2>10
<1>4. /\ b.where = "" /\ b.key_path = "" /\ b.encrypted = FALSE /\ b.url = Nothing
      /\ b.ssh_enabled = FALSE
      /\ \A field \in SecretFields : b[field] = ""
  BY DEF emptyForm, SecretFields
<1>5. /\ IsForm(t) /\ \A field \in FormFields \ {"ssh_enabled", "where", "auth", "key_path", "encrypted",
                                                "had_passphrase", "had_password"} : t[field] = b[field]
      /\ \A field \in {"where", "key_path", "encrypted"} : t[field] = e.ssh[field]
      /\ t.ssh_enabled = (e.ssh # NoSsh)
      /\ e.ssh # NoSsh => t.auth = e.ssh.auth
  <2>1. CASE e.ssh = NoSsh
    <3>1. t = b
      BY <2>1 DEF applySshPrefill
    <3>2. e.ssh.where = "" /\ e.ssh.key_path = "" /\ e.ssh.encrypted = FALSE
      <4>1. NoSsh.where = "" /\ NoSsh.key_path = ""
        BY DEF NoSsh
      <4>2. NoSsh.encrypted = FALSE
        BY DEF NoSsh
      <4>3. QED
        BY <2>1, <4>1, <4>2
    <3> HIDE DEF b, t
    <3>3. IsForm(t) /\ \A field \in FormFields : t[field] = b[field]
      BY <1>3, <3>1
    <3>4. \A field \in {"where", "key_path", "encrypted"} : t[field] = e.ssh[field]
      BY <1>4, <3>1, <3>2
    <3>5. t.ssh_enabled = (e.ssh # NoSsh)
      BY <1>4, <2>1, <3>1
    <3>6. QED
      BY <2>1, <3>3, <3>4, <3>5
  <2>2. CASE e.ssh # NoSsh
    <3>1. e.ssh.where \in Words /\ e.ssh.key_path \in Words /\ e.ssh.auth \in {"key", "password"}
          /\ e.ssh.encrypted \in BOOLEAN
      BY <1>2, <2>2 DEF Sshs, Words
    <3>2. t = [b EXCEPT !.ssh_enabled = TRUE, !.where = e.ssh.where, !.auth = e.ssh.auth,
                      !.key_path = e.ssh.key_path, !.encrypted = e.ssh.encrypted,
                      !.had_passphrase = e.ssh.encrypted, !.had_password = e.ssh.auth = "password"]
      BY <2>2 DEF applySshPrefill
    <3> HIDE DEF b, t
    <3>3. DOMAIN b = FormFields
      BY <1>3 DEF IsForm
    <3>4. /\ DOMAIN t = FormFields
          /\ \A field \in FormFields \ {"ssh_enabled", "where", "auth", "key_path", "encrypted",
                                        "had_passphrase", "had_password"} : t[field] = b[field]
          /\ t.where = e.ssh.where /\ t.key_path = e.ssh.key_path /\ t.encrypted = e.ssh.encrypted
          /\ t.ssh_enabled = TRUE /\ t.auth = e.ssh.auth
      BY <3>2, <3>3 DEF FormFields
    <3>5. IsForm(t)
      <4>1. DOMAIN t = FormFields /\ t.mode \in {"add", "edit"} /\ t.kind \in Kinds
        BY <1>3, <3>1, <3>4 DEF IsForm, FormFields, TextFields, Toggles, SecretFields
      <4>2. ASSUME NEW field \in TextFields PROVE t[field] \in Words
        <5>1. b[field] \in Words /\ field \in FormFields
          BY <1>3 DEF IsForm, TextFields, FormFields
        <5>2. QED
          BY <3>1, <3>4, <5>1 DEF TextFields
      <4>3. ASSUME NEW field \in Toggles PROVE t[field] \in BOOLEAN
        <5>1. b[field] \in BOOLEAN /\ field \in FormFields
          BY <1>3 DEF IsForm, Toggles, FormFields
        <5>2. QED
          BY <3>1, <3>4, <5>1 DEF Toggles
      <4>4. ASSUME NEW field \in SecretFields PROVE t[field] \in Boxes
        <5>1. b[field] \in Boxes /\ field \in FormFields
          BY <1>3 DEF IsForm, SecretFields, FormFields
        <5>2. QED
          BY <3>1, <3>4, <5>1 DEF SecretFields
      <4>5. /\ t.url \in Secrets /\ t.url # Keep
            /\ t.db_ssl \in {"require", "disable"} /\ t.auth \in {"key", "password"}
        BY <1>3, <3>1, <3>4 DEF IsForm, FormFields, TextFields, Toggles, SecretFields
      <4>6. QED
        BY <4>1, <4>2, <4>3, <4>4, <4>5 DEF IsForm
    <3>6. QED
      BY <2>2, <3>4, <3>5
  <2>3. QED
    BY <2>1, <2>2
<1>6. /\ IsForm(f) /\ \A field \in FormFields \ {"use_url", "db_host", "db_ssl"} : f[field] = t[field]
      /\ shown => ~ f.use_url /\ f.db_host = slots["own"].host
                    /\ f.db_ssl = sslModeFromQuery(slots["own"].query)
      /\ ~ shown => f.use_url = t.use_url
  <2>1. CASE ~ shown
    BY <1>5, <2>1 DEF applyDsnPrefill
  <2>2. CASE shown
    <3>1. slots["own"].host \in Words /\ sslModeFromQuery(slots["own"].query) \in {"require", "disable"}
      BY DEF Slots, Secrets, sslModeFromQuery
    <3>2. f = [t EXCEPT !.use_url = FALSE, !.db_host = slots["own"].host,
                      !.db_ssl = sslModeFromQuery(slots["own"].query)]
      BY <2>2 DEF applyDsnPrefill
    <3> HIDE DEF t, f
    <3>3. DOMAIN t = FormFields
      BY <1>5 DEF IsForm
    <3>4. /\ DOMAIN f = FormFields
          /\ \A field \in FormFields \ {"use_url", "db_host", "db_ssl"} : f[field] = t[field]
          /\ f.use_url = FALSE /\ f.db_host = slots["own"].host
          /\ f.db_ssl = sslModeFromQuery(slots["own"].query)
      BY <3>2, <3>3 DEF FormFields
    <3>5. IsForm(f)
      <4>1. DOMAIN f = FormFields /\ f.mode \in {"add", "edit"} /\ f.kind \in Kinds
        BY <1>5, <3>1, <3>4 DEF IsForm, FormFields, TextFields, Toggles, SecretFields
      <4>2. ASSUME NEW field \in TextFields PROVE f[field] \in Words
        <5>1. t[field] \in Words /\ field \in FormFields
          BY <1>5 DEF IsForm, TextFields, FormFields
        <5>2. QED
          BY <3>1, <3>4, <5>1 DEF TextFields
      <4>3. ASSUME NEW field \in Toggles PROVE f[field] \in BOOLEAN
        <5>1. t[field] \in BOOLEAN /\ field \in FormFields
          BY <1>5 DEF IsForm, Toggles, FormFields
        <5>2. QED
          BY <3>1, <3>4, <5>1 DEF Toggles
      <4>4. ASSUME NEW field \in SecretFields PROVE f[field] \in Boxes
        <5>1. t[field] \in Boxes /\ field \in FormFields
          BY <1>5 DEF IsForm, SecretFields, FormFields
        <5>2. QED
          BY <3>1, <3>4, <5>1 DEF SecretFields
      <4>5. /\ f.url \in Secrets /\ f.url # Keep
            /\ f.db_ssl \in {"require", "disable"} /\ f.auth \in {"key", "password"}
        BY <1>5, <3>1, <3>4 DEF IsForm, FormFields, TextFields, Toggles, SecretFields
      <4>6. QED
        BY <4>1, <4>2, <4>3, <4>4, <4>5 DEF IsForm
    <3>6. QED
      BY <2>2, <3>4, <3>5
  <2>3. QED
    BY <2>1, <2>2
<1> HIDE DEF b, t, f
<1>7. f.mode = "edit" /\ f.kind = e.kind /\ f.url = Nothing
  <2>1. f["mode"] = t["mode"] /\ f["kind"] = t["kind"] /\ f["url"] = t["url"]
    BY <1>6 DEF FormFields
  <2>2. t["mode"] = b["mode"] /\ t["kind"] = b["kind"] /\ t["url"] = b["url"]
    BY <1>5 DEF FormFields
  <2>3. QED
    BY <1>3, <1>4, <2>1, <2>2
<1>8. \A field \in {"name", "plain", "alias", "color", "tag", "write"} : f[field] = e[field]
  BY <1>3, <1>5, <1>6 DEF FormFields
<1>9. \A field \in {"where", "key_path", "encrypted"} : f[field] = e.ssh[field]
  BY <1>5, <1>6 DEF FormFields
<1>10. \A field \in SecretFields : f[field] = ""
  <2>1. \A field \in SecretFields : t[field] = b[field]
    BY <1>5 DEF FormFields, SecretFields
  <2>2. \A field \in SecretFields : f[field] = t[field]
    BY <1>6 DEF FormFields, SecretFields
  <2>3. QED
    BY <1>4, <2>1, <2>2
<1>11. f.use_emulator = (e.kind = "firestore" /\ ~ e.keyed)
  BY <1>3, <1>5, <1>6 DEF FormFields
<1>12. f.use_url = (usesDsnFields(e.kind) /\ ~ shown)
  <2>1. CASE shown
    BY <1>6, <2>1 DEF IsForm, Toggles
  <2>2. CASE ~ shown
    <3>1. f.use_url = t.use_url
      BY <1>6, <2>2
    <3>2. t["use_url"] = b["use_url"]
      BY <1>5 DEF FormFields
    <3>3. f.use_url = usesDsnFields(e.kind)
      BY <1>3, <3>1, <3>2
    <3>4. QED
      BY <2>2, <3>3 DEF usesDsnFields
  <2>3. QED
    BY <2>1, <2>2
<1>13. f.ssh_enabled = (e.ssh # NoSsh) /\ (e.ssh # NoSsh => f.auth = e.ssh.auth)
  BY <1>5, <1>6 DEF FormFields
<1>14. QED
  BY <1>1, <1>6, <1>7, <1>8, <1>9, <1>10, <1>11, <1>12, <1>13

\* What a user can make of a field suits it; a secret typed is the new one.
LEMMA ValuesSuit ==
    ASSUME FormAssumption, IsForm(form), NEW field \in Fields(form), NEW value \in other(field)
    PROVE  Suits(field, value) /\ (field \in SecretFields => value = "new")
<1>1. field \in FormFields \ {"mode", "kind"}
  BY DEF Fields, Typed, DsnFields, SshFields, FormFields
<1>2. CASE field \in Toggles
  <2>1. form[field] \in BOOLEAN
    BY <1>2 DEF IsForm, Toggles
  <2>2. value = ~ form[field]
    BY <1>2 DEF other, Toggles, Typed, optionalFields
  <2>3. QED
    BY <1>1, <1>2, <2>1, <2>2 DEF Suits, Toggles, TextFields, SecretFields
<1>3. CASE field \in Typed \union optionalFields(form.kind)
  BY <1>1, <1>3 DEF other, Suits, Toggles, TextFields, SecretFields, Typed, optionalFields, Words
<1>4. CASE field = "db_ssl"
  BY <1>1, <1>4 DEF other, Suits, Toggles, TextFields, SecretFields, Typed, optionalFields
<1>5. CASE field = "auth"
  BY <1>1, <1>5 DEF other, Suits, Toggles, TextFields, SecretFields, Typed, optionalFields
<1>6. CASE field = "url"
  BY <1>1, <1>6, SecretsAreSecrets DEF other, Suits, Toggles, TextFields, SecretFields, Typed, optionalFields
<1>7. CASE field \notin Toggles \union Typed \union optionalFields(form.kind) \union {"db_ssl", "auth", "url"}
  <2>1. value = "new"
    BY <1>7 DEF other
  <2>2. QED
    BY <1>1, <1>7, <2>1 DEF Suits, TextFields, SecretFields, Words, Boxes
<1>8. QED
  BY <1>2, <1>3, <1>4, <1>5, <1>6, <1>7

-------------------------------------------------------------------------------
(* What a form sends. *)

\* The slots an entry refers to, one by one.
LEMMA SlotsReferredTo ==
    ASSUME NEW e, e # NoEntry
    PROVE  /\ refs_of(e) \subseteq Slots
           /\ "own" \in refs_of(e) <=> e.keyed
           /\ "passphrase" \in refs_of(e) <=> e.ssh.encrypted
           /\ "password" \in refs_of(e) <=> e.ssh.auth = "password"
  BY DEF refs_of, Slots

LEMMA NoEntryRefersToNothing == refs_of(NoEntry) = {}
  BY DEF refs_of

LEMMA SecretBoxes ==
    ASSUME NEW box \in Boxes
    PROVE  /\ secret_field(whole(box)) = IF box = "" THEN Keep ELSE whole("new")
           /\ secret_field(whole(box)) \in Secrets \ {Nothing}
           /\ secret_field(whole(box)).query = ""
           /\ whole("new") \notin {Nothing, Keep, Drop}
  BY DEF Boxes, secret_field, whole, Nothing, Keep, Drop, Secrets, Words

\* dsnFor a form that passes: a string, and never none where one is asked for.
LEMMA ComposedStrings ==
    ASSUME FormAssumption, NEW f, IsForm(f), usesDsnFields(f.kind), invalid(f) = {}
    PROVE  /\ dsnFor(f) \in Secrets /\ dsnFor(f) # Keep
           /\ dsnFor(f) = Nothing => f.mode = "edit" /\ f.use_url /\ f.url = Nothing
           /\ ~ f.use_url => f.db_host # ""
<1>1. CASE f.use_url
  <2>1. dsnFor(f) = f.url
    BY <1>1 DEF dsnFor
  <2>2. f.mode = "add" => f.url # Nothing
    BY <1>1 DEF invalid, validate
  <2>3. QED
    BY <1>1, <2>1, <2>2 DEF IsForm
<1>2. CASE ~ f.use_url
  <2>1. f.db_host # "" /\ f.db_host \in Words /\ f.db_password \in Words
    BY <1>2 DEF invalid, validateDsn, IsForm, TextFields, SecretFields, Boxes, Words
  <2>2. sslQuery(f.db_ssl) \in {"", "tls off"}
    BY DEF sslQuery
  <2>3. dsnFor(f) = [host |-> f.db_host, query |-> sslQuery(f.db_ssl), password |-> f.db_password]
    BY <1>2 DEF dsnFor, composeDsn
  <2>4. dsnFor(f) \in Secrets
    <3>1. f.db_password \in Words
      BY DEF IsForm, SecretFields, Boxes, Words
    <3>2. \A h \in Words, q \in {"", "tls off"}, p \in Words :
             [host |-> h, query |-> q, password |-> p] \in Secrets
      BY DEF Secrets
    <3>3. QED
      BY <2>1, <2>2, <2>3, <3>1, <3>2
  <2>5. Keep.host = "" /\ Nothing.host = "" /\ dsnFor(f).host = f.db_host
    BY <2>3 DEF Keep, Nothing, whole
  <2>6. QED
    BY <1>2, <2>1, <2>4, <2>5
<1>3. QED
  BY <1>1, <1>2

\* The credential of a new connection: one that is stored is there.
LEMMA CredentialsOfAdd ==
    ASSUME FormAssumption, IsForm(form), form.mode = "add", invalid(form) = {},
           NEW credential, credential = to_add_draft(form),
           NEW refers, refers = apply_update_kind(form, credential, FALSE)
    PROVE  /\ credential \in Secrets /\ refers \in BOOLEAN
           /\ form.kind = "file" => ~ refers
           /\ form.kind \notin {"file", "firestore"} => refers
           /\ refers => credential \notin {Nothing, Keep}
           /\ refers /\ ~ usesDsnFields(form.kind) => credential.query = ""
<1>1. form.kind \in {"file", "dsn", "redis", "mongodb", "token", "firestore"} /\ form.secret \in Boxes
  BY KindsAreShapes DEF IsForm, SecretFields
<1>2. Keep \in Secrets /\ Drop \in Secrets /\ Drop # Keep
  BY SecretsAreSecrets
<1>3. whole("new") \in Secrets \ {Nothing, Keep, Drop} /\ whole("new").query = ""
  BY DEF whole, Nothing, Keep, Drop, Secrets, Words
<1>4. CASE form.kind = "file"
  BY <1>2, <1>4 DEF to_add_draft, apply_update_kind, usesDsnFields
<1>5. CASE form.kind = "dsn"
  <2>1. credential = dsnFor(form)
    BY <1>5 DEF to_add_draft, usesDsnFields
  <2>2. refers = TRUE
    BY <1>5 DEF apply_update_kind
  <2>3. QED
    BY <1>5, <2>1, <2>2, ComposedStrings DEF usesDsnFields
<1>6. CASE form.kind = "firestore"
  <2>1. refers = (credential # Drop) \/ credential = Keep
    BY <1>6 DEF apply_update_kind, apply_firestore_edit
  <2>2. CASE form.use_emulator \/ form.secret = ""
    <3>1. credential = Drop
      BY <1>6, <2>2 DEF to_add_draft, usesDsnFields
    <3>2. refers = FALSE
      BY <1>2, <1>6, <3>1 DEF apply_update_kind, apply_firestore_edit
    <3>3. QED
      BY <1>2, <1>6, <3>1, <3>2
  <2>3. CASE ~ form.use_emulator /\ form.secret # ""
    <3>1. credential = whole("new")
      BY <1>1, <1>6, <2>3 DEF to_add_draft, usesDsnFields, Boxes
    <3>2. refers = TRUE
      BY <1>3, <1>6, <3>1 DEF apply_update_kind, apply_firestore_edit
    <3>3. QED
      BY <1>3, <1>6, <3>1, <3>2
  <2>4. QED
    BY <2>2, <2>3
<1>7. CASE form.kind \in {"redis", "mongodb", "token"}
  <2>1. form.secret # ""
    BY <1>7 DEF invalid, validate, requiredFields
  <2>2. credential = whole("new")
    BY <1>1, <1>7, <2>1 DEF to_add_draft, usesDsnFields, Boxes
  <2>3. refers = TRUE
    BY <1>7 DEF apply_update_kind
  <2>4. QED
    BY <1>3, <1>7, <2>2, <2>3
<1>8. QED
  BY <1>1, <1>4, <1>5, <1>6, <1>7

\* Grafting a password keeps the host.
LEMMA GraftedStrings ==
    ASSUME NEW f, NEW url \in Secrets, url # Keep, NEW source \in Secrets,
           keepStoredPassword(f) /\ url # Nothing => url.host # ""
    PROVE  /\ graft_url(f, url, source) \in Secrets
           /\ graft_url(f, url, source) # Keep
<1>1. CASE keepStoredPassword(f) /\ url # Nothing /\ source.password # ""
  <2>1. graft_url(f, url, source) = [url EXCEPT !.password = source.password]
    BY <1>1 DEF graft_url, with_password
  <2>2. [url EXCEPT !.password = source.password] \in Secrets
    BY DEF Secrets
  <2>3. [url EXCEPT !.password = source.password].host = url.host
    BY DEF Secrets
  <2>4. Keep.host = ""
    BY DEF Keep, whole
  <2>5. QED
    BY <1>1, <2>1, <2>2, <2>3, <2>4
<1>2. CASE ~ (keepStoredPassword(f) /\ url # Nothing /\ source.password # "")
  BY <1>2 DEF graft_url, with_password
<1>3. QED
  BY <1>1, <1>2

\* The credential of an edited one: it is kept only where one is stored.
LEMMA CredentialsOfUpdate ==
    ASSUME FormAssumption, IsForm(form), form.mode = "edit", invalid(form) = {},
           IsEntry(entry), entry.kind = form.kind, slots \in [Slots -> Secrets],
           NEW credential, credential = to_edit_draft(form, graft_url(form, dsnFor(form), slots.own)),
           NEW refers, refers = apply_update_kind(form, credential, entry.keyed)
    PROVE  /\ credential \in Secrets /\ refers \in BOOLEAN
           /\ form.kind = "file" => ~ refers
           /\ form.kind \notin {"file", "firestore"} => refers
           /\ refers => credential # Nothing
           /\ refers /\ credential = Keep => entry.keyed
           /\ refers /\ credential # Keep /\ ~ usesDsnFields(form.kind) => credential.query = ""
<1>1. form.kind \in {"file", "dsn", "redis", "mongodb", "token", "firestore"} /\ form.secret \in Boxes
  BY KindsAreShapes DEF IsForm, SecretFields
<1>2. Keep \in Secrets /\ Drop \in Secrets /\ Drop # Keep /\ Keep # Nothing
  BY SecretsAreSecrets
<1>3. secret_field(whole(form.secret)) \in Secrets \ {Nothing}
      /\ secret_field(whole(form.secret)).query = ""
  BY <1>1, SecretBoxes
<1>4. CASE form.kind = "file"
  BY <1>2, <1>4 DEF to_edit_draft, apply_update_kind, usesDsnFields
<1>5. CASE form.kind = "dsn"
  <2> DEFINE dsn == graft_url(form, dsnFor(form), slots.own)
  <2>1. dsn \in Secrets
    <3>1. slots.own \in Secrets
      BY DEF Slots
    <3>2. dsnFor(form) \in Secrets /\ dsnFor(form) # Keep
      BY <1>5, ComposedStrings DEF usesDsnFields
    <3>3. keepStoredPassword(form) => dsnFor(form).host # ""
      BY <1>5, ComposedStrings DEF usesDsnFields, keepStoredPassword, dsnFor, composeDsn
    <3>4. QED
      BY <3>1, <3>2, <3>3, GraftedStrings
  <2> HIDE DEF dsn
  <2>2. credential = secret_field(dsn)
    BY <1>5 DEF to_edit_draft, usesDsnFields, dsn
  <2>3. credential \in Secrets /\ credential # Nothing
    BY <1>2, <2>1, <2>2 DEF secret_field
  <2>4. refers = TRUE
    BY <1>5 DEF apply_update_kind
  <2>5. entry.keyed
    BY <1>5 DEF IsEntry
  <2>6. QED
    BY <1>5, <2>3, <2>4, <2>5 DEF usesDsnFields
<1>6. CASE form.kind = "firestore"
  <2>1. CASE form.use_emulator
    <3>1. credential = Drop
      BY <1>6, <2>1 DEF to_edit_draft, usesDsnFields
    <3>2. refers = FALSE
      BY <1>2, <1>6, <3>1 DEF apply_update_kind, apply_firestore_edit
    <3>3. QED
      BY <1>2, <1>6, <3>1, <3>2
  <2>2. CASE ~ form.use_emulator
    <3>1. credential = secret_field(whole(form.secret))
      BY <1>6, <2>2 DEF to_edit_draft, usesDsnFields
    <3>2. entry.keyed \in BOOLEAN
      BY DEF IsEntry, Entries
    <3>3. refers = IF credential = Keep THEN entry.keyed ELSE credential # Drop
      BY <1>6 DEF apply_update_kind, apply_firestore_edit
    <3>4. QED
      BY <1>3, <1>6, <3>1, <3>2, <3>3
  <2>3. QED
    BY <2>1, <2>2
<1>7. CASE form.kind \in {"redis", "mongodb", "token"}
  <2>1. credential = secret_field(whole(form.secret))
    BY <1>7 DEF to_edit_draft, usesDsnFields
  <2>2. refers = TRUE
    BY <1>7 DEF apply_update_kind
  <2>3. entry.keyed
    BY <1>7 DEF IsEntry
  <2>4. QED
    BY <1>3, <1>7, <2>1, <2>2, <2>3
<1>8. QED
  BY <1>1, <1>4, <1>5, <1>6, <1>7

LEMMA TunnelSecrets ==
    ASSUME NEW f, IsForm(f), NEW slot \in {"passphrase", "password"}
    PROVE  SshSecret(f, slot) \in Secrets \ {Nothing}
  BY SecretBoxes DEF SshSecret, IsForm, SecretFields

\* The tunnel of a new connection comes with its secrets.
LEMMA TunnelsOfAdd ==
    ASSUME IsForm(form), form.mode = "add", invalid(form) = {}
    PROVE  LET ssh == build_ssh_for_add(form)
           IN  /\ ssh \in Sshs /\ (~ supportsSshTunnel(form.kind) => ssh = NoSsh)
               /\ ssh.encrypted => SshSecret(form, "passphrase") # Keep
               /\ ssh.auth = "password" => SshSecret(form, "password") # Keep
<1>1. CASE ~ tunnelled(form)
  BY <1>1 DEF build_ssh_for_add, tunnelled, Sshs, NoSsh
<1>2. CASE tunnelled(form)
  <2> DEFINE ssh == build_ssh_for_add(form)
  <2>1. ssh = ssh_toml(form, form.ssh_passphrase # "")
    BY <1>2 DEF build_ssh_for_add, to_ssh_draft
  <2>2. /\ ssh \in Sshs /\ ssh.auth = form.auth
        /\ ssh.encrypted = (form.auth = "key" /\ form.ssh_passphrase # "")
    BY <2>1, WrittenTunnels
  <2>3. form.auth = "password" => form.ssh_password # ""
    BY <1>2 DEF invalid, validateSsh, tunnelled
  <2>4. form.ssh_passphrase \in Boxes /\ form.ssh_password \in Boxes
    BY DEF IsForm, SecretFields
  <2>5. ssh.encrypted => SshSecret(form, "passphrase") # Keep
    BY <2>2, <2>4, SecretBoxes DEF SshSecret
  <2>6. ssh.auth = "password" => SshSecret(form, "password") # Keep
    BY <2>2, <2>3, <2>4, SecretBoxes DEF SshSecret
  <2>7. QED
    BY <1>2, <2>2, <2>5, <2>6 DEF tunnelled
<1>3. QED
  BY <1>1, <1>2

\* That of an edited one is refused unless the secrets it keeps are there.
LEMMA TunnelsOfUpdate ==
    ASSUME IsForm(form), apply_update_ssh(form, entry.ssh) # Refused
    PROVE  LET ssh == apply_update_ssh(form, entry.ssh)
           IN  /\ ssh \in Sshs /\ (~ supportsSshTunnel(form.kind) => ssh = NoSsh)
               /\ ssh = IF tunnelled(form) THEN ssh_toml(form, form.encrypted) ELSE NoSsh
               /\ ssh.encrypted /\ SshSecret(form, "passphrase") = Keep => entry.ssh.encrypted
               /\ ssh.auth = "password" /\ SshSecret(form, "password") = Keep => entry.ssh.auth = "password"
<1>1. CASE ~ tunnelled(form)
  BY <1>1 DEF apply_update_ssh, tunnelled, Sshs, NoSsh
<1>2. CASE tunnelled(form)
  <2> DEFINE ssh == ssh_toml(form, form.encrypted)
             needed == refs_of([keyed |-> FALSE, ssh |-> ssh])
             existing == refs_of([keyed |-> FALSE, ssh |-> entry.ssh])
  <2>1. /\ apply_update_ssh(form, entry.ssh) = ssh
        /\ {slot \in needed : SshSecret(form, slot) = Keep} \subseteq existing
    BY <1>2 DEF apply_update_ssh, to_ssh_edit_field
  <2>2. form.encrypted \in BOOLEAN
    BY DEF IsForm, Toggles
  <2>3. ssh \in Sshs
    BY <2>2, WrittenTunnels
  <2> HIDE DEF ssh
  <2>4. [keyed |-> FALSE, ssh |-> ssh] # NoEntry /\ [keyed |-> FALSE, ssh |-> entry.ssh] # NoEntry
    BY DEF NoEntry
  <2>5. /\ "passphrase" \in needed <=> ssh.encrypted
        /\ "password" \in needed <=> ssh.auth = "password"
    BY <2>4, SlotsReferredTo
  <2>6. /\ "passphrase" \in existing <=> entry.ssh.encrypted
        /\ "password" \in existing <=> entry.ssh.auth = "password"
    BY <2>4, SlotsReferredTo
  <2>7. QED
    BY <1>2, <2>1, <2>3, <2>5, <2>6 DEF tunnelled, ssh
<1>3. QED
  BY <1>1, <1>2

-------------------------------------------------------------------------------
(* The entry and its slots, through every save. *)

EntryInv == FormInv /\ SecretsMatchTheEntry

\* Slots once an entry replaced the old one.
LEMMA ResavedSlots ==
    ASSUME FormTypes, NEW e, NEW value \in [Slots -> Secrets], NEW left
    PROVE  /\ resaved(e, value, left) \in [Slots -> Secrets]
           /\ \A slot \in Slots : resaved(e, value, left)[slot] =
                  IF slot \in refs_of(e) THEN value[slot]
                  ELSE IF slot \in refs_of(entry) \ left THEN Nothing ELSE slots[slot]
<1>1. Nothing \in Secrets
  BY DEF Nothing, whole, Secrets, Words
<1>2. QED
  BY <1>1 DEF FormTypes, resaved

\* Whatever is left in a slot that is not referred to was left by a purge.
LEMMA ResavedMatches ==
    ASSUME FormTypes, SecretsMatchTheEntry, NEW e, refs_of(e) \subseteq Slots,
           NEW value \in [Slots -> Secrets], NEW left,
           \A slot \in refs_of(e) : value[slot] # Nothing,
           slots' = resaved(e, value, left), entry' = e, unpurged' = unpurged \union left
    PROVE  SecretsMatchTheEntry'
<1> SUFFICES ASSUME NEW slot \in Slots
             PROVE  /\ slot \in refs_of(e) => slots'[slot] # Nothing
                    /\ slots'[slot] # Nothing => slot \in refs_of(e) \union unpurged'
  BY DEF SecretsMatchTheEntry, refs_of
<1>1. slots'[slot] = IF slot \in refs_of(e) THEN value[slot]
                     ELSE IF slot \in refs_of(entry) \ left THEN Nothing ELSE slots[slot]
  BY ResavedSlots
<1>2. slots[slot] # Nothing => slot \in refs_of(entry) \union unpurged
  BY DEF SecretsMatchTheEntry
<1>3. QED
  BY <1>1, <1>2

\* A save that finds every secret it keeps.
LEMMA CommitsMatch ==
    ASSUME FormAssumption, EntryInv, IsForm(form), NEW e, IsEntry(e), NEW credential \in Secrets,
           commit(e, credential),
           e.keyed => credential # Nothing,
           e.keyed /\ credential = Keep => entry # NoEntry /\ entry.keyed /\ entry.kind = e.kind,
           e.keyed /\ credential # Keep /\ ~ usesDsnFields(e.kind) => credential.query = "",
           e.ssh.encrypted /\ SshSecret(form, "passphrase") = Keep =>
               entry # NoEntry /\ entry.ssh.encrypted,
           e.ssh.auth = "password" /\ SshSecret(form, "password") = Keep =>
               entry # NoEntry /\ entry.ssh.auth = "password"
    PROVE  EntryInv'
<1> DEFINE value == written(form, credential)
<1>1. PICK left \in SUBSET (refs_of(entry) \ refs_of(e)) :
          slots' = resaved(e, value, left) /\ unpurged' = unpurged \union left
  BY DEF commit
<1>2. /\ entry' = e /\ held' = e /\ form' = Closed /\ touched' = {}
  BY DEF commit
<1>3. slots \in [Slots -> Secrets] /\ FormTypes
  BY DEF EntryInv, FormInv, FormTypes
<1>4. e # NoEntry
  BY EntryIsNotNone
<1>5. \A slot \in Slots :
          value[slot] = LET draft == IF slot = "own" THEN credential ELSE SshSecret(form, slot)
                        IN  IF draft = Keep THEN slots[slot] ELSE draft
  BY DEF written, apply_secret_write
<1>6. /\ SshSecret(form, "passphrase") \in Secrets \ {Nothing}
      /\ SshSecret(form, "password") \in Secrets \ {Nothing}
  BY TunnelSecrets
<1>7. value \in [Slots -> Secrets]
  <2>1. ASSUME NEW slot \in Slots PROVE value[slot] \in Secrets
    BY <1>3, <1>5, <1>6 DEF Slots
  <2>2. value = [slot \in Slots |-> value[slot]]
    BY DEF written
  <2> HIDE DEF value
  <2>3. QED
    BY <2>1, <2>2
<1> HIDE DEF value
<1>8. entry # NoEntry => /\ entry.keyed => slots["own"] # Nothing
                         /\ entry.ssh.encrypted => slots["passphrase"] # Nothing
                         /\ entry.ssh.auth = "password" => slots["password"] # Nothing
  BY SlotsReferredTo DEF EntryInv, SecretsMatchTheEntry, Slots
<1>9. \A slot \in refs_of(e) : value[slot] # Nothing
  <2>1. e.keyed => value["own"] # Nothing
    BY <1>5, <1>8 DEF Slots
  <2>2. e.ssh.encrypted => value["passphrase"] # Nothing
    BY <1>5, <1>6, <1>8 DEF Slots
  <2>3. e.ssh.auth = "password" => value["password"] # Nothing
    BY <1>5, <1>6, <1>8 DEF Slots
  <2>4. QED
    BY <1>4, <2>1, <2>2, <2>3, SlotsReferredTo DEF Slots
<1>10. SecretsMatchTheEntry'
  BY <1>1, <1>2, <1>3, <1>4, <1>7, <1>9, ResavedMatches, SlotsReferredTo DEF EntryInv
<1>11. e.keyed /\ ~ usesDsnFields(e.kind) => slots'["own"].query = ""
  <2> SUFFICES ASSUME e.keyed, ~ usesDsnFields(e.kind) PROVE slots'["own"].query = ""
    OBVIOUS
  <2>1. slots'["own"] = value["own"]
    <3>1. "own" \in refs_of(e) /\ "own" \in Slots
      BY <1>4, SlotsReferredTo DEF Slots
    <3>2. QED
      BY <1>1, <1>3, <1>7, <3>1, ResavedSlots
  <2>2. credential = Keep => slots["own"].query = ""
    BY DEF EntryInv, FormInv, FormTypes
  <2>3. QED
    BY <1>5, <2>1, <2>2 DEF Slots
<1>12. FormTypes'
  <2>1. slots' \in [Slots -> Secrets]
    BY <1>1, <1>3, <1>7, ResavedSlots
  <2>2. (entry = NoEntry \/ IsEntry(entry))' /\ (held = NoEntry \/ IsEntry(held))'
    BY <1>2 DEF IsEntry, supportsSshTunnel
  <2>3. QED
    BY <1>2, <1>11, <2>1, <2>2 DEF FormTypes, usesDsnFields
<1>13. QED
  BY <1>2, <1>10, <1>12 DEF EntryInv, FormInv, TypedSecrets, FilledInv

\* A save that failed leaves the form as it was.
LEMMA RefusalsKeep ==
    ASSUME EntryInv, refuse, slots' \in [Slots -> Secrets],
           SecretsMatchTheEntry', entry # NoEntry => slots' = slots
    PROVE  EntryInv'
<1>1. /\ entry' = entry /\ form' = form /\ touched' = touched /\ moved' = moved
      /\ unpurged' = unpurged /\ held' \in {held, entry}
  BY DEF refuse
<1>2. FormTypes' /\ TypedSecrets'
  <2>1. (held = NoEntry \/ IsEntry(held))' /\ (entry = NoEntry \/ IsEntry(entry))'
    BY <1>1 DEF EntryInv, FormInv, FormTypes, IsEntry, supportsSshTunnel
  <2>2. (form = Closed \/ IsForm(form))'
    BY <1>1 DEF EntryInv, FormInv, FormTypes, IsForm
  <2>3. (entry # NoEntry /\ entry.keyed /\ ~ usesDsnFields(entry.kind) => slots["own"].query = "")'
    BY <1>1 DEF EntryInv, FormInv, FormTypes, usesDsnFields
  <2>4. TypedSecrets'
    BY <1>1 DEF EntryInv, FormInv, TypedSecrets, usesDsnFields
  <2>5. QED
    BY <2>1, <2>2, <2>3, <2>4 DEF FormTypes
<1>3. FilledInv'
  BY <1>1 DEF EntryInv, FormInv, FilledInv, FilledFrom, usesDsnFields, parses, sslModeFromQuery
<1>4. QED
  BY <1>2, <1>3 DEF EntryInv, FormInv

LEMMA AddKeeps ==
    ASSUME FormAssumption, EntryInv, IsForm(form), invalid(form) = {}, form.mode = "add",
           add_connection
    PROVE  EntryInv'
<1> DEFINE credential == to_add_draft(form)
           refers == apply_update_kind(form, credential, FALSE)
           ssh == build_ssh_for_add(form)
           e == drafted(form, refers, ssh)
           undone == [slot \in Slots |-> IF slot \in refs_of(e) THEN Nothing ELSE slots[slot]]
<1>1. CASE entry = NoEntry /\ commit(e, credential)
  <2>1. /\ credential \in Secrets /\ refers \in BOOLEAN
        /\ form.kind = "file" => ~ refers
        /\ form.kind \notin {"file", "firestore"} => refers
        /\ refers => credential \notin {Nothing, Keep}
        /\ refers /\ ~ usesDsnFields(form.kind) => credential.query = ""
    BY CredentialsOfAdd
  <2>2. /\ ssh \in Sshs /\ (~ supportsSshTunnel(form.kind) => ssh = NoSsh)
        /\ ssh.encrypted => SshSecret(form, "passphrase") # Keep
        /\ ssh.auth = "password" => SshSecret(form, "password") # Keep
    BY TunnelsOfAdd
  <2> HIDE DEF credential, refers, ssh
  <2>3. IsEntry(e) /\ e.keyed = refers /\ e.ssh = ssh /\ e.kind = form.kind
    BY <2>1, <2>2, DraftedEntries DEF drafted
  <2> HIDE DEF e
  <2>4. QED
    BY <1>1, <2>1, <2>2, <2>3, CommitsMatch
<1>2. CASE refuse /\ slots' \in {slots} \union (IF entry = NoEntry THEN {undone} ELSE {})
  <2>1. slots \in [Slots -> Secrets] /\ Nothing \in Secrets
    BY SecretsAreSecrets DEF EntryInv, FormInv, FormTypes
  <2> HIDE DEF e
  <2>2. undone \in [Slots -> Secrets] /\ \A slot \in Slots : undone[slot] \in {Nothing, slots[slot]}
    BY <2>1
  <2>3. slots' = slots \/ (entry = NoEntry /\ slots' = undone)
    BY <1>2
  <2>4. entry' = entry /\ unpurged' = unpurged
    BY <1>2 DEF refuse
  <2> HIDE DEF undone
  <2>5. SecretsMatchTheEntry'
    <3>1. CASE slots' = slots
      BY <2>4, <3>1 DEF EntryInv, SecretsMatchTheEntry, refs_of
    <3>2. CASE entry = NoEntry /\ slots' = undone
      <4>1. refs_of(entry)' = {} /\ refs_of(entry) = {}
        BY <2>4, <3>2 DEF refs_of
      <4>2. QED
        BY <2>2, <2>4, <3>2, <4>1 DEF EntryInv, SecretsMatchTheEntry
    <3>3. QED
      BY <2>3, <3>1, <3>2
  <2>6. QED
    BY <1>2, <2>1, <2>2, <2>3, <2>5, RefusalsKeep
<1>3. QED
  BY <1>1, <1>2 DEF add_connection

LEMMA UpdateKeeps ==
    ASSUME FormAssumption, EntryInv, IsForm(form), invalid(form) = {}, form.mode = "edit",
           update_connection
    PROVE  EntryInv'
<1> DEFINE credential == to_edit_draft(form, graft_url(form, dsnFor(form), slots.own))
           refers == apply_update_kind(form, credential, entry.keyed)
           ssh == apply_update_ssh(form, entry.ssh)
           e == drafted(form, refers, ssh)
<1>1. CASE /\ graftable(form) /\ entry # NoEntry
           /\ entry.kind = form.kind /\ ssh # Refused /\ commit(e, credential)
  <2>1. IsEntry(entry) /\ slots \in [Slots -> Secrets]
    BY <1>1 DEF EntryInv, FormInv, FormTypes
  <2>2. /\ credential \in Secrets /\ refers \in BOOLEAN
        /\ form.kind = "file" => ~ refers
        /\ form.kind \notin {"file", "firestore"} => refers
        /\ refers => credential # Nothing
        /\ refers /\ credential = Keep => entry.keyed
        /\ refers /\ credential # Keep /\ ~ usesDsnFields(form.kind) => credential.query = ""
    BY <1>1, <2>1, CredentialsOfUpdate
  <2>3. /\ ssh \in Sshs /\ (~ supportsSshTunnel(form.kind) => ssh = NoSsh)
        /\ ssh.encrypted /\ SshSecret(form, "passphrase") = Keep => entry.ssh.encrypted
        /\ ssh.auth = "password" /\ SshSecret(form, "password") = Keep => entry.ssh.auth = "password"
    BY <1>1, TunnelsOfUpdate
  <2> HIDE DEF credential, refers, ssh
  <2>4. IsEntry(e) /\ e.keyed = refers /\ e.ssh = ssh /\ e.kind = form.kind
    BY <2>2, <2>3, DraftedEntries DEF drafted
  <2> HIDE DEF e
  <2>5. QED
    BY <1>1, <2>2, <2>3, <2>4, CommitsMatch
<1>2. CASE refuse /\ UNCHANGED slots
  <2>1. slots' \in [Slots -> Secrets]
    BY <1>2 DEF EntryInv, FormInv, FormTypes
  <2>2. SecretsMatchTheEntry'
    BY <1>2 DEF refuse, EntryInv, SecretsMatchTheEntry, refs_of
  <2>3. QED
    BY <1>2, <2>1, <2>2, RefusalsKeep
<1>3. QED
  BY <1>1, <1>2 DEF update_connection

LEMMA EntryInvInit == ASSUME FormAssumption, FormInit PROVE EntryInv
<1>1. Nothing \in Secrets /\ whole("stored") \in Secrets \ {Nothing} /\ whole("stored").query = ""
  BY DEF Nothing, whole, Secrets, Words
<1>2. CASE entry = NoEntry /\ slots = [slot \in Slots |-> Nothing]
  <2>1. slots \in [Slots -> Secrets]
    BY <1>1, <1>2
  <2>2. SecretsMatchTheEntry
    BY <1>2, NoEntryRefersToNothing DEF SecretsMatchTheEntry
  <2>3. QED
    BY <1>2, <2>1, <2>2 DEF EntryInv, FormInv, FormTypes, TypedSecrets, FilledInv, FormInit
<1>3. ASSUME NEW kind \in Kinds, NEW e \in Stored(kind), NEW own \in OwnSecrets(kind), entry = e,
             slots = [slot \in Slots |-> IF slot \notin refs_of(e) THEN Nothing
                                         ELSE IF slot = "own" THEN own ELSE whole("stored")]
      PROVE  EntryInv
  <2>1. IsEntry(e) /\ e # NoEntry /\ e.kind = kind
    BY StoredEntries DEF Stored
  <2>2. own \in Secrets \ {Nothing} /\ (~ usesDsnFields(kind) => own.query = "")
    BY SecretsAreSecrets
  <2>3. slots \in [Slots -> Secrets]
    BY <1>1, <1>3, <2>2
  <2>4. SecretsMatchTheEntry
    BY <1>1, <1>3, <2>2 DEF SecretsMatchTheEntry
  <2>5. e.keyed => slots["own"] = own
    BY <1>3, <2>1, SlotsReferredTo DEF Slots
  <2>6. QED
    BY <1>3, <2>1, <2>2, <2>3, <2>4, <2>5 DEF EntryInv, FormInv, FormTypes, TypedSecrets, FilledInv, FormInit
<1>4. QED
  BY <1>2, <1>3 DEF FormInit

\* A step that leaves the entry, its slots and what is left of them alone.
LEMMA EntryUntouched ==
    ASSUME EntryInv, UNCHANGED <<entry, slots, unpurged>>,
           held' = held \/ held' = entry, (form = Closed \/ IsForm(form))'
    PROVE  FormTypes' /\ SecretsMatchTheEntry'
<1>1. SecretsMatchTheEntry'
  BY DEF EntryInv, SecretsMatchTheEntry, refs_of
<1>2. (held = NoEntry \/ IsEntry(held))' /\ (entry = NoEntry \/ IsEntry(entry))'
  BY DEF EntryInv, FormInv, FormTypes, IsEntry, supportsSshTunnel
<1>3. slots' \in [Slots -> Secrets]
      /\ (entry # NoEntry /\ entry.keyed /\ ~ usesDsnFields(entry.kind) => slots["own"].query = "")'
  BY DEF EntryInv, FormInv, FormTypes, usesDsnFields
<1>4. QED
  BY <1>1, <1>2, <1>3 DEF FormTypes

LEMMA StartEditKeeps ==
    ASSUME FormAssumption, EntryInv, startEdit
    PROVE  EntryInv'
<1>1. PICK readable \in BOOLEAN :
          form' = formForEdit(held.name, connection_edit_fields(held), dsn_prefill(readable))
  BY DEF startEdit
<1>2. /\ held # NoEntry /\ touched' = {} /\ moved' = (held # entry)
      /\ UNCHANGED <<entry, held, slots, unpurged>>
  BY DEF startEdit
<1>3. IsEntry(held) /\ slots \in [Slots -> Secrets]
  BY <1>2 DEF EntryInv, FormInv, FormTypes
<1>4. PICK shown \in BOOLEAN :
          /\ form' = formForEdit(held.name, connection_edit_fields(held), shown)
          /\ shown => usesDsnFields(held.kind) /\ parses(slots["own"])
  <2>1. dsn_prefill(readable) \in BOOLEAN
    BY DEF dsn_prefill, usesDsnFields, parses
  <2>2. dsn_prefill(readable) => usesDsnFields(held.kind) /\ parses(slots["own"])
    BY DEF dsn_prefill
  <2>3. QED
    BY <1>1, <2>1, <2>2, Zenon
<1>5. /\ IsForm(form') /\ form'.mode = "edit" /\ form'.kind = held.kind
      /\ \A field \in {"name", "plain", "alias", "color", "tag", "write"} : form'[field] = held[field]
      /\ \A field \in {"where", "key_path", "encrypted"} : form'[field] = held.ssh[field]
      /\ \A field \in SecretFields : form'[field] = ""
      /\ form'.use_emulator = (held.kind = "firestore" /\ ~ held.keyed)
      /\ form'.use_url = (usesDsnFields(held.kind) /\ ~ shown)
      /\ form'.url = Nothing
      /\ shown => form'.db_host = slots["own"].host /\ form'.db_ssl = sslModeFromQuery(slots["own"].query)
      /\ form'.ssh_enabled = (held.ssh # NoSsh)
      /\ held.ssh # NoSsh => form'.auth = held.ssh.auth
  <2> DEFINE f == formForEdit(held.name, connection_edit_fields(held), shown)
  <2>1. /\ IsForm(f) /\ f.mode = "edit" /\ f.kind = held.kind
        /\ \A field \in {"name", "plain", "alias", "color", "tag", "write"} : f[field] = held[field]
        /\ \A field \in {"where", "key_path", "encrypted"} : f[field] = held.ssh[field]
        /\ \A field \in SecretFields : f[field] = ""
        /\ f.use_emulator = (held.kind = "firestore" /\ ~ held.keyed)
        /\ f.use_url = (usesDsnFields(held.kind) /\ ~ shown)
        /\ f.url = Nothing
        /\ shown => f.db_host = slots["own"].host /\ f.db_ssl = sslModeFromQuery(slots["own"].query)
        /\ f.ssh_enabled = (held.ssh # NoSsh)
        /\ held.ssh # NoSsh => f.auth = held.ssh.auth
    BY <1>3, FilledForms
  <2>2. form' = f
    BY <1>4
  <2> HIDE DEF f
  <2>3. QED
    BY <2>1, <2>2
<1>6. FormTypes' /\ SecretsMatchTheEntry'
  BY <1>2, <1>5, EntryUntouched DEF IsForm
<1>7. TypedSecrets'
  BY <1>2 DEF TypedSecrets
<1>8. FilledInv'
  <2> SUFFICES ASSUME held = entry PROVE FilledFrom(shown)' /\ (held = entry /\ entry # NoEntry)'
    BY <1>2, <1>4 DEF FilledInv
  <2>1. (held = entry /\ entry # NoEntry)'
    BY <1>2
  <2>2. FilledFrom(shown)'
    <3>1. form'.kind = entry.kind /\ (shown => usesDsnFields(entry.kind) /\ parses(slots["own"]))
      BY <1>4, <1>5
    <3>2. /\ \A field \in {"name", "plain", "alias", "color", "tag", "write"} : form'[field] = entry[field]
          /\ \A field \in {"where", "key_path", "encrypted"} : form'[field] = entry.ssh[field]
          /\ \A field \in SecretFields : form'[field] = ""
      BY <1>5
    <3>3. /\ form'.use_emulator = (entry.kind = "firestore" /\ ~ entry.keyed)
          /\ form'.use_url = (usesDsnFields(entry.kind) /\ ~ shown)
          /\ form'.url = Nothing
          /\ form'.ssh_enabled = (entry.ssh # NoSsh)
      BY <1>5
    <3>4. /\ shown => form'.db_host = slots["own"].host /\ form'.db_ssl = sslModeFromQuery(slots["own"].query)
          /\ entry.ssh # NoSsh => form'.auth = entry.ssh.auth
      BY <1>5
    <3>5. QED
      BY <1>2, <3>1, <3>2, <3>3, <3>4 DEF FilledFrom, usesDsnFields, parses, sslModeFromQuery
  <2>3. QED
    BY <2>1, <2>2
<1>9. QED
  BY <1>6, <1>7, <1>8 DEF EntryInv, FormInv

LEMMA StartAddKeeps ==
    ASSUME FormAssumption, EntryInv, startAdd
    PROVE  EntryInv'
<1>1. PICK kind \in Kinds : form' = [emptyForm EXCEPT !.kind = kind]
  BY DEF startAdd
<1>2. touched' = {} /\ moved' = FALSE /\ UNCHANGED <<entry, held, slots, unpurged>>
  BY DEF startAdd
<1>3. IsForm(form') /\ form'.mode = "add"
  BY <1>1, EmptyForms DEF emptyForm
<1>4. FormTypes' /\ SecretsMatchTheEntry'
  BY <1>2, <1>3, EntryUntouched DEF IsForm
<1>5. QED
  BY <1>2, <1>3, <1>4 DEF EntryInv, FormInv, TypedSecrets, FilledInv

\* A field the form shows, changed: the others are as they were, but that the
\* choice of TLS is part of a URL that was typed.
LEMMA ChangedForms ==
    ASSUME FormAssumption, EntryInv, IsForm(form), NEW field \in Fields(form), NEW value \in other(field),
           NEW s, s = setField(form, field, value)
    PROVE  /\ IsForm(s)
           /\ field = "db_ssl" /\ form.use_url => \A g \in FormFields \ {"url"} : s[g] = form[g]
           /\ ~ (field = "db_ssl" /\ form.use_url) =>
                  s[field] = value /\ \A g \in FormFields \ {field} : s[g] = form[g]
           /\ field \in FormFields \ {"mode", "kind", "changes"}
           /\ field \in SecretFields => value = "new"
<1>1. Suits(field, value) /\ (field \in SecretFields => value = "new")
  BY ValuesSuit
<1>2. field \in FormFields \ {"mode", "kind", "changes"}
  BY DEF Fields, Typed, DsnFields, SshFields, FormFields
<1>3. /\ IsForm(s)
      /\ field = "db_ssl" /\ form.use_url => \A g \in FormFields \ {"url"} : s[g] = form[g]
      /\ ~ (field = "db_ssl" /\ form.use_url) =>
             s[field] = value /\ \A g \in FormFields \ {field} : s[g] = form[g]
  <2>1. CASE field = "db_ssl" /\ form.use_url
    <3> DEFINE url == withSslMode(form.url, value)
    <3>1. url \in Secrets /\ url # Keep
      <4>1. form.url \in Secrets /\ form.url # Keep /\ sslQuery(value) \in {"", "tls off"}
        BY DEF IsForm, sslQuery
      <4>2. CASE parses(form.url)
        <5>1. url = [form.url EXCEPT !.query = sslQuery(value)]
          BY <4>2 DEF withSslMode
        <5>2. [form.url EXCEPT !.query = sslQuery(value)] \in Secrets
              /\ [form.url EXCEPT !.query = sslQuery(value)].host = form.url.host
          BY <4>1 DEF Secrets
        <5>3. Keep.host = ""
          BY DEF Keep, whole
        <5>4. QED
          BY <4>2, <5>1, <5>2, <5>3 DEF parses
      <4>3. CASE ~ parses(form.url)
        BY <4>1, <4>3 DEF withSslMode
      <4>4. QED
        BY <4>2, <4>3
    <3>2. s = [form EXCEPT !["url"] = url]
      BY <2>1 DEF setField
    <3> HIDE DEF url
    <3>3. Suits("url", url)
      BY <3>1 DEF Suits, FormFields, TextFields, Toggles, SecretFields
    <3>4. DOMAIN s = FormFields /\ s["url"] = url /\ \A g \in FormFields \ {"url"} : s[g] = form[g]
      BY <3>2 DEF IsForm, FormFields
    <3>5. IsForm(s)
      BY <3>3, <3>4, FormsStayForms
    <3>6. QED
      BY <2>1, <3>4, <3>5
  <2>2. CASE ~ (field = "db_ssl" /\ form.use_url)
    <3>1. s = [form EXCEPT ![field] = value]
      BY <2>2 DEF setField
    <3>2. DOMAIN s = FormFields /\ s[field] = value /\ \A g \in FormFields \ {field} : s[g] = form[g]
      BY <1>2, <3>1 DEF IsForm
    <3>3. IsForm(s)
      BY <1>1, <3>2, FormsStayForms
    <3>4. QED
      BY <2>2, <3>2, <3>3
  <2>3. QED
    BY <2>1, <2>2
<1>4. QED
  BY <1>1, <1>2, <1>3

LEMMA SetFieldKeeps ==
    ASSUME FormAssumption, EntryInv, set_field
    PROVE  EntryInv'
<1>1. IsForm(form)
  BY DEF set_field, EntryInv, FormInv, FormTypes
<1>2. PICK field \in Fields(form) \ touched : \E value \in other(field), counted \in {0, 1} :
          /\ form' = [setField(form, field, value) EXCEPT !.changes = @ + counted]
          /\ touched' = touched \union {field}
  <2>1. PICK field \in Fields(form) \ touched : \E value \in other(field) :
            /\ form' = [setField(form, field, value) EXCEPT
                           !.changes = @ + (IF field \in invalid(form) THEN 0 ELSE 1)]
            /\ touched' = touched \union {field}
    BY DEF set_field
  <2>2. (IF field \in invalid(form) THEN 0 ELSE 1) \in {0, 1}
    OBVIOUS
  <2>3. QED
    BY <2>1, <2>2, Zenon
<1>3. PICK value \in other(field), counted \in {0, 1} :
          /\ form' = [setField(form, field, value) EXCEPT !.changes = @ + counted]
          /\ touched' = touched \union {field}
  BY <1>2
<1>4. PICK s : s = setField(form, field, value) /\ form' = [s EXCEPT !.changes = @ + counted]
  BY <1>3
<1>5. /\ IsForm(form') /\ form'.mode = form.mode /\ form'.kind = form.kind
      /\ field = "db_ssl" /\ form.use_url =>
             \A g \in FormFields \ {"url", "changes"} : form'[g] = form[g]
      /\ ~ (field = "db_ssl" /\ form.use_url) =>
             form'[field] = value /\ \A g \in FormFields \ {field, "changes"} : form'[g] = form[g]
      /\ field \in FormFields \ {"mode", "kind", "changes"}
      /\ field \in SecretFields => value = "new"
  <2>1. /\ IsForm(s)
        /\ field = "db_ssl" /\ form.use_url => \A g \in FormFields \ {"url"} : s[g] = form[g]
        /\ ~ (field = "db_ssl" /\ form.use_url) =>
               s[field] = value /\ \A g \in FormFields \ {field} : s[g] = form[g]
        /\ field \in FormFields \ {"mode", "kind", "changes"}
        /\ field \in SecretFields => value = "new"
    BY <1>1, <1>4, ChangedForms
  <2>2. s["mode"] = form["mode"] /\ s["kind"] = form["kind"]
    BY <2>1 DEF FormFields
  <2>3. PICK count : form' = [s EXCEPT !["changes"] = count]
    BY <1>4
  <2>4. /\ DOMAIN form' = FormFields /\ form'["changes"] = count
        /\ \A g \in FormFields \ {"changes"} : form'[g] = s[g]
    BY <2>1, <2>3 DEF IsForm, FormFields
  <2>5. Suits("changes", count)
    BY DEF Suits, FormFields, TextFields, Toggles, SecretFields
  <2>6. IsForm(form')
    BY <2>1, <2>4, <2>5, FormsStayForms
  <2>7. form'["mode"] = form["mode"] /\ form'["kind"] = form["kind"]
    BY <2>2, <2>4 DEF FormFields
  <2>8. QED
    BY <2>1, <2>4, <2>6, <2>7
<1>6. UNCHANGED <<entry, held, slots, moved, unpurged>>
  BY DEF set_field
<1>7. FormTypes' /\ SecretsMatchTheEntry'
  BY <1>5, <1>6, EntryUntouched DEF IsForm
<1>8. TypedSecrets'
  <2>1. field = "secret" => form.kind \notin {"file", "dsn"}
    BY DEF Fields, Typed, DsnFields, SshFields, usesDsnFields
  <2>2. field = "db_password" => usesDsnFields(form.kind)
    BY DEF Fields, Typed, DsnFields, SshFields
  <2>3. form # Closed
    BY DEF set_field
  <2>4. "secret" \in touched' => form'["secret"] = "new" /\ form'.kind \notin {"file", "dsn"}
    BY <1>3, <1>5, <2>1, <2>3 DEF EntryInv, FormInv, TypedSecrets, FormFields, SecretFields
  <2>5. "db_password" \in touched' => form'["db_password"] = "new" /\ usesDsnFields(form'.kind)
    BY <1>3, <1>5, <2>2, <2>3 DEF EntryInv, FormInv, TypedSecrets, FormFields, SecretFields
  <2>6. QED
    BY <2>4, <2>5 DEF TypedSecrets, usesDsnFields
<1>9. FilledInv'
  <2> SUFFICES ASSUME form.mode = "edit", ~ moved
               PROVE  (held = entry /\ entry # NoEntry /\ \E shown \in BOOLEAN : FilledFrom(shown))'
    BY <1>5, <1>6 DEF FilledInv
  <2>1. held = entry /\ entry # NoEntry
    BY DEF set_field, EntryInv, FormInv, FilledInv
  <2>2. PICK shown \in BOOLEAN : FilledFrom(shown)
    BY DEF set_field, EntryInv, FormInv, FilledInv
  \* What is left alone is as it was; a URL is not left alone once its TLS is chosen.
  <2>3. "url" \notin touched' => form'["url"] = form["url"]
    <3>1. field = "db_ssl" /\ form.use_url => form.url # Nothing
      BY DEF Fields, Typed, DsnFields, SshFields
    <3>2. "url" \notin touched => form.url = Nothing
      BY <2>2 DEF FilledFrom
    <3>3. QED
      BY <1>3, <1>5, <3>1, <3>2 DEF FormFields
  <2>4. \A g \in FormFields \ {"changes"} : g \notin touched' => form'[g] = form[g]
    BY <1>3, <1>5, <2>3
  <2>5. touched \subseteq touched'
    BY <1>3
  <2>6. FilledFrom(shown)'
    <3>1. form'.kind = entry.kind /\ (shown => usesDsnFields(entry.kind) /\ parses(slots["own"]))
      BY <1>5, <2>2 DEF FilledFrom
    <3>2. \A g \in {"name", "plain", "alias", "color", "tag", "write"} \ touched' : form'[g] = entry[g]
      BY <2>2, <2>4, <2>5 DEF FilledFrom, FormFields
    <3>3. \A g \in {"where", "key_path", "encrypted"} \ touched' : form'[g] = entry.ssh[g]
      BY <2>2, <2>4, <2>5 DEF FilledFrom, FormFields
    <3>4. \A g \in SecretFields \ touched' : form'[g] = ""
      BY <2>2, <2>4, <2>5 DEF FilledFrom, FormFields, SecretFields
    <3>5. "use_emulator" \notin touched' => form'["use_emulator"] = form["use_emulator"]
      BY <2>4 DEF FormFields
    <3>6. "use_url" \notin touched' => form'["use_url"] = form["use_url"]
      BY <2>4 DEF FormFields
    <3>7. /\ "db_host" \notin touched' => form'["db_host"] = form["db_host"]
          /\ "db_ssl" \notin touched' => form'["db_ssl"] = form["db_ssl"]
      BY <2>4 DEF FormFields
    <3>8. /\ "ssh_enabled" \notin touched' => form'["ssh_enabled"] = form["ssh_enabled"]
          /\ "auth" \notin touched' => form'["auth"] = form["auth"]
      BY <2>4 DEF FormFields
    <3>9. /\ "use_emulator" \notin touched' =>
                form'.use_emulator = (entry.kind = "firestore" /\ ~ entry.keyed)
          /\ "use_url" \notin touched' => form'.use_url = (usesDsnFields(entry.kind) /\ ~ shown)
          /\ "url" \notin touched' => form'.url = Nothing
      BY <2>2, <2>3, <2>5, <3>5, <3>6 DEF FilledFrom
    <3>10. /\ shown /\ "db_host" \notin touched' => form'.db_host = slots["own"].host
           /\ shown /\ "db_ssl" \notin touched' =>
                 form'.db_ssl = sslModeFromQuery(slots["own"].query)
      BY <2>2, <2>5, <3>7 DEF FilledFrom
    <3>11. /\ "ssh_enabled" \notin touched' => form'.ssh_enabled = (entry.ssh # NoSsh)
           /\ entry.ssh # NoSsh /\ "auth" \notin touched' => form'.auth = entry.ssh.auth
      BY <2>2, <2>5, <3>8 DEF FilledFrom
    <3>12. QED
      BY <1>6, <3>1, <3>2, <3>3, <3>4, <3>9, <3>10, <3>11
      DEF FilledFrom, usesDsnFields, parses, sslModeFromQuery
  <2>7. QED
    BY <1>6, <2>1, <2>6
<1>10. QED
  BY <1>7, <1>8, <1>9 DEF EntryInv, FormInv

LEMMA CancelKeeps ==
    ASSUME EntryInv, cancel
    PROVE  EntryInv'
<1>1. FormTypes' /\ SecretsMatchTheEntry'
  BY EntryUntouched DEF cancel
<1>2. QED
  BY <1>1 DEF cancel, EntryInv, FormInv, TypedSecrets, FilledInv

LEMMA SyncKeeps ==
    ASSUME EntryInv, sync
    PROVE  EntryInv'
<1>1. UNCHANGED <<entry, slots, form, touched, moved, unpurged>> /\ held' = entry /\ held # entry
  BY DEF sync
<1>2. (form = Closed \/ IsForm(form))'
  BY <1>1 DEF EntryInv, FormInv, FormTypes, IsForm
<1>3. FormTypes' /\ SecretsMatchTheEntry'
  BY <1>1, <1>2, EntryUntouched
<1>4. TypedSecrets'
  BY <1>1 DEF EntryInv, FormInv, TypedSecrets, usesDsnFields
<1>5. FilledInv'
  BY <1>1 DEF EntryInv, FormInv, FilledInv
<1>6. QED
  BY <1>3, <1>4, <1>5 DEF EntryInv, FormInv

\* What others' saves leave: an entry and its slots that match.
StoreKept ==
    /\ slots \in [Slots -> Secrets] /\ (entry = NoEntry \/ IsEntry(entry))
    /\ entry # NoEntry /\ entry.keyed /\ ~ usesDsnFields(entry.kind) => slots["own"].query = ""
    /\ SecretsMatchTheEntry

LEMMA OthersSaveKeeps ==
    ASSUME FormAssumption, EntryInv, others_save
    PROVE  EntryInv'
<1>1. UNCHANGED <<held, form, touched, unpurged>> /\ moved' = TRUE
  BY DEF others_save
<1>2. slots \in [Slots -> Secrets] /\ (entry = NoEntry \/ IsEntry(entry)) /\ FormTypes
  BY DEF EntryInv, FormInv, FormTypes
<1>3. /\ whole("theirs") \in Secrets \ {Nothing} /\ whole("theirs").query = ""
      /\ Elsewhere \in Secrets \ {Nothing} /\ Garbage \in Secrets \ {Nothing} /\ Nothing \in Secrets
  BY DEF whole, Secrets, Words, Nothing, Elsewhere, Garbage
<1>4. StoreKept'
  <2>1. ASSUME entry # NoEntry, supportsSshTunnel(entry.kind), NEW ssh \in Tunnels \union {NoSsh},
               entry' = [entry EXCEPT !.ssh = ssh],
               slots' = resaved(entry', [slot \in Slots |-> IF slot = "own" THEN slots.own ELSE whole("theirs")], {})
        PROVE  StoreKept'
    <3> DEFINE value == [slot \in Slots |-> IF slot = "own" THEN slots.own ELSE whole("theirs")]
    <3>1. ssh \in Sshs
      BY <2>1 DEF Tunnels, Sshs, Words
    <3>2. IsEntry(entry') /\ entry'.keyed = entry.keyed /\ entry'.kind = entry.kind
      BY <1>2, <2>1, <3>1 DEF IsEntry, Entries
    <3>3. entry' # NoEntry
      BY <3>2, KindsAreShapes DEF IsEntry, Entries, NoEntry
    <3>4. value \in [Slots -> Secrets] /\ value["own"] = slots["own"]
          /\ value["passphrase"] # Nothing /\ value["password"] # Nothing
      BY <1>2, <1>3 DEF Slots
    <3>5. slots' = resaved(entry', value, {}) /\ unpurged' = unpurged \union {}
      BY <1>1, <2>1
    <3> HIDE DEF value
    <3>6. entry.keyed => slots["own"] # Nothing
      BY <2>1, SlotsReferredTo DEF EntryInv, SecretsMatchTheEntry, Slots
    <3>7. \A slot \in refs_of(entry') : value[slot] # Nothing
      BY <3>2, <3>3, <3>4, <3>6, SlotsReferredTo DEF Slots
    <3>8. slots' \in [Slots -> Secrets]
      BY <1>2, <3>4, <3>5, ResavedSlots
    <3>9. SecretsMatchTheEntry'
      BY <1>2, <3>3, <3>4, <3>5, <3>7, ResavedMatches, SlotsReferredTo DEF EntryInv
    <3>10. entry'.keyed => slots'["own"] = slots["own"]
      <4>1. entry'.keyed => "own" \in refs_of(entry') /\ "own" \in Slots
        BY <3>3, SlotsReferredTo DEF Slots
      <4>2. QED
        BY <1>2, <3>4, <3>5, <4>1, ResavedSlots
    <3>11. entry'.keyed /\ ~ usesDsnFields(entry'.kind) => slots'["own"].query = ""
      BY <2>1, <3>2, <3>10 DEF EntryInv, FormInv, FormTypes
    <3>12. (entry = NoEntry \/ IsEntry(entry))'
      BY <3>2 DEF IsEntry, supportsSshTunnel
    <3>13. QED
      BY <3>8, <3>9, <3>11, <3>12 DEF StoreKept, usesDsnFields
  <2>2. ASSUME entry # NoEntry, entry.keyed, UNCHANGED entry,
               NEW own \in IF usesDsnFields(entry.kind) THEN {Elsewhere, Garbage} ELSE {whole("theirs")},
               slots' = [slots EXCEPT !.own = own]
        PROVE  StoreKept'
    <3>1. own \in Secrets \ {Nothing} /\ (~ usesDsnFields(entry.kind) => own.query = "")
      BY <1>3, <2>2
    <3>2. slots' \in [Slots -> Secrets] /\ slots'["own"] = own
          /\ \A slot \in Slots \ {"own"} : slots'[slot] = slots[slot]
      BY <1>2, <2>2, <3>1 DEF Slots
    <3>3. refs_of(entry)' = refs_of(entry)
      BY <2>2 DEF refs_of
    <3>4. "own" \in refs_of(entry)
      BY <2>2, SlotsReferredTo
    <3>5. SecretsMatchTheEntry'
      BY <1>1, <3>1, <3>2, <3>3, <3>4 DEF EntryInv, SecretsMatchTheEntry
    <3>6. (entry = NoEntry \/ IsEntry(entry))'
      BY <1>2, <2>2 DEF IsEntry, supportsSshTunnel
    <3>7. QED
      BY <2>2, <3>1, <3>2, <3>5, <3>6 DEF StoreKept, usesDsnFields
  <2>3. ASSUME entry # NoEntry, entry' = [entry EXCEPT !.tag = "theirs"], UNCHANGED slots
        PROVE  StoreKept'
    <3>1. IsEntry(entry') /\ entry'.keyed = entry.keyed /\ entry'.kind = entry.kind /\ entry'.ssh = entry.ssh
      BY <1>2, <2>3 DEF IsEntry, Entries, Words
    <3>2. entry' # NoEntry
      BY <3>1, KindsAreShapes DEF IsEntry, Entries, NoEntry
    <3>3. refs_of(entry)' = refs_of(entry)
      BY <2>3, <3>1, <3>2 DEF refs_of
    <3>4. SecretsMatchTheEntry'
      BY <1>1, <2>3, <3>3 DEF EntryInv, SecretsMatchTheEntry
    <3>5. (entry = NoEntry \/ IsEntry(entry))'
      BY <3>1 DEF IsEntry, supportsSshTunnel
    <3>6. QED
      BY <1>2, <2>3, <3>1, <3>4, <3>5 DEF FormTypes, StoreKept, usesDsnFields
  <2>4. ASSUME entry # NoEntry, entry' = NoEntry, slots' = resaved(NoEntry, slots, {})
        PROVE  StoreKept'
    <3>1. slots' \in [Slots -> Secrets]
      BY <1>2, <2>4, ResavedSlots
    <3>2. unpurged' = unpurged \union {} /\ refs_of(NoEntry) = {}
      BY <1>1, NoEntryRefersToNothing
    <3>3. SecretsMatchTheEntry'
      BY <1>2, <2>4, <3>2, ResavedMatches DEF EntryInv
    <3>4. QED
      BY <2>4, <3>1, <3>3 DEF StoreKept
  <2>5. ASSUME entry = NoEntry, NEW kind \in Kinds, NEW e \in Stored(kind), entry' = e,
               slots' = resaved(entry', [slot \in Slots |-> whole("theirs")], {})
        PROVE  StoreKept'
    <3> DEFINE value == [slot \in Slots |-> whole("theirs")]
    <3>1. IsEntry(e) /\ e # NoEntry
      BY StoredEntries
    <3>2. value \in [Slots -> Secrets] /\ \A slot \in Slots : value[slot] = whole("theirs")
      BY <1>3
    <3>3. slots' = resaved(e, value, {}) /\ unpurged' = unpurged \union {}
      BY <1>1, <2>5
    <3> HIDE DEF value
    <3>4. refs_of(e) \subseteq Slots
      BY <3>1, SlotsReferredTo
    <3>5. slots' \in [Slots -> Secrets]
      BY <1>2, <3>2, <3>3, ResavedSlots
    <3>6. SecretsMatchTheEntry'
      BY <1>2, <1>3, <2>5, <3>2, <3>3, <3>4, ResavedMatches DEF EntryInv
    <3>7. e.keyed => slots'["own"] = whole("theirs")
      <4>1. e.keyed => "own" \in refs_of(e) /\ "own" \in Slots
        BY <3>1, SlotsReferredTo DEF Slots
      <4>2. QED
        BY <1>2, <3>2, <3>3, <4>1, ResavedSlots
    <3>8. (entry = NoEntry \/ IsEntry(entry))'
      BY <2>5, <3>1 DEF IsEntry, supportsSshTunnel
    <3>9. QED
      BY <1>3, <2>5, <3>5, <3>6, <3>7, <3>8 DEF StoreKept, usesDsnFields
  <2>6. QED
    BY <2>1, <2>2, <2>3, <2>4, <2>5 DEF others_save
<1>5. (form = Closed \/ IsForm(form))' /\ (held = NoEntry \/ IsEntry(held))'
  BY <1>1 DEF EntryInv, FormInv, FormTypes, IsForm, IsEntry, supportsSshTunnel
<1>6. TypedSecrets'
  BY <1>1 DEF EntryInv, FormInv, TypedSecrets, usesDsnFields
<1>7. FilledInv'
  BY <1>1 DEF FilledInv
<1>8. QED
  BY <1>4, <1>5, <1>6, <1>7 DEF EntryInv, FormInv, FormTypes, StoreKept

LEMMA EntryInvNext ==
    ASSUME FormAssumption, EntryInv, [FormNext]_FormVars
    PROVE  EntryInv'
<1>1. CASE saveForm
  <2>1. form # Closed /\ IsForm(form) /\ invalid(form) = {}
    BY <1>1 DEF saveForm, EntryInv, FormInv, FormTypes
  <2>2. form.mode \in {"add", "edit"}
    BY <2>1 DEF IsForm
  <2>3. CASE form.mode = "add"
    BY <1>1, <2>1, <2>3, AddKeeps DEF saveForm
  <2>4. CASE form.mode = "edit"
    BY <1>1, <2>1, <2>4, UpdateKeeps DEF saveForm
  <2>5. QED
    BY <2>2, <2>3, <2>4
<1>2. CASE UNCHANGED FormVars
  <2>1. UNCHANGED <<entry, held, slots, form, touched, moved, unpurged>>
    BY <1>2 DEF FormVars
  <2>2. (form = Closed \/ IsForm(form))'
    BY <2>1 DEF EntryInv, FormInv, FormTypes, IsForm
  <2>3. FormTypes' /\ SecretsMatchTheEntry'
    BY <2>1, <2>2, EntryUntouched
  <2>4. TypedSecrets' /\ FilledInv'
    BY <2>1 DEF EntryInv, FormInv, TypedSecrets, FilledInv, FilledFrom, usesDsnFields, parses, sslModeFromQuery
  <2>5. QED
    BY <2>3, <2>4 DEF EntryInv, FormInv
<1>3. QED
  BY <1>1, <1>2, StartEditKeeps, StartAddKeeps, SetFieldKeeps, CancelKeeps, SyncKeeps, OthersSaveKeeps
  DEF FormNext

\* Every secret the entry refers to is stored, and none is left behind but by a
\* purge that failed.
THEOREM EverySecretIsStored == ASSUME FormAssumption PROVE FormSpec => []SecretsMatchTheEntry
<1>1. FormInit => EntryInv
  BY EntryInvInit
<1>2. EntryInv /\ [FormNext]_FormVars => EntryInv'
  BY EntryInvNext
<1>3. EntryInv => SecretsMatchTheEntry
  BY DEF EntryInv
<1>4. QED
  BY <1>1, <1>2, <1>3, PTL DEF FormSpec

-------------------------------------------------------------------------------
(* A save changes what was touched. *)

\* What a reader of an entry finds in one of its slots.
found(e, s, slot) == IF slot \in refs_of(e) THEN s[slot] ELSE Nothing

LEMMA ReachedParts ==
    ASSUME NEW e, NEW s
    PROVE  reached(e, s) =
              [name |-> e.name, plain |-> e.plain, alias |-> e.alias, color |-> e.color, tag |-> e.tag,
               write |-> e.write, keyed |-> e.keyed, host |-> found(e, s, "own").host,
               query |-> found(e, s, "own").query, key |-> found(e, s, "own").password,
               where |-> e.ssh.where, key_path |-> e.ssh.key_path, auth |-> e.ssh.auth,
               encrypted |-> e.ssh.encrypted, passphrase |-> found(e, s, "passphrase"),
               password |-> found(e, s, "password")]
<1> DEFINE r == [slot \in Slots |-> IF slot \in refs_of(e) THEN s[slot] ELSE Nothing]
<1>1. /\ r.own = found(e, s, "own") /\ r.passphrase = found(e, s, "passphrase")
      /\ r.password = found(e, s, "password")
  BY DEF Slots, found
<1>2. reached(e, s) = parts(e, r)
  BY DEF reached
<1> HIDE DEF r
<1>3. QED
  BY <1>1, <1>2 DEF parts

LEMMA FieldsAffect ==
    /\ \A field \in {"name", "plain", "alias", "color", "tag", "write", "where", "key_path"} :
          field \in affects(field)
    /\ \A field \in {"use_url", "url"} : {"host", "query", "key"} \subseteq affects(field)
    /\ "host" \in affects("db_host") /\ "query" \in affects("db_ssl") /\ "key" \in affects("db_password")
    /\ \A field \in {"secret", "use_emulator"} : {"key", "keyed", "host"} \subseteq affects(field)
    /\ Tunnel \subseteq affects("ssh_enabled") /\ Tunnel \ {"where"} \subseteq affects("auth")
    /\ {"encrypted", "passphrase"} \subseteq affects("encrypted")
    /\ "passphrase" \in affects("ssh_passphrase") /\ "password" \in affects("ssh_password")
<1>1. \A field \in {"name", "plain", "alias", "color", "tag", "write", "where", "key_path"} :
          affects(field) = {field}
  BY DEF affects
<1>2. \A field \in {"use_url", "url"} : affects(field) = {"host", "query", "key"}
  BY DEF affects
<1>3. affects("db_host") = {"host"} /\ affects("db_ssl") = {"query"} /\ affects("db_password") = {"key"}
  BY DEF affects
<1>4. \A field \in {"secret", "use_emulator"} : affects(field) = {"key", "keyed", "host"}
  BY DEF affects
<1>5. affects("ssh_enabled") = Tunnel /\ affects("auth") = Tunnel \ {"where"}
  BY DEF affects
<1>6. /\ affects("encrypted") = {"encrypted", "passphrase"}
      /\ affects("ssh_passphrase") = {"passphrase"} /\ affects("ssh_password") = {"password"}
  BY DEF affects
<1>7. QED
  BY <1>1, <1>2, <1>3, <1>4, <1>5, <1>6

\* The string put together again: its host and query are the boxes', and its
\* password is the one typed or else the one that was stored.
LEMMA ComposedAgain ==
    ASSUME FormAssumption, IsForm(form), form.mode = "edit", invalid(form) = {},
           usesDsnFields(form.kind), ~ form.use_url, slots \in [Slots -> Secrets]
    PROVE  LET credential == to_edit_draft(form, graft_url(form, dsnFor(form), slots.own))
           IN  /\ credential # Keep /\ credential.host = form.db_host
               /\ credential.query = sslQuery(form.db_ssl)
               /\ credential.password = IF form.db_password = "" THEN slots["own"].password
                                        ELSE form.db_password
<1> DEFINE url == dsnFor(form)
           dsn == graft_url(form, url, slots.own)
           credential == to_edit_draft(form, dsn)
<1>1. url = [host |-> form.db_host, query |-> sslQuery(form.db_ssl), password |-> form.db_password]
  BY DEF dsnFor, composeDsn
<1>2. url.host = form.db_host /\ url.query = sslQuery(form.db_ssl) /\ url.password = form.db_password
  BY <1>1
<1>3. url \in Secrets /\ form.db_host # ""
  BY ComposedStrings
<1>4. Keep.host = "" /\ Nothing.host = ""
  BY DEF Keep, Nothing, whole
<1>5. keepStoredPassword(form) <=> form.db_password = ""
  BY DEF keepStoredPassword
<1> HIDE DEF url
<1>6. /\ dsn.host = form.db_host /\ dsn.query = sslQuery(form.db_ssl)
      /\ dsn.password = IF form.db_password = "" THEN slots["own"].password ELSE form.db_password
  <2>1. CASE form.db_password = "" /\ slots["own"].password # ""
    <3>1. dsn = [url EXCEPT !.password = slots["own"].password]
      BY <1>2, <1>3, <1>4, <1>5, <2>1 DEF graft_url, with_password
    <3>2. QED
      BY <1>2, <1>3, <2>1, <3>1 DEF Secrets
  <2>2. CASE ~ (form.db_password = "" /\ slots["own"].password # "")
    <3>1. dsn = url
      BY <1>5, <2>2 DEF graft_url, with_password
    <3>2. QED
      BY <1>2, <2>2, <3>1
  <2>3. QED
    BY <2>1, <2>2
<1> HIDE DEF dsn
<1>7. dsn # Nothing /\ dsn # Keep
  BY <1>3, <1>4, <1>6
<1>8. form.kind = "dsn"
  BY DEF usesDsnFields
<1>9. credential = dsn
  BY <1>7, <1>8 DEF to_edit_draft, secret_field, usesDsnFields
<1>10. QED
  BY <1>6, <1>7, <1>9 DEF dsn, url

\* The credential, as it was and as it is after the save.
LEMMA CredentialChanges ==
    ASSUME FormAssumption, EntryInv, IsForm(form), invalid(form) = {}, form.mode = "edit", ~ moved,
           NEW credential, credential = to_edit_draft(form, graft_url(form, dsnFor(form), slots.own)),
           NEW refers, refers = apply_update_kind(form, credential, entry.keyed),
           NEW own, own = IF refers THEN IF credential = Keep THEN slots["own"] ELSE credential ELSE Nothing,
           NEW was, was = IF entry.keyed THEN slots["own"] ELSE Nothing
    PROVE  /\ refers # entry.keyed => touched \cap {"secret", "use_emulator"} # {}
           /\ own.host # was.host =>
                  touched \cap {"use_url", "url", "db_host", "secret", "use_emulator"} # {}
           /\ own.query # was.query => touched \cap {"use_url", "url", "db_ssl"} # {}
           /\ own.password # was.password =>
                  touched \cap {"use_url", "url", "db_password", "secret", "use_emulator"} # {}
           /\ "db_password" \in touched /\ ~ form.use_url => own.password = "new"
           /\ ~ form.use_emulator /\ "secret" \in touched => own.password = "new"
<1>1. form # Closed
  BY DEF IsForm, Closed, FormFields
<1>2. PICK shown \in BOOLEAN : FilledFrom(shown)
  BY <1>1 DEF EntryInv, FormInv, FilledInv
<1>3. entry # NoEntry /\ IsEntry(entry) /\ slots \in [Slots -> Secrets] /\ form.kind = entry.kind
  BY <1>1, <1>2 DEF EntryInv, FormInv, FilledInv, FormTypes, FilledFrom
<1>4. entry.kind \in {"file", "dsn", "redis", "mongodb", "token", "firestore"} /\ form.secret \in Boxes
  BY <1>3, KindsAreShapes DEF IsEntry, Entries, IsForm, SecretFields
<1>5. /\ "secret" \in touched => form.secret = "new" /\ form.kind \notin {"file", "dsn"}
      /\ "db_password" \in touched => form.db_password = "new" /\ form.kind = "dsn"
      /\ "secret" \notin touched => form.secret = ""
  BY <1>1, <1>2 DEF EntryInv, FormInv, TypedSecrets, FilledFrom, SecretFields, usesDsnFields
<1>6. whole("new") # Keep /\ whole("new").password = "new" /\ Nothing.query = "" /\ whole("new").query = ""
  BY DEF whole, Keep, Nothing
<1>7. CASE entry.kind = "file"
  <2>1. refers = FALSE
    BY <1>3, <1>7 DEF apply_update_kind
  <2>2. entry.keyed = FALSE
    BY <1>3, <1>7 DEF IsEntry, Entries
  <2>3. own = was
    BY <2>1, <2>2
  <2>4. QED
    BY <1>3, <1>5, <1>7, <2>1, <2>2, <2>3
<1>8. CASE entry.kind = "dsn"
  <2>1. refers = TRUE
    BY <1>3, <1>8 DEF apply_update_kind
  <2>2. entry.keyed = TRUE
    BY <1>3, <1>8 DEF IsEntry, Entries
  <2>3. was = slots["own"]
    BY <2>2
  <2>4. CASE form.use_url
    <3>1. credential = secret_field(form.url)
      BY <1>3, <1>8, <2>4 DEF to_edit_draft, usesDsnFields, graft_url, keepStoredPassword, dsnFor
    <3>2. "url" \notin touched => credential = Keep
      BY <1>2, <3>1 DEF FilledFrom, secret_field
    <3>3. "url" \notin touched => own = was
      BY <2>1, <2>3, <3>2
    <3>4. QED
      BY <1>3, <1>5, <1>8, <2>1, <2>2, <2>4, <3>3
  <2>5. CASE ~ form.use_url
    <3>1. /\ credential # Keep /\ credential.host = form.db_host
          /\ credential.query = sslQuery(form.db_ssl)
          /\ credential.password = IF form.db_password = "" THEN slots["own"].password
                                   ELSE form.db_password
      BY <1>3, <1>8, <2>5, ComposedAgain DEF usesDsnFields
    <3>2. own = credential
      BY <2>1, <3>1
    <3>3. "use_url" \notin touched => shown
      BY <1>2, <1>8, <2>5 DEF FilledFrom, usesDsnFields
    <3>4. "use_url" \notin touched /\ "db_host" \notin touched => own.host = was.host
      BY <1>2, <2>3, <3>1, <3>2, <3>3 DEF FilledFrom
    <3>5. "use_url" \notin touched /\ "db_ssl" \notin touched => own.query = was.query
      <4>1. slots["own"].query \in {"", "tls off"}
        BY <1>3 DEF Slots, Secrets
      <4>2. sslQuery(sslModeFromQuery(slots["own"].query)) = slots["own"].query
        BY <4>1 DEF sslQuery, sslModeFromQuery
      <4>3. QED
        BY <1>2, <2>3, <3>1, <3>2, <3>3, <4>2 DEF FilledFrom
    <3>6. "db_password" \notin touched => own.password = was.password
      BY <1>2, <2>3, <3>1, <3>2 DEF FilledFrom, SecretFields
    <3>7. "db_password" \in touched => own.password = "new"
      BY <1>5, <3>1, <3>2
    <3>8. QED
      BY <1>3, <1>5, <1>8, <2>1, <2>2, <3>4, <3>5, <3>6, <3>7
  <2>6. QED
    BY <2>4, <2>5
<1>9. CASE entry.kind \in {"redis", "mongodb", "token"}
  <2>1. credential = secret_field(whole(form.secret))
    BY <1>3, <1>9 DEF to_edit_draft, usesDsnFields
  <2>2. credential = IF form.secret = "" THEN Keep ELSE whole("new")
    BY <1>4, <2>1, SecretBoxes
  <2>3. refers = TRUE
    BY <1>3, <1>9 DEF apply_update_kind
  <2>4. entry.keyed = TRUE
    BY <1>3, <1>9 DEF IsEntry, Entries
  <2>5. was = slots["own"] /\ was.query = ""
    BY <1>3, <1>9, <2>4 DEF EntryInv, FormInv, FormTypes, usesDsnFields
  <2>6. CASE "secret" \notin touched
    <3>1. own = was
      BY <1>5, <2>2, <2>3, <2>5, <2>6
    <3>2. QED
      BY <1>3, <1>5, <1>9, <2>3, <2>4, <2>6, <3>1
  <2>7. CASE "secret" \in touched
    <3>1. own = whole("new")
      BY <1>5, <1>6, <2>2, <2>3, <2>7
    <3>2. QED
      BY <1>3, <1>5, <1>6, <1>9, <2>3, <2>4, <2>5, <2>7, <3>1
  <2>8. QED
    BY <2>6, <2>7
<1>10. CASE entry.kind = "firestore"
  <2>1. entry.keyed \in BOOLEAN
    BY <1>3 DEF IsEntry, Entries
  <2>2. was.query = ""
    BY <1>3, <1>6, <1>10, <2>1 DEF EntryInv, FormInv, FormTypes, usesDsnFields
  <2>3. CASE form.use_emulator
    <3>1. credential = Drop
      BY <1>3, <1>10, <2>3 DEF to_edit_draft, usesDsnFields
    <3>2. refers = FALSE
      BY <1>3, <1>10, <3>1, SecretsAreSecrets DEF apply_update_kind, apply_firestore_edit
    <3>3. own = Nothing
      BY <3>2
    <3>4. "use_emulator" \notin touched => entry.keyed = FALSE
      BY <1>2, <2>1, <2>3 DEF FilledFrom
    <3>5. "use_emulator" \notin touched => own = was
      BY <3>3, <3>4
    <3>6. QED
      BY <1>3, <1>5, <1>6, <1>10, <2>2, <2>3, <3>2, <3>3, <3>4, <3>5
  <2>4. CASE ~ form.use_emulator
    <3>1. credential = secret_field(whole(form.secret))
      BY <1>3, <1>10, <2>4 DEF to_edit_draft, usesDsnFields
    <3>2. credential = IF form.secret = "" THEN Keep ELSE whole("new")
      BY <1>4, <3>1, SecretBoxes
    <3>3. refers = IF credential = Keep THEN entry.keyed ELSE credential # Drop
      BY <1>3, <1>10 DEF apply_update_kind, apply_firestore_edit
    <3>4. CASE "secret" \notin touched
      <4>1. credential = Keep
        BY <1>5, <3>2, <3>4
      <4>2. refers = entry.keyed
        BY <3>3, <4>1
      <4>3. own = was
        BY <4>1, <4>2
      <4>4. QED
        BY <1>3, <1>5, <1>10, <3>4, <4>2, <4>3
    <3>5. CASE "secret" \in touched
      <4>1. credential = whole("new") /\ whole("new") # Drop
        BY <1>5, <1>6, <3>2, <3>5 DEF whole, Drop
      <4>2. refers = TRUE
        BY <1>6, <3>3, <4>1
      <4>3. own = whole("new")
        BY <1>6, <4>1, <4>2
      <4>4. QED
        BY <1>3, <1>5, <1>6, <1>10, <2>2, <3>5, <4>3
    <3>6. QED
      BY <3>4, <3>5
  <2>5. QED
    BY <2>3, <2>4
<1>11. QED
  BY <1>4, <1>7, <1>8, <1>9, <1>10

\* The tunnel and its secrets, as they were and as they are after the save.
LEMMA TunnelChanges ==
    ASSUME FormAssumption, EntryInv, IsForm(form), form.mode = "edit", ~ moved,
           NEW ssh, ssh = apply_update_ssh(form, entry.ssh), ssh # Refused,
           NEW passphrase,
           passphrase = IF ssh.encrypted
                        THEN IF SshSecret(form, "passphrase") = Keep THEN slots["passphrase"]
                             ELSE SshSecret(form, "passphrase")
                        ELSE Nothing,
           NEW password,
           password = IF ssh.auth = "password"
                      THEN IF SshSecret(form, "password") = Keep THEN slots["password"]
                           ELSE SshSecret(form, "password")
                      ELSE Nothing
    PROVE  /\ ssh.where # entry.ssh.where => touched \cap {"ssh_enabled", "where"} # {}
           /\ ssh.key_path # entry.ssh.key_path => touched \cap {"ssh_enabled", "auth", "key_path"} # {}
           /\ ssh.auth # entry.ssh.auth => touched \cap {"ssh_enabled", "auth"} # {}
           /\ ssh.encrypted # entry.ssh.encrypted => touched \cap {"ssh_enabled", "auth", "encrypted"} # {}
           /\ passphrase # (IF entry.ssh.encrypted THEN slots["passphrase"] ELSE Nothing) =>
                  touched \cap {"ssh_enabled", "auth", "encrypted", "ssh_passphrase"} # {}
           /\ password # (IF entry.ssh.auth = "password" THEN slots["password"] ELSE Nothing) =>
                  touched \cap {"ssh_enabled", "auth", "ssh_password"} # {}
<1>1. form # Closed
  BY DEF IsForm, Closed, FormFields
<1>2. PICK shown \in BOOLEAN : FilledFrom(shown)
  BY <1>1 DEF EntryInv, FormInv, FilledInv
<1>3. entry # NoEntry /\ IsEntry(entry) /\ form.kind = entry.kind
  BY <1>1, <1>2 DEF EntryInv, FormInv, FilledInv, FormTypes, FilledFrom
<1>4. CASE "ssh_enabled" \in touched
  BY <1>4
<1>5. CASE "ssh_enabled" \notin touched /\ entry.ssh = NoSsh
  <2>1. ~ tunnelled(form)
    BY <1>2, <1>5 DEF FilledFrom, tunnelled
  <2>2. ssh = entry.ssh
    BY <1>5, <2>1 DEF apply_update_ssh
  <2>3. ssh.encrypted = FALSE /\ ssh.auth # "password"
    <3>1. NoSsh.encrypted = FALSE /\ NoSsh.auth # "password"
      BY DEF NoSsh
    <3>2. QED
      BY <1>5, <2>2, <3>1
  <2>4. QED
    BY <2>2, <2>3
<1>6. CASE "ssh_enabled" \notin touched /\ entry.ssh # NoSsh
  <2>1. tunnelled(form)
    BY <1>2, <1>3, <1>6 DEF FilledFrom, tunnelled, IsEntry
  <2>2. form.encrypted \in BOOLEAN /\ form.ssh_passphrase \in Boxes /\ form.ssh_password \in Boxes
        /\ form.auth \in {"key", "password"}
    BY DEF IsForm, Toggles, SecretFields
  <2>3. ssh = ssh_toml(form, form.encrypted)
    BY <2>1, TunnelsOfUpdate
  <2>4. /\ ssh.where = form.where /\ ssh.auth = form.auth
        /\ ssh.key_path = IF form.auth = "key" THEN form.key_path ELSE ""
        /\ ssh.encrypted = (form.auth = "key" /\ form.encrypted)
    <3> DEFINE tunnel == ssh_toml(form, form.encrypted)
    <3>1. /\ tunnel.where = form.where /\ tunnel.auth = form.auth
          /\ tunnel.key_path = IF form.auth = "key" THEN form.key_path ELSE ""
          /\ tunnel.encrypted = (form.auth = "key" /\ form.encrypted)
      BY <2>2, WrittenTunnels
    <3>2. ssh = tunnel
      BY <2>3
    <3> HIDE DEF tunnel
    <3>3. QED
      BY <3>1, <3>2
  <2>5. /\ "where" \notin touched => form.where = entry.ssh.where
        /\ "key_path" \notin touched => form.key_path = entry.ssh.key_path
        /\ "encrypted" \notin touched => form.encrypted = entry.ssh.encrypted
        /\ "auth" \notin touched => form.auth = entry.ssh.auth
        /\ "ssh_passphrase" \notin touched => form.ssh_passphrase = ""
        /\ "ssh_password" \notin touched => form.ssh_password = ""
    BY <1>2, <1>6 DEF FilledFrom, SecretFields
  <2>6. /\ "ssh_passphrase" \notin touched => SshSecret(form, "passphrase") = Keep
        /\ "ssh_password" \notin touched => SshSecret(form, "password") = Keep
    BY <2>2, <2>5, SecretBoxes DEF SshSecret
  <2>7. CASE "auth" \in touched
    BY <2>4, <2>5, <2>7
  <2>8. CASE "auth" \notin touched
    <3>1. entry.ssh \in Sshs \ {NoSsh}
      BY <1>3, <1>6 DEF IsEntry, Entries
    <3>2. ssh.auth = entry.ssh.auth
      BY <2>4, <2>5, <2>8
    <3>3. CASE form.auth = "key"
      <4>1. ssh.encrypted = form.encrypted
        BY <2>2, <2>4, <3>3
      <4>2. entry.ssh.auth = "key"
        BY <2>4, <3>2, <3>3
      <4>3. "encrypted" \notin touched => ssh.encrypted = entry.ssh.encrypted
        BY <2>5, <4>1
      <4>4. "encrypted" \notin touched /\ "ssh_passphrase" \notin touched =>
               passphrase = IF entry.ssh.encrypted THEN slots["passphrase"] ELSE Nothing
        BY <2>6, <4>3
      <4>5. password = Nothing
        BY <2>4, <3>3
      <4>6. QED
        BY <2>4, <2>5, <3>2, <3>3, <4>2, <4>3, <4>4, <4>5
    <3>4. CASE form.auth = "password"
      <4>1. ssh.encrypted = FALSE /\ ssh.key_path = ""
        BY <2>4, <3>4
      <4>2. entry.ssh.auth = "password" /\ entry.ssh.encrypted = FALSE /\ entry.ssh.key_path = ""
        BY <2>4, <3>1, <3>2, <3>4 DEF Sshs
      <4>3. passphrase = Nothing
        BY <4>1
      <4>4. "ssh_password" \notin touched => password = slots["password"]
        BY <2>4, <2>6, <3>4
      <4>5. QED
        BY <2>4, <2>5, <3>2, <4>1, <4>2, <4>3, <4>4
    <3>5. QED
      BY <2>2, <3>3, <3>4
  <2>9. QED
    BY <2>7, <2>8
<1>7. QED
  BY <1>4, <1>5, <1>6

LEMMA UpdatesChangeWhatWasTouched ==
    ASSUME FormAssumption, EntryInv, saveForm, form # Closed, form.mode = "edit", form' = Closed, ~ moved
    PROVE  OnlyWhatWasTouchedChanges
<1> DEFINE credential == to_edit_draft(form, graft_url(form, dsnFor(form), slots.own))
           refers == apply_update_kind(form, credential, entry.keyed)
           ssh == apply_update_ssh(form, entry.ssh)
           e == drafted(form, refers, ssh)
           value == written(form, credential)
           own == IF refers THEN IF credential = Keep THEN slots["own"] ELSE credential ELSE Nothing
           was == IF entry.keyed THEN slots["own"] ELSE Nothing
           passphrase == IF ssh.encrypted
                         THEN IF SshSecret(form, "passphrase") = Keep THEN slots["passphrase"]
                              ELSE SshSecret(form, "passphrase")
                         ELSE Nothing
           password == IF ssh.auth = "password"
                       THEN IF SshSecret(form, "password") = Keep THEN slots["password"]
                            ELSE SshSecret(form, "password")
                       ELSE Nothing
<1>1. IsForm(form) /\ invalid(form) = {} /\ update_connection
  BY DEF saveForm, EntryInv, FormInv, FormTypes
<1>2. ~ refuse
  BY <1>1 DEF refuse
<1>3. entry # NoEntry /\ entry.kind = form.kind /\ ssh # Refused /\ commit(e, credential)
  BY <1>1, <1>2 DEF update_connection
<1>4. IsEntry(entry) /\ FormTypes /\ slots \in [Slots -> Secrets]
  BY <1>3 DEF EntryInv, FormInv, FormTypes
<1>5. /\ credential \in Secrets /\ refers \in BOOLEAN
      /\ form.kind = "file" => ~ refers
      /\ form.kind \notin {"file", "firestore"} => refers
      /\ refers => credential # Nothing
      /\ refers /\ credential = Keep => entry.keyed
      /\ refers /\ credential # Keep /\ ~ usesDsnFields(form.kind) => credential.query = ""
  BY <1>1, <1>3, <1>4, CredentialsOfUpdate
<1>6. ssh \in Sshs /\ (~ supportsSshTunnel(form.kind) => ssh = NoSsh)
  BY <1>1, <1>3, TunnelsOfUpdate
<1>7. /\ refers # entry.keyed => touched \cap {"secret", "use_emulator"} # {}
      /\ own.host # was.host =>
             touched \cap {"use_url", "url", "db_host", "secret", "use_emulator"} # {}
      /\ own.query # was.query => touched \cap {"use_url", "url", "db_ssl"} # {}
      /\ own.password # was.password =>
             touched \cap {"use_url", "url", "db_password", "secret", "use_emulator"} # {}
      /\ "db_password" \in touched /\ ~ form.use_url => own.password = "new"
      /\ ~ form.use_emulator /\ "secret" \in touched => own.password = "new"
  BY <1>1, CredentialChanges
<1>8. /\ ssh.where # entry.ssh.where => touched \cap {"ssh_enabled", "where"} # {}
      /\ ssh.key_path # entry.ssh.key_path => touched \cap {"ssh_enabled", "auth", "key_path"} # {}
      /\ ssh.auth # entry.ssh.auth => touched \cap {"ssh_enabled", "auth"} # {}
      /\ ssh.encrypted # entry.ssh.encrypted => touched \cap {"ssh_enabled", "auth", "encrypted"} # {}
      /\ passphrase # (IF entry.ssh.encrypted THEN slots["passphrase"] ELSE Nothing) =>
             touched \cap {"ssh_enabled", "auth", "encrypted", "ssh_passphrase"} # {}
      /\ password # (IF entry.ssh.auth = "password" THEN slots["password"] ELSE Nothing) =>
             touched \cap {"ssh_enabled", "auth", "ssh_password"} # {}
  BY <1>1, <1>3, TunnelChanges
<1>9. \A part \in {"name", "plain", "alias", "color", "tag", "write"} \ touched : form[part] = entry[part]
  BY DEF EntryInv, FormInv, FilledInv, FilledFrom
<1>10. /\ SshSecret(form, "passphrase") \in Secrets /\ SshSecret(form, "password") \in Secrets
  BY <1>1, TunnelSecrets
<1>11. /\ value \in [Slots -> Secrets]
       /\ value["own"] = IF credential = Keep THEN slots["own"] ELSE credential
       /\ value["passphrase"] = IF SshSecret(form, "passphrase") = Keep THEN slots["passphrase"]
                                ELSE SshSecret(form, "passphrase")
       /\ value["password"] = IF SshSecret(form, "password") = Keep THEN slots["password"]
                              ELSE SshSecret(form, "password")
  <2>1. \A slot \in Slots :
            value[slot] = LET draft == IF slot = "own" THEN credential ELSE SshSecret(form, slot)
                          IN  IF draft = Keep THEN slots[slot] ELSE draft
    BY DEF written, apply_secret_write
  <2>2. ASSUME NEW slot \in Slots PROVE value[slot] \in Secrets
    <3> HIDE DEF value, credential
    <3>1. QED
      BY <1>4, <1>5, <1>10, <2>1 DEF Slots
  <2>3. value = [slot \in Slots |-> value[slot]]
    BY DEF written
  <2> HIDE DEF value, credential
  <2>4. QED
    BY <2>1, <2>2, <2>3 DEF Slots
<1>12. PICK left \in SUBSET (refs_of(entry) \ refs_of(e)) : slots' = resaved(e, value, left)
  BY <1>3 DEF commit
<1>13. entry' = e
  BY <1>3 DEF commit
<1> HIDE DEF credential, refers, ssh, value
<1>14. IsEntry(e) /\ e # NoEntry /\ e.keyed = refers /\ e.ssh = ssh
       /\ e.name = form.name /\ e.plain = form.plain /\ e.alias = form.alias /\ e.color = form.color
       /\ e.tag = form.tag /\ e.write = form.write
  BY <1>1, <1>5, <1>6, DraftedEntries DEF drafted
<1> HIDE DEF e
<1>15. \A slot \in refs_of(e) : slots'[slot] = value[slot]
  BY <1>4, <1>11, <1>12, <1>14, ResavedSlots, SlotsReferredTo
<1>16. /\ found(e, slots', "own") = own /\ found(entry, slots, "own") = was
       /\ found(e, slots', "passphrase") = passphrase /\ found(e, slots', "password") = password
       /\ found(entry, slots, "passphrase") = IF entry.ssh.encrypted THEN slots["passphrase"] ELSE Nothing
       /\ found(entry, slots, "password") = IF entry.ssh.auth = "password" THEN slots["password"] ELSE Nothing
  <2>1. /\ "own" \in refs_of(e) <=> refers
        /\ "passphrase" \in refs_of(e) <=> ssh.encrypted
        /\ "password" \in refs_of(e) <=> ssh.auth = "password"
    BY <1>14, SlotsReferredTo
  <2>2. /\ "own" \in refs_of(entry) <=> entry.keyed
        /\ "passphrase" \in refs_of(entry) <=> entry.ssh.encrypted
        /\ "password" \in refs_of(entry) <=> entry.ssh.auth = "password"
    BY <1>3, SlotsReferredTo
  <2>3. QED
    BY <1>11, <1>15, <2>1, <2>2 DEF found
<1> DEFINE before == reached(entry, slots)
           now == reached(entry', slots')
<1>17. before =
         [name |-> entry.name, plain |-> entry.plain, alias |-> entry.alias, color |-> entry.color,
          tag |-> entry.tag, write |-> entry.write, keyed |-> entry.keyed, host |-> was.host,
          query |-> was.query, key |-> was.password,
          where |-> entry.ssh.where, key_path |-> entry.ssh.key_path, auth |-> entry.ssh.auth,
          encrypted |-> entry.ssh.encrypted, passphrase |-> found(entry, slots, "passphrase"),
          password |-> found(entry, slots, "password")]
  BY <1>16, ReachedParts
<1>18. now =
         [name |-> e.name, plain |-> e.plain, alias |-> e.alias, color |-> e.color,
          tag |-> e.tag, write |-> e.write, keyed |-> refers, host |-> own.host,
          query |-> own.query, key |-> own.password,
          where |-> ssh.where, key_path |-> ssh.key_path, auth |-> ssh.auth,
          encrypted |-> ssh.encrypted, passphrase |-> passphrase, password |-> password]
  BY <1>13, <1>14, <1>16, ReachedParts
<1>19. slots'["own"].password = own.password \/ ~ refers
  BY <1>14, <1>15, <1>16, SlotsReferredTo DEF found
<1> HIDE DEF before, now, own, was, passphrase, password
<1>20. ASSUME NEW part \in DOMAIN before, now[part] # before[part]
       PROVE  \E field \in touched : part \in affects(field)
  <2>1. part \in {"name", "plain", "alias", "color", "tag", "write", "keyed", "host", "query", "key",
                  "where", "key_path", "auth", "encrypted", "passphrase", "password"}
    BY <1>17
  <2>2. CASE part \in {"name", "plain", "alias", "color", "tag", "write"}
    <3>1. part \in touched
      BY <1>9, <1>14, <1>17, <1>18, <1>20, <2>2
    <3>2. QED
      BY <2>2, <3>1, FieldsAffect
  <2>3. CASE part = "keyed"
    <3>1. refers # entry.keyed
      BY <1>17, <1>18, <1>20, <2>3
    <3>2. QED
      BY <1>7, <2>3, <3>1, FieldsAffect
  <2>4. CASE part = "host"
    <3>1. own.host # was.host
      BY <1>17, <1>18, <1>20, <2>4
    <3>2. QED
      BY <1>7, <2>4, <3>1, FieldsAffect
  <2>5. CASE part = "query"
    <3>1. own.query # was.query
      BY <1>17, <1>18, <1>20, <2>5
    <3>2. QED
      BY <1>7, <2>5, <3>1, FieldsAffect
  <2>6. CASE part = "key"
    <3>1. own.password # was.password
      BY <1>17, <1>18, <1>20, <2>6
    <3>2. QED
      BY <1>7, <2>6, <3>1, FieldsAffect
  <2>7. CASE part = "where"
    <3>1. ssh.where # entry.ssh.where
      BY <1>17, <1>18, <1>20, <2>7
    <3>2. QED
      BY <1>8, <2>7, <3>1, FieldsAffect DEF Tunnel
  <2>8. CASE part = "key_path"
    <3>1. ssh.key_path # entry.ssh.key_path
      BY <1>17, <1>18, <1>20, <2>8
    <3>2. QED
      BY <1>8, <2>8, <3>1, FieldsAffect DEF Tunnel
  <2>9. CASE part = "auth"
    <3>1. ssh.auth # entry.ssh.auth
      BY <1>17, <1>18, <1>20, <2>9
    <3>2. QED
      BY <1>8, <2>9, <3>1, FieldsAffect DEF Tunnel
  <2>10. CASE part = "encrypted"
    <3>1. ssh.encrypted # entry.ssh.encrypted
      BY <1>17, <1>18, <1>20, <2>10
    <3>2. QED
      BY <1>8, <2>10, <3>1, FieldsAffect DEF Tunnel
  <2>11. CASE part = "passphrase"
    <3>1. passphrase # (IF entry.ssh.encrypted THEN slots["passphrase"] ELSE Nothing)
      BY <1>16, <1>17, <1>18, <1>20, <2>11
    <3>2. QED
      BY <1>8, <2>11, <3>1, FieldsAffect DEF Tunnel
  <2>12. CASE part = "password"
    <3>1. password # (IF entry.ssh.auth = "password" THEN slots["password"] ELSE Nothing)
      BY <1>16, <1>17, <1>18, <1>20, <2>12
    <3>2. QED
      BY <1>8, <2>12, <3>1, FieldsAffect DEF Tunnel
  <2>13. QED
    BY <2>1, <2>2, <2>3, <2>4, <2>5, <2>6, <2>7, <2>8, <2>9, <2>10, <2>11, <2>12
<1>21. /\ "db_password" \in touched /\ ~ form.use_url => slots'["own"].password = "new"
       /\ ~ form.use_emulator /\ "secret" \in touched => slots'["own"].password = "new"
  <2>1. own.password = "new" => refers
    BY DEF own, Nothing, whole
  <2>2. QED
    BY <1>7, <1>19, <2>1
<1>22. QED
  BY <1>20, <1>21 DEF OnlyWhatWasTouchedChanges, before, now

LEMMA OnlySavesChange ==
    ASSUME FormAssumption, EntryInv, [FormNext]_FormVars
    PROVE  OnlyWhatWasTouchedChanges
<1> SUFFICES ASSUME form # Closed, form.mode = "edit", form' = Closed, ~ moved,
                    <<entry', slots'>> # <<entry, slots>>
             PROVE  OnlyWhatWasTouchedChanges
  BY DEF OnlyWhatWasTouchedChanges
<1>1. saveForm
  BY DEF FormNext, FormVars, startEdit, startAdd, set_field, cancel, sync, others_save, Closed
<1>2. QED
  BY <1>1, UpdatesChangeWhatWasTouched

\* Saving the form of a connection changes what the user changed and nothing
\* else, and a password typed is the one stored.
THEOREM SavesChangeOnlyWhatWasTouched ==
    ASSUME FormAssumption PROVE FormSpec => [][OnlyWhatWasTouchedChanges]_FormVars
<1>1. FormInit => EntryInv
  BY EntryInvInit
<1>2. EntryInv /\ [FormNext]_FormVars => EntryInv'
  BY EntryInvNext
<1>3. EntryInv /\ [FormNext]_FormVars => OnlyWhatWasTouchedChanges
  BY OnlySavesChange
<1>4. QED
  BY <1>1, <1>2, <1>3, PTL DEF FormSpec
===============================================================================
