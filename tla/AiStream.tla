------------------------------- MODULE AiStream -------------------------------
(***************************************************************************)
(* One question to the assistant and its streamed answer: ai_explain and   *)
(* ai_suggest of the desktop (ai/mod.rs), over the SSE readers of          *)
(* dbboard-anthropic and dbboard-openai.                                   *)
(*                                                                         *)
(* The panel can be closed while an answer is coming and asked again, so   *)
(* several requests may run; they share one cancel flag.  A step is what   *)
(* happens between two awaits.  A piece of text is the number of text      *)
(* frames the service had sent with it, the tokens an answer has cost are  *)
(* counted the same way, the question costs Asked.                         *)
(***************************************************************************)
EXTENDS Naturals, Sequences, FiniteSets

CONSTANTS
    Requests,       \* the questions asked, in any order
    Tables,         \* what list_tables answers
    MaxFrames       \* bound: frames a service sends for one question

Vendors == {"anthropic", "openai"}
Asked == 1

VARIABLES
    phase,          \* of each request: "idle", "describing", "streaming" or its outcome
    vendor,         \* the provider it took from the slot when it was asked
    described,      \* ai_suggest: the tables described so far
    warnings,       \* ai_suggest: the tables whose description failed
    prompt,         \* the tables the prompt names
    sent,           \* what the service has sent, in order
    running,        \* StreamState::running_input_tokens
    acc,            \* StreamAcc
    cancel,         \* AiState::cancel
    pressed,        \* history: the text a request had when the user pressed Cancel, or <<0>>
    cleared         \* history: another request started to stream after that

StreamVars == <<phase, vendor, described, warnings, prompt, sent, running, acc,
                cancel, pressed, cleared>>

Outcomes == {"answered", "cancelled", "failed"}
NotPressed == <<0>>

StreamInit ==
    /\ phase = [r \in Requests |-> "idle"]
    /\ vendor \in [Requests -> Vendors]
    /\ described = [r \in Requests |-> {}]
    /\ warnings = [r \in Requests |-> {}]
    /\ prompt = [r \in Requests |-> {}]
    /\ sent = [r \in Requests |-> <<>>]
    /\ running = [r \in Requests |-> 0]
    /\ acc = [r \in Requests |-> [text |-> <<>>, tokens_in |-> 0, tokens_out |-> 0]]
    /\ cancel = FALSE
    /\ pressed = [r \in Requests |-> NotPressed]
    /\ cleared = [r \in Requests |-> FALSE]
-------------------------------------------------------------------------------
(***************************************************************************)
(* The service.  "start" reports the tokens of the question, "usage" those *)
(* of the answer so far (both, for OpenAI); "error" says the service gave  *)
(* up; "bad" is a frame that does not parse; "end" is an orderly close,    *)
(* "lost" a broken connection.                                             *)
(***************************************************************************)
Kinds(v) ==
    {"text", "usage", "noise", "error", "bad", "stop", "end", "lost"}
        \cup (IF v = "anthropic" THEN {"start"} ELSE {})
Closings == {"error", "stop", "end", "lost"}

texts(s) == {i \in DOMAIN s : s[i].kind = "text"}
frame(k, s) == [kind |-> k, n |-> Cardinality(texts(s)) + (IF k = "text" THEN 1 ELSE 0)]
over(s) == s # <<>> /\ s[Len(s)].kind \in Closings \cup {"bad"}

may_follow(v, s, k) ==
    \/ over(s) /\ s[Len(s)].kind = "error" /\ k = "end"
    \/ ~ over(s) /\ k \in {"error", "end", "lost"}
    \/ /\ ~ over(s) /\ k \in Kinds(v)
       /\ (k = "start") <=> (v = "anthropic" /\ s = <<>>)

\* The service sends one more frame.
served(r, k) ==
    /\ Len(sent[r]) < (IF k \in Closings THEN MaxFrames + 1 ELSE MaxFrames)
    /\ may_follow(vendor[r], sent[r], k)
    /\ sent' = [sent EXCEPT ![r] = Append(@, frame(k, sent[r]))]
-------------------------------------------------------------------------------
(***************************************************************************)
(* The two readers: what the next frame makes, as an event of AiStream, or *)
(* "filter" where the reader takes the next frame at once.  tokens_in is   *)
(* what the reader remembers of the question.                              *)
(***************************************************************************)
event(e, f, t) == [event |-> e, n |-> f.n, tokens_in |-> t]
closing(f) ==
    CASE f.kind \in {"stop", "end"} -> "MessageStop"
      [] f.kind \in {"lost", "bad"} -> "Err"
      [] OTHER -> "filter"

anthropic_stream(f, t) ==
    CASE f.kind = "start" -> event("MessageStart", f, Asked)
      [] f.kind = "text" -> event("TextDelta", f, t)
      [] f.kind = "usage" -> event("Usage", f, t)
      [] f.kind = "error" -> event("Error", f, t)
      [] OTHER -> event(closing(f), f, t)

openai_stream(f, t) ==
    CASE f.kind = "text" -> event("TextDelta", f, t)
      [] f.kind = "usage" -> event("Usage", f, Asked)
      [] OTHER -> event(closing(f), f, t)

\* The tokens of the question are not carried from message_start to a usage event.
parsed(r, f) ==
    IF vendor[r] = "anthropic" THEN anthropic_stream(f, running[r]) ELSE openai_stream(f, running[r])

\* StreamAcc::apply
apply(a, e) ==
    CASE e.event = "MessageStart" -> [a EXCEPT !.tokens_in = e.tokens_in]
      [] e.event = "TextDelta" -> [a EXCEPT !.text = Append(@, e.n)]
      [] e.event = "Usage" -> [a EXCEPT !.tokens_in = e.tokens_in, !.tokens_out = e.n]
      [] OTHER -> a
-------------------------------------------------------------------------------
\* drive_stream clears the flag of the window before it reads.
begun(r) ==
    /\ phase' = [phase EXCEPT ![r] = "streaming"]
    /\ cleared' = [q \in Requests |-> cleared[q] \/ (q # r /\ pressed[q] # NotPressed)]

begin(r) == begun(r) /\ cancel' = FALSE

ai_explain(r) ==
    /\ phase[r] = "idle"
    /\ begin(r)
    /\ UNCHANGED <<vendor, described, warnings, prompt, sent, running, acc, pressed>>

\* build_suggest_request: the described tables, else the names of all of them.
suggested(ok) == IF ok = {} THEN Tables ELSE ok

ai_suggest(r, include_details) ==
    /\ phase[r] = "idle"
    /\ IF include_details /\ Tables # {}
       THEN /\ phase' = [phase EXCEPT ![r] = "describing"]
            /\ UNCHANGED <<prompt, cancel, cleared>>
       ELSE begin(r) /\ prompt' = [prompt EXCEPT ![r] = suggested({})]
    /\ UNCHANGED <<vendor, described, warnings, sent, running, acc, pressed>>

\* One describe_table; the last one is followed by the question.
describe(r, t) ==
    LET rest == Tables \ (described[r] \cup warnings[r])
        ok == described'[r]
    IN /\ phase[r] = "describing" /\ t \in rest
       /\ \/ described' = [described EXCEPT ![r] = @ \cup {t}] /\ UNCHANGED warnings
          \/ warnings' = [warnings EXCEPT ![r] = @ \cup {t}] /\ UNCHANGED described
       /\ IF rest = {t}
          THEN begin(r) /\ prompt' = [prompt EXCEPT ![r] = suggested(ok)]
          ELSE UNCHANGED <<phase, cancel, cleared, prompt>>
       /\ UNCHANGED <<vendor, sent, running, acc, pressed>>

\* cancel_ai: "pressed" says what each running answer held at the time.
cancel_ai ==
    /\ \E r \in Requests : phase[r] \in {"describing", "streaming"}
    /\ cancel' = TRUE
    /\ pressed' = [r \in Requests |->
                      IF phase[r] = "streaming" /\ pressed[r] = NotPressed THEN acc[r].text
                      ELSE pressed[r]]
    /\ UNCHANGED <<phase, vendor, described, warnings, prompt, sent, running, acc, cleared>>

done(r, outcome) == phase' = [phase EXCEPT ![r] = outcome] /\ UNCHANGED <<acc, running>>

\* The flag is looked at once the event has been shown.
taken_then_checked(r, e) ==
    IF e.event \in {"Err", "Error"} THEN done(r, "failed")
    ELSE /\ acc' = [acc EXCEPT ![r] = apply(@, e)]
         /\ running' = [running EXCEPT ![r] = e.tokens_in]
         /\ phase' = [phase EXCEPT ![r] = IF cancel THEN "cancelled"
                                          ELSE IF e.event = "MessageStop" THEN "answered" ELSE @]

taken(r, e) ==
    IF cancel THEN done(r, "cancelled")
    ELSE IF e.event \in {"Err", "Error"} THEN done(r, "failed")
    ELSE /\ acc' = [acc EXCEPT ![r] = apply(@, e)]
         /\ running' = [running EXCEPT ![r] = e.tokens_in]
         /\ phase' = [phase EXCEPT ![r] = IF e.event = "MessageStop" THEN "answered" ELSE @]

\* One turn of the loop of drive_stream: the next frame arrives and is read.  A
\* filtered frame does not come out of the reader, so the flag is not looked at.
drive_stream(r, k) ==
    /\ phase[r] = "streaming"
    /\ served(r, k)
    /\ LET e == parsed(r, frame(k, sent[r])) IN
          IF e.event = "filter" THEN UNCHANGED <<phase, acc, running>> ELSE taken(r, e)
    /\ UNCHANGED <<vendor, described, warnings, prompt, cancel, pressed, cleared>>

StreamNext ==
    \/ cancel_ai
    \/ \E r \in Requests :
          \/ ai_explain(r)
          \/ \E b \in BOOLEAN : ai_suggest(r, b)
          \/ \E t \in Tables : describe(r, t)
          \/ \E k \in Kinds("anthropic") : drive_stream(r, k)

StreamSpec == StreamInit /\ [][StreamNext]_StreamVars
-------------------------------------------------------------------------------
\* The n-th piece of text the service sent is n.
sent_text(r) == [n \in 1 .. Cardinality(texts(sent[r])) |-> n]
reports(r, kinds) == {i \in DOMAIN sent[r] : sent[r][i].kind \in kinds}
last(places) == CHOOSE i \in places : \A j \in places : j <= i

(***************************************************************************)
(* An answer that is reported as complete holds every piece of text the    *)
(* service sent, once and in order, and its meter says what the service    *)
(* reported last, the tokens of the question included (StreamAcc::apply,   *)
(* running_input_tokens).                                                  *)
(***************************************************************************)
AnswerIsWhatWasSent ==
    \A r \in Requests : phase[r] = "answered" =>
        /\ acc[r].text = sent_text(r)
        /\ reports(r, {"start", "usage"}) # {} =>
              /\ acc[r].tokens_in = Asked
              /\ LET usage == reports(r, {"usage"}) IN
                    acc[r].tokens_out = IF usage = {} THEN 0 ELSE sent[r][last(usage)].n

(***************************************************************************)
(* Cancel stops the answers that run when it is pressed and no later one:  *)
(* an answer is reported as cancelled only if the user pressed Cancel      *)
(* while it came, and once he did, its text does not grow, unless another  *)
(* request began meanwhile and cleared the flag they share (drive_stream). *)
(***************************************************************************)
CancelIsForThisAnswer ==
    \A r \in Requests :
        /\ phase[r] = "cancelled" => pressed[r] # NotPressed
        /\ pressed[r] # NotPressed /\ ~ cleared[r] => acc[r].text = pressed[r]

(***************************************************************************)
(* Every table list_tables found is named in the prompt or counted in the  *)
(* warning the panel shows (ai_suggest, build_suggest_request).            *)
(***************************************************************************)
PromptNamesOrWarns ==
    \A r \in Requests : prompt[r] # {} \/ (warnings[r] # {} /\ phase[r] # "describing") =>
        Tables \subseteq prompt[r] \cup warnings[r] /\ prompt[r] # {}

=============================================================================
