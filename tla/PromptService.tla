--------------------------- MODULE PromptService ---------------------------
(***************************************************************************)
(* What the runtime of a session promises to the worker and to the user,   *)
(* without processes, ids, queues and readers: one prompt at a time; what  *)
(* is heard during a prompt is about it, or late news of prompts that were *)
(* cut short, or the history of the session; and a prompt is answered by   *)
(* its own response, after all that the agent said and asked about it came *)
(* through.                                                                *)
(***************************************************************************)
EXTENDS Naturals

VARIABLES
  turn,   \* number of the prompt
  busy,   \* it is under way
  news,   \* kinds of messages about it that the agent sent and nobody read
  text,   \* prompts the text read during this one is about, 0 for history
  shown,  \* the prompt whose permission request the user sees, 0 for none
  cut     \* prompts that ended without their response

vars == <<turn, busy, news, text, shown, cut>>

Init ==
  /\ turn = 0
  /\ busy = FALSE
  /\ news = {}
  /\ text = {}
  /\ shown = 0
  /\ cut = {}

Begin ==
  /\ ~busy
  /\ turn' = turn + 1
  /\ busy' = TRUE
  /\ text' = {}
  /\ UNCHANGED <<news, shown, cut>>

\* The agent says nothing more after its response.
Say(kind) ==
  /\ busy
  /\ "response" \notin news
  /\ news' = news \cup {kind}
  /\ UNCHANGED <<turn, busy, text, shown, cut>>

\* One message is read; there may be more of its kind.
Read(kind) ==
  /\ busy /\ shown = 0
  /\ kind \in news
  /\ news' \in {news, news \ {kind}}

Hear ==
  /\ Read("chunk")
  /\ text' = text \cup {turn}
  /\ UNCHANGED <<turn, busy, shown, cut>>

Ask ==
  /\ Read("ask")
  /\ shown' = turn
  /\ UNCHANGED <<turn, busy, text, cut>>

\* The same for what was said about a prompt that was cut short, and history.
LateNews(t) ==
  /\ busy /\ shown = 0
  /\ t \in cut \cup {0}
  /\ \/ text' = text \cup {t} /\ UNCHANGED shown
     \/ t \in cut /\ shown' = t /\ UNCHANGED text
  /\ UNCHANGED <<turn, busy, news, cut>>

\* The user chose, or the request is withdrawn.
Settle ==
  /\ shown # 0
  /\ shown' = 0
  /\ UNCHANGED <<turn, busy, news, text, cut>>

\* The response is the last message.
Answer ==
  /\ busy /\ shown = 0
  /\ news = {"response"}
  /\ busy' = FALSE
  /\ news' = {}
  /\ UNCHANGED <<turn, text, shown, cut>>

\* A process that is stopped takes what nobody read with it.
Lose ==
  /\ news' \in SUBSET news
  /\ UNCHANGED <<turn, busy, text, shown, cut>>

\* The prompt ends without its response, maybe right after a last message.
Cut ==
  /\ busy
  /\ busy' = FALSE
  /\ cut' = cut \cup {turn}
  /\ news' = {}
  /\ shown' = 0
  /\ \/ UNCHANGED text
     \/ \E t \in {turn, 0} \cup cut : text' = text \cup {t}
  /\ UNCHANGED turn

Next ==
  \/ Begin \/ Hear \/ Ask \/ Settle \/ Answer \/ Lose \/ Cut
  \/ \E kind \in {"chunk", "ask", "response"} : Say(kind)
  \/ \E t \in cut \cup {0} : LateNews(t)

Spec == Init /\ [][Next]_vars
=============================================================================
