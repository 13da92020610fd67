--------------------------- MODULE MemoryManager ---------------------------
(***************************************************************************)
(* The long-term memory of the users: a list of facts per user, loaded     *)
(* into a cache on first use, changed there, and written to facts.json by  *)
(* a debounce loop and at shutdown.                                        *)
(*                                                                         *)
(* A worker shows the facts of the sender to the agent when a conversation *)
(* begins, and applies the <memory> operations of an answer to the facts   *)
(* of the sender of that message; a replace or forget names its fact by    *)
(* the index it was shown with.  A conversation may have many senders and  *)
(* a sender many conversations.                                            *)
(*                                                                         *)
(* Every fact the code makes has confidence 0.9, so the (stable) order by  *)
(* confidence is the order of the list.  The two other files of a user     *)
(* never change.  Facts are numbered as they come in; their texts matter    *)
(* only where an added one is compared with those there.                   *)
(***************************************************************************)
EXTENDS SequencesExt

CONSTANTS
  User,      \* open_ids
  Session,   \* sessions, each with the conversation of its agent
  Text,      \* texts of facts
  Like,      \* pairs of texts with a similarity above 0.85
  Limits,    \* values of memory_max_facts that the settings file takes
  Top,       \* facts shown at most (10)
  NoOne,     \* no session
  MaxMade,   \* bound: facts that enter a list
  MaxFail,   \* bound: failing writes and reads
  MaxBoot    \* bound: restarts

ASSUME MemoryAssumption ==
  /\ IsFiniteSet(User)
  /\ Like \subseteq Text \X Text
  /\ \A t \in Text : <<t, t>> \in Like
  /\ Limits \subseteq Nat
  /\ Top \in Nat
  /\ NoOne \notin Session
  /\ MaxMade \in Nat
  /\ MaxFail \in Nat
  /\ MaxBoot \in Nat

VARIABLES
  loaded,   \* users in the cache
  cache,    \* their facts; none for the others
  dirty,    \* users to be written
  disk,     \* facts.json of each user
  limit,    \* memory_max_facts
  sender,   \* of each session that executes a task: its user
  applying, \* the session whose operations are being applied, or NoOne
  resumed,  \* sessions whose runtime knows a conversation (actual_id)
  phase,    \* "up", or "flushed": shutdown has written the memory
  made,     \* facts that entered a list so far
  failed,   \* failing writes and reads so far
  boots,    \* restarts so far
  shown,    \* history: what a conversation was shown in this process, if no
            \* fact of that user was forgotten since, as far as limits allow
  kept,     \* history: facts of each user that were accepted and not
            \* forgotten, nor past a limit when a fact was added, nor in a
            \* file that could not be read
  filed,    \* history: kept at the last write
  misread   \* history: users with the empty list of a file that could not be
            \* read, unchanged since

memoryVars == <<loaded, cache, dirty, disk>>
taskVars == <<sender, applying, resumed>>
boundVars == <<made, failed, boots>>
historyVars == <<shown, kept, filed, misread>>
vars == <<memoryVars, limit, taskVars, phase, boundVars, historyVars>>

Fact == [id : 1..made, text : Text]
Ids(facts) == {facts[i].id : i \in DOMAIN facts}
IdList(facts) == [i \in DOMAIN facts |-> facts[i].id]

\* f with x at s, f without the places outside S
With(f, s, x) == [c \in DOMAIN f \union {s} |-> IF c = s THEN x ELSE f[c]]
Without(f, S) == [c \in DOMAIN f \ S |-> f[c]]

TypeOK ==
  /\ loaded \subseteq User
  /\ cache \in [User -> Seq(Fact)]
  /\ \A u \in User \ loaded : cache[u] = <<>>
  /\ dirty \subseteq loaded
  /\ disk \in [User -> Seq(Fact)]
  /\ limit \in Limits
  /\ sender \in [DOMAIN sender -> User]
  /\ DOMAIN sender \subseteq Session
  /\ applying \in DOMAIN sender \union {NoOne}
  /\ resumed \subseteq Session
  /\ phase \in {"up", "flushed"}
  /\ made \in Nat
  /\ failed \in Nat
  /\ boots \in Nat
  /\ shown \in [DOMAIN shown -> [of : User, ids : Seq(Nat)]]
  /\ DOMAIN shown \subseteq Session
  /\ kept \in [User -> SUBSET (1..made)]
  /\ filed \in [User -> SUBSET (1..made)]
  /\ misread \subseteq loaded \ dirty

Init ==
  /\ loaded = {}
  /\ cache = [u \in User |-> <<>>]
  /\ dirty = {}
  /\ disk = [u \in User |-> <<>>]
  /\ limit \in Limits
  /\ sender = <<>>
  /\ applying = NoOne
  /\ resumed = {}
  /\ phase = "up"
  /\ made = 0
  /\ failed = 0
  /\ boots = 0
  /\ shown = <<>>
  /\ kept = [u \in User |-> {}]
  /\ filed = [u \in User |-> {}]
  /\ misread = {}

-----------------------------------------------------------------------------
(* The store.  It awaits nothing, so each call is one step.  Facts(u) is   *)
(* what load(u) returns: the cached list, or else the file's.              *)

Facts(u) == IF u \in loaded THEN cache[u] ELSE disk[u]

\* A file that cannot be read or parsed counts as one without facts.
Readable(u) ==
  {Facts(u)} \union (IF u \notin loaded /\ failed < MaxFail THEN {<<>>} ELSE {})
Misses(u, facts) == facts # Facts(u)
Failures(u, facts) == IF Misses(u, facts) THEN failed + 1 ELSE failed
Left(u, facts) == IF Misses(u, facts) THEN {} ELSE kept[u]

Load(u, facts) ==
  /\ facts \in Readable(u)
  /\ loaded' = loaded \union {u}
  /\ cache' = [cache EXCEPT ![u] = facts]
  /\ kept' = [kept EXCEPT ![u] = Left(u, facts)]
  /\ failed' = Failures(u, facts)
  /\ misread' = IF Misses(u, facts) THEN misread \union {u} ELSE misread

\* The file has no such facts in it, or is not text: load() raises.
LoadFails(u) ==
  /\ u \notin loaded
  /\ failed < MaxFail
  /\ failed' = failed + 1
  /\ UNCHANGED <<loaded, cache, kept, misread>>

\* get_top_facts
Shown(facts) == IF Len(facts) > Top THEN SubSeq(facts, 1, Top) ELSE facts

\* Places of the facts a new text is merged with; the first one is taken.
Similar(facts, t) == {i \in DOMAIN facts : <<facts[i].text, t>> \in Like}
First(S) == CHOOSE i \in S : \A j \in S : i <= j

\* The list is cut after sorting it by confidence: the new fact goes, and
\* those before it that are past the limit of now.
CutFirst(facts) ==
  IF Len(facts) > limit
  THEN SubSeq(facts, Len(facts) - limit + 1, Len(facts)) ELSE facts
Cut(facts) == IF Len(facts) > limit THEN SubSeq(facts, 1, limit) ELSE facts

\* facts, with a fact of text t: merged, appended, or appended and cut.
Added(facts, t) ==
  IF Similar(facts, t) # {}
  THEN [facts EXCEPT ![First(Similar(facts, t))].text = t]
  ELSE Cut(Append(facts, [id |-> made + 1, text |-> t]))

\* Facts that an addition may push out: those past the limit, if it cuts.
Past(facts, t) ==
  IF Similar(facts, t) = {} THEN {facts[i].id : i \in {j \in DOMAIN facts : j > limit}}
  ELSE {}

\* The cache of u becomes facts.
Changed(u, facts) ==
  /\ cache' = [cache EXCEPT ![u] = facts]
  /\ dirty' = dirty \union {u}
  /\ misread' = misread \ {u}
  /\ UNCHANGED <<disk, limit, filed>>

\* add_fact to facts, the list of u that a load returned.
AddFact(u, facts, t) ==
  /\ made' = IF made + 1 \in Ids(Added(facts, t)) THEN made + 1 ELSE made
  /\ made' <= MaxMade
  /\ Changed(u, Added(facts, t))
  /\ kept' = [kept EXCEPT ![u] =
       (Left(u, facts) \ Past(facts, t)) \union (Ids(Added(facts, t)) \ 1..made)]
  /\ shown' = IF Past(facts, t) = {} THEN shown
              ELSE [s \in DOMAIN shown |->
                      IF shown[s].of = u
                      THEN [shown[s] EXCEPT !.ids = Cut(shown[s].ids)]
                      ELSE shown[s]]

\* forget_fact: the facts behind it move up.
ForgetFact(u, i) ==
  /\ Changed(u, RemoveAt(cache[u], i))
  /\ kept' = [kept EXCEPT ![u] = @ \ {cache[u][i].id}]
  /\ shown' = Without(shown, {s \in DOMAIN shown : shown[s].of = u})

\* flush_all: those whose write fails stay dirty.
FlushAllClears(bad) ==
  /\ failed' = failed + Cardinality(bad)
  /\ dirty' = {}
  /\ disk' = [u \in User |-> IF u \in dirty \ bad THEN cache[u] ELSE disk[u]]
  /\ filed' = [u \in User |-> IF u \in dirty \ bad THEN kept[u] ELSE filed[u]]
FlushAll(bad) ==
  /\ failed' = failed + Cardinality(bad)
  /\ dirty' = bad
  /\ disk' = [u \in User |-> IF u \in dirty \ bad THEN cache[u] ELSE disk[u]]
  /\ filed' = [u \in User |-> IF u \in dirty \ bad THEN kept[u] ELSE filed[u]]
Failing == {bad \in SUBSET dirty : failed + Cardinality(bad) <= MaxFail}

-----------------------------------------------------------------------------
(* The worker.  While operations are applied nothing else runs. *)

Free == applying = NoOne

\* A task of u; a new conversation is shown the facts of u.
Begin(s, u) ==
  /\ Free
  /\ s \notin DOMAIN sender
  /\ sender' = With(sender, s, u)
  /\ IF s \in resumed
     THEN UNCHANGED <<loaded, cache, failed, shown, kept, misread>>
     ELSE \/ \E facts \in Readable(u) :
               /\ Load(u, facts)
               /\ shown' = With(shown, s, [of |-> u, ids |-> IdList(Shown(facts))])
          \/ LoadFails(u) /\ shown' = Without(shown, {s})
  /\ UNCHANGED <<dirty, disk, limit, applying, resumed, phase, made, boots, filed>>

\* execute() returns: the runtime knows the conversation.
Answer(s) ==
  /\ Free
  /\ s \in DOMAIN sender
  /\ applying' = s
  /\ resumed' = resumed \union {s}
  /\ UNCHANGED <<memoryVars, limit, sender, phase, boundVars, historyVars>>

\* <memory>t</memory>, dropped if the sender's memory is not in the cache.
AddOp(s) ==
  /\ applying = s
  /\ LET u == sender[s] IN
     /\ u \in loaded
     /\ \E t \in Text : AddFact(u, cache[u], t)
  /\ UNCHANGED <<loaded, taskVars, phase, failed, boots>>

\* <memory op="replace" idx="i - 1">t</memory>: no comparison with others.
ReplaceOp(s) ==
  /\ applying = s
  /\ LET u == sender[s] IN
     \E i \in DOMAIN cache[u], t \in Text :
        Changed(u, [cache[u] EXCEPT ![i].text = t])
  /\ UNCHANGED <<loaded, taskVars, phase, boundVars, shown, kept>>

\* <memory op="forget" idx="i - 1"/>
ForgetOp(s) ==
  /\ applying = s
  /\ \E i \in DOMAIN cache[sender[s]] : ForgetFact(sender[s], i)
  /\ UNCHANGED <<loaded, taskVars, phase, boundVars>>

\* No further operation; those out of range or dropped leave no trace, nor do
\* those of an answer with a malformed one.
Applied(s) ==
  /\ applying = s
  /\ applying' = NoOne
  /\ sender' = Without(sender, {s})
  /\ UNCHANGED <<memoryVars, limit, resumed, phase, boundVars, historyVars>>

\* execute() raised, timed out or was stopped; the runtime may be left with
\* or without a conversation.
Fail(s) ==
  /\ Free
  /\ s \in DOMAIN sender
  /\ sender' = Without(sender, {s})
  /\ resumed' \in {resumed \union {s}, resumed \ {s}}
  /\ UNCHANGED <<memoryVars, limit, applying, phase, boundVars, historyVars>>

\* /new
New(s) ==
  /\ Free
  /\ s \in resumed
  /\ resumed' = resumed \ {s}
  /\ UNCHANGED <<memoryVars, limit, sender, applying, phase, boundVars, historyVars>>

\* /remember t: load and add; nothing happens if the load raises.
Remember(u) ==
  /\ Free
  /\ phase = "up"
  /\ loaded' = loaded \union {u}
  /\ \E facts \in Readable(u), t \in Text :
       AddFact(u, facts, t) /\ failed' = Failures(u, facts)
  /\ UNCHANGED <<taskVars, phase, boots>>

-----------------------------------------------------------------------------
(* The process *)

\* SIGHUP: memory_max_facts is read from the settings file again.
Reload(n) ==
  /\ Free
  /\ limit' = n
  /\ UNCHANGED <<memoryVars, taskVars, phase, boundVars, historyVars>>

\* One round of _debounce_loop.
DebounceClean ==
  /\ Free
  /\ dirty = {}
  /\ \E bad \in Failing : FlushAll(bad)
  /\ UNCHANGED <<loaded, cache, limit, taskVars, phase, made, boots, shown, kept,
                 misread>>
Debounce ==
  /\ Free
  /\ dirty # {}
  /\ \E bad \in Failing : FlushAll(bad)
  /\ UNCHANGED <<loaded, cache, limit, taskVars, phase, made, boots, shown, kept,
                 misread>>

\* Shutdown: the last flush.  Workers may still be at their tasks.
Shutdown ==
  /\ Free
  /\ phase = "up"
  /\ phase' = "flushed"
  /\ \E bad \in Failing : FlushAll(bad)
  /\ UNCHANGED <<loaded, cache, limit, taskVars, made, boots, shown, kept, misread>>

\* The process exits or is killed, and a new one starts.  Which sessions
\* resume a conversation, and which, is up to the StateStore.
Restart ==
  /\ boots < MaxBoot
  /\ boots' = boots + 1
  /\ loaded' = {}
  /\ cache' = [u \in User |-> <<>>]
  /\ dirty' = {}
  /\ sender' = <<>>
  /\ applying' = NoOne
  /\ resumed' \in SUBSET Session
  /\ phase' = "up"
  /\ limit' \in Limits
  /\ shown' = <<>>
  /\ misread' = {}
  /\ kept' = filed
  /\ UNCHANGED <<disk, made, failed, filed>>

-----------------------------------------------------------------------------
\* What the <memory> tags of an answer may ask for.
Operation(s) == AddOp(s) \/ ReplaceOp(s) \/ ForgetOp(s)

Worker(s) ==
  \/ \E u \in User : Begin(s, u)
  \/ Answer(s) \/ Operation(s) \/ Applied(s) \/ Fail(s) \/ New(s)

Next ==
  \/ \E s \in Session : Worker(s)
  \/ \E u \in User : Remember(u)
  \/ \E n \in Limits : Reload(n)
  \/ Debounce \/ Shutdown \/ Restart

Spec == Init /\ [][Next]_vars

\* The operations of an answer come to an end, and the timer of the loop,
\* which outlives a failing write, is served between two answers.
Fairness ==
  /\ \A s \in Session : WF_vars(Applied(s))
  /\ SF_vars(Debounce)

FairSpec == Spec /\ Fairness

-----------------------------------------------------------------------------
(* Properties *)

\* What is not dirty is on the disk, but for a file that could not be read; no
\* list has a fact twice.
Good(facts) ==
  \A i, j \in DOMAIN facts : facts[i].id = facts[j].id => i = j
SavedInv ==
  \A u \in User :
    /\ u \in loaded \ dirty =>
         IF u \in misread THEN cache[u] = <<>> ELSE disk[u] = cache[u]
    /\ Good(cache[u]) /\ Good(disk[u])

\* A fact that was accepted is there until it is forgotten, or until one is
\* added while its place is past a limit that was lowered, or its file cannot
\* be read when it is needed: otherwise it is not pushed out by a later one,
\* undone by a load or lost with a failing write; after a crash it is there if
\* it was written.
KeptInv ==
  \A u \in User : /\ Ids(Facts(u)) = kept[u]
                  /\ Ids(disk[u]) = filed[u]

MemoryInv == TypeOK /\ SavedInv /\ KeptInv

\* The index an agent was shown with a fact is the fact's index still, as
\* long as no fact of that user has been forgotten, in this or in another
\* conversation, and the process is the same; a lowered limit takes facts away
\* at the end and leaves the other indexes right.
StillThere(ids, facts) ==
  Len(ids) <= Len(facts) /\ \A i \in 1..Len(ids) : facts[i].id = ids[i]
IndexesHold ==
  \A s \in DOMAIN shown :
    shown[s].of \in loaded /\ StillThere(shown[s].ids, cache[shown[s].of])

\* Without its cache, its dirty users and its failing writes the memory is a
\* list of facts per user that changes by one fact at a time, and only on the
\* word of an agent or a user: a flush or a failing write changes nothing, nor
\* does a load unless the file cannot be read, only an addition cuts a list, to
\* the limit of then, and a forgotten fact does not come back but with a crash,
\* which leaves what was written (MemoryManager.load, add_fact, flush_all).
Store == INSTANCE FactStore
         WITH memory <- [u \in User |-> Facts(u)], file <- disk,
              Id <- 1..MaxMade
KeepsFacts == Store!Spec

\* The file of a user catches up with every change, although a write may
\* fail, unless the process ends first.  An empty list in the place of a file
\* that could not be read is no change.
ReachesDisk ==
  \A u \in User :
    disk[u] # Facts(u) /\ u \notin misread
      ~> (disk[u] = Facts(u) \/ phase # "up")

=============================================================================
