------------------------------ MODULE BrowserChat ------------------------------
(***************************************************************************)
(* The chat hook of the web interface (hooks/useChat.ts) over the history  *)
(* it keeps in the browser's storage (store/chatStore.ts).  The hook holds *)
(* its state twice: in a ref its callbacks read and write at once, and in  *)
(* React's state, whose effects, run some time after a rendering, copy     *)
(* what was rendered back into the ref.  Saving is throttled, except for   *)
(* the end of an answer.  "clobbered" remembers that an effect replaced a  *)
(* newer ref, "switched" has the streams that ran when the user changed    *)
(* under the hook, "cut" those that ended without an event.                *)
(***************************************************************************)
EXTENDS Integers, FiniteSets, Absent

CONSTANTS Accounts,
          Chats,      \* questions that may be asked, one stream each
          MaxDeltas   \* bound: deltas of a stream

Answers == [status : {"streaming", "completed", "error", "aborted"}, text : Nat]

ASSUME AccountsAssumption ==
  /\ None \notin Accounts \cup Chats /\ "away" \notin Accounts \cup {None}
  /\ None \notin [user : Accounts, memory : [Chats -> Answers \cup {None}]]

VARIABLES user,      \* userIdRef: the user, None (signed out), or "away" (unmounted)
          memory,    \* stateRef: the questions' answers, Chats -> [status, text] or None
          active,    \* activeStreamRef: the stream that can be stopped, or None
          state,     \* React's [memory, active], as last set
          rendered,  \* ... as last rendered
          effects,   \* the rendering's effects still to run, {"memory", "active"} or fewer
          queue,     \* queuedSaveRef: [user, memory], or None
          saved,     \* localStorage: Accounts -> history
          stream,    \* Chats -> [at, by, text]
          clobbered, switched, cut

chatVars == <<user, memory, active, state, rendered, effects, queue, saved, stream,
              clobbered, switched, cut>>

NoHistory == [c \in Chats |-> None]
Mounted == user # "away"
Running == {c \in Chats : stream[c].at = "running"}

BrowserInit ==
  /\ user = "away" /\ memory = NoHistory /\ active = None
  /\ state = [memory |-> NoHistory, active |-> None] /\ rendered = state /\ effects = {}
  /\ queue = None /\ saved = [u \in Accounts |-> NoHistory]
  /\ stream = [c \in Chats |-> [at |-> "unasked", by |-> None, text |-> 0]]
  /\ clobbered = FALSE /\ switched = {} /\ cut = {}

(* --------------------------- saving and committing ---------------------- *)
Stored(q) == IF q = None THEN saved ELSE [saved EXCEPT ![q.user] = q.memory]

\* commitState, throttled or immediate, with the stream ref and state it goes with.
Commit(next, nextActive, immediate) ==
  LET q == IF user \in Accounts THEN [user |-> user, memory |-> next] ELSE queue
  IN  /\ memory' = next /\ active' = nextActive
      /\ state' = [memory |-> next, active |-> nextActive]
      /\ saved' = IF immediate THEN Stored(q) ELSE saved
      /\ queue' = IF immediate THEN None ELSE q
      /\ UNCHANGED <<rendered, effects>>

\* updateMessage: a history that does not hold the message stays as it is.
WithAnswer(h, c, answer) == IF h[c] = None THEN h ELSE [h EXCEPT ![c] = answer]

SaveTimer ==
  /\ queue # None
  /\ saved' = Stored(queue) /\ queue' = None
  /\ UNCHANGED <<user, memory, active, state, rendered, effects, stream, clobbered,
                 switched, cut>>

(* -------------------------------- rendering ------------------------------ *)
\* The effects of the last rendering copy what it showed into the refs.
RunEffects ==
  /\ Mounted /\ effects # {}
  /\ memory' = IF "memory" \in effects THEN rendered.memory ELSE memory
  /\ active' = IF "active" \in effects THEN rendered.active ELSE active
  /\ effects' = {}
  /\ clobbered' = (clobbered \/ \E ref \in effects : state[ref] # rendered[ref])
  /\ UNCHANGED <<user, state, rendered, queue, saved, stream, switched, cut>>

\* React renders the state that was last set, after the effects of the rendering before;
\* an effect runs when what it depends on has changed.
Render ==
  /\ Mounted /\ effects = {} /\ rendered # state
  /\ rendered' = state
  /\ effects' = {ref \in {"memory", "active"} : state[ref] # rendered[ref]}
  /\ UNCHANGED <<user, memory, active, state, queue, saved, stream, clobbered, switched, cut>>

(* -------------------------------- streaming ------------------------------ *)
\* sendMessage: refused while a stream is active; the question and an empty answer.
Send(c) ==
  /\ user \in Accounts /\ active = None
  /\ stream[c].at = "unasked"
  /\ stream' = [stream EXCEPT ![c] = [at |-> "running", by |-> user, text |-> 0]]
  /\ Commit([memory EXCEPT ![c] = [status |-> "streaming", text |-> 0]], c, FALSE)
  /\ UNCHANGED <<user, clobbered, switched, cut>>

Delta(c) ==
  /\ c \in Running /\ stream[c].text < MaxDeltas
  /\ stream' = [stream EXCEPT ![c].text = @ + 1]
  /\ Commit(IF memory[c] = None THEN memory
            ELSE [memory EXCEPT ![c].text = @ + 1, ![c].status = "streaming"], active, FALSE)
  /\ UNCHANGED <<user, clobbered, switched, cut>>

\* Mutant: only the stop button clears the refs.
EndsActive(c, next) == Commit(next, active, TRUE)

\* The callback stores the answer, streamChat returns or throws, and "finally" clears
\* the refs, whichever stream they hold.
EndsWith(c, next) == Commit(next, None, TRUE)

Over(c) == stream' = [stream EXCEPT ![c].at = "over"]

\* onFinal (its text is the whole answer), onError, or an exception other than an abort.
EndStream(c) ==
  /\ c \in Running
  /\ Over(c)
  /\ \/ EndsWith(c, WithAnswer(memory, c, [status |-> "completed", text |-> stream[c].text]))
     \/ memory[c] # None /\ EndsWith(c, [memory EXCEPT ![c].status = "error"])
     \/ memory[c] = None /\ EndsWith(c, memory)
  /\ UNCHANGED <<user, clobbered, switched, cut>>

\* The response ends without a final or an error event: no callback is called.
CutStream(c) ==
  /\ c \in Running
  /\ Over(c)
  /\ active' = None /\ state' = [state EXCEPT !.active = None]
  /\ cut' = cut \cup {c}
  /\ UNCHANGED <<user, memory, rendered, effects, queue, saved, clobbered, switched>>

Aborted(c) == IF memory[c] = None THEN memory ELSE [memory EXCEPT ![c].status = "aborted"]

StopGenerating ==
  /\ Mounted /\ active \in Running
  /\ Over(active)
  /\ EndsWith(active, Aborted(active))
  /\ UNCHANGED <<user, clobbered, switched, cut>>

(* -------------------------------- the user ------------------------------- *)
\* Mutant: the new user starts with what is in memory.
HistoryKept(u) == memory

HistoryOf(u) == IF u = None THEN NoHistory ELSE saved[u]

\* A rendering with another user, or none: its effects save what is queued and load the
\* history of the new user; a running stream is left alone.
SwitchUser(u) ==
  /\ Mounted /\ u # user /\ effects = {}
  /\ user' = u
  /\ saved' = Stored(queue) /\ queue' = None
  /\ memory' = HistoryOf(u)
  /\ state' = [memory |-> HistoryOf(u), active |-> None]
  /\ rendered' = state
  /\ active' = IF state.active # rendered.active THEN state.active ELSE active
  /\ switched' = switched \cup Running
  /\ UNCHANGED <<effects, stream, clobbered, cut>>

\* The page is opened, or opened again.
Mount(u) ==
  /\ user = "away" /\ Running = {}
  /\ user' = u
  /\ memory' = HistoryOf(u) /\ active' = None
  /\ state' = [memory |-> HistoryOf(u), active |-> None]
  /\ rendered' = state' /\ effects' = {}
  /\ UNCHANGED <<queue, saved, stream, clobbered, switched, cut>>

\* The page is left: the queue is saved and the active stream aborted.  (A stream that
\* lost its ref to a changed user and so outlives the page is left out.)
Unmount ==
  /\ Mounted /\ effects = {} /\ Running \subseteq {active}
  /\ user' = "away"
  /\ LET last == IF active \in Running /\ user \in Accounts
                 THEN [user |-> user, memory |-> Aborted(active)] ELSE queue
     IN  saved' = Stored(last)
  /\ queue' = None /\ active' = None /\ effects' = {}
  /\ stream' = [c \in Chats |-> IF c \in Running THEN [stream[c] EXCEPT !.at = "over"]
                                                 ELSE stream[c]]
  /\ UNCHANGED <<memory, state, rendered, clobbered, switched, cut>>

\* The browser is closed or the page reloaded: nothing runs, only the storage is left.
Reload ==
  /\ Mounted
  /\ user' = "away" /\ queue' = None /\ active' = None /\ effects' = {}
  /\ cut' = cut \cup Running
  /\ stream' = [c \in Chats |-> IF c \in Running THEN [stream[c] EXCEPT !.at = "over"]
                                                 ELSE stream[c]]
  /\ UNCHANGED <<memory, state, rendered, saved, clobbered, switched>>

BrowserNext ==
  \/ \E c \in Chats : Send(c) \/ Delta(c) \/ EndStream(c) \/ CutStream(c)
  \/ \E u \in Accounts \cup {None} : SwitchUser(u) \/ Mount(u)
  \/ SaveTimer \/ RunEffects \/ Render \/ StopGenerating \/ Unmount \/ Reload

BrowserSpec == BrowserInit /\ [][BrowserNext]_chatVars

(* ------------------------------ properties ------------------------------- *)
\* The history stored for a user holds that user's questions only, whoever signs in under
\* a running stream or a queued save.
HistoryIsOwn ==
  \A u \in Accounts, c \in Chats : saved[u][c] # None => stream[c].by = u

\* Until a user changes under a running stream, what runs is the one stream that can be
\* stopped.  An answer whose stream is over is settled, in the memory and in the stored
\* history, whoever has signed in since, unless it was itself cut off in silence or running
\* under a change of user, or an effect has taken an older state over a ref.
StreamingIsLive ==
  ~clobbered =>
    /\ switched = {} => Running \subseteq {active} /\ (Mounted => active \in Running \cup {None})
    /\ \A c \in Chats \ (cut \cup Running \cup switched) :
         /\ Mounted /\ memory[c] # None => memory[c].status # "streaming"
         /\ \A u \in Accounts : saved[u][c] # None => saved[u][c].status # "streaming"
=============================================================================
