------------------------------ MODULE WebProofs ------------------------------
(* The two hooks of the web interface that keep state over time: the document *)
(* queue of the landing page and the chat.                                    *)
EXTENDS DocQueue, BrowserChat, TLAPS

(* ----------------------------- document queue ---------------------------- *)

(* The document queue is never shown as done too early, for any set of        *)
(* documents and any number of runs.  The timers are always those of the      *)
(* present run; what that run has marked as done was marked by one of them,   *)
(* or by a preference not to animate.  Between a rendering and its effect     *)
(* nothing is claimed about the new options: the old run's timers still fire. *)

\* What the run knows, once the options it was started with are the rendered ones.
RunMatches ==
  /\ DOMAIN status = options.items
  /\ fired \subseteq options.items
  /\ \A t \in timers : t.item \in options.items /\ options.enabled
  /\ \A i \in options.items :
       status[i] = "done" => options.enabled /\ (options.reduced \/ i \in fired)

QueueInv == (\A t \in timers : t.run = run) /\ (~stale => RunMatches)

\* A page that is opened has no timer and an effect to run.
LEMMA QueueStarts == DocInit => QueueInv
  BY DEF DocInit, QueueInv

\* The effect starts the statuses, the timers and the count of this run together.
LEMMA EffectKeeps == QueueInv /\ RunEffect => QueueInv'
<1> SUFFICES ASSUME RunEffect PROVE QueueInv'
  OBVIOUS
<1>1. /\ options' = options /\ fired' = {}
      /\ status' = [i \in options.items |->
                      IF options.enabled /\ options.reduced THEN "done" ELSE "loading"]
  BY DEF RunEffect, InitialStatus
<1>2. \A t \in timers' : t.run = run' /\ t.item \in options.items /\ options.enabled
  BY DEF RunEffect
<1> QED
  BY <1>1, <1>2 DEF QueueInv, RunMatches

\* A timer marks its own document and counts as fired.
LEMMA TimerKeeps == QueueInv /\ TimerFires => QueueInv'
<1> SUFFICES ASSUME QueueInv, TimerFires PROVE QueueInv'
  OBVIOUS
<1>1. PICK t \in timers :
        /\ timers' = timers \ {t}
        /\ status' = IF t.run = run
                     THEN [i \in DOMAIN status \cup {t.item} |->
                             IF i = t.item THEN "done" ELSE status[i]]
                     ELSE status
        /\ fired' = fired \cup {t.item}
        /\ UNCHANGED <<options, stale, run>>
  BY DEF TimerFires
<1>2. t.run = run
  BY DEF QueueInv
<1>3. ASSUME ~stale PROVE RunMatches'
  BY <1>1, <1>2, <1>3 DEF QueueInv, RunMatches
<1> QED
  BY <1>1, <1>3 DEF QueueInv

\* Every step keeps the invariant.
LEMMA QueueStep == QueueInv /\ [DocNext]_queueVars => QueueInv'
<1> SUFFICES ASSUME QueueInv, [DocNext]_queueVars PROVE QueueInv'
  OBVIOUS
<1>1. CASE Rerender
  BY <1>1 DEF Rerender, QueueInv
<1>2. CASE UNCHANGED queueVars
  BY <1>2 DEF queueVars, QueueInv, RunMatches
<1> QED
  BY <1>1, <1>2, EffectKeeps, TimerKeeps DEF DocNext

\* All documents are done only when every timer of the present run has fired, or nothing
\* is to be animated.
THEOREM DoneIsEarnedAlways == DocSpec => []DoneIsEarned
<1>1. QueueInv => DoneIsEarned
  BY DEF QueueInv, RunMatches, DoneIsEarned, AllDone
<1> QED
  BY <1>1, QueueStarts, QueueStep, PTL DEF DocSpec

(* ------------------------------ chat history ----------------------------- *)

(* A history stored in the browser never takes another user's question, for   *)
(* any users and any number of questions.  A history is handed from the ref   *)
(* to React's state, to a rendering, to the queue and to the storage; the     *)
(* invariant follows it through all five.  It is kept because a changed user  *)
(* replaces every copy that can still be saved under the new name, and a      *)
(* rendering of the old user has no effect left to run.                       *)

Streams == [Chats -> [at : {"unasked", "running", "over"}, by : Accounts \cup {None}, text : Nat]]

\* The history h holds questions of u only, by the streams s.
Own(h, u, s) ==
  /\ h = [c \in Chats |-> h[c]]
  /\ \A c \in Chats : h[c] # None => u # None /\ s[c].by = u

Typed ==
  /\ user \in Accounts \cup {None, "away"}
  /\ stream \in Streams /\ \A c \in Chats : stream[c].at = "unasked" => stream[c].by = None
  /\ state = [memory |-> state.memory, active |-> state.active]
  /\ saved = [u \in Accounts |-> saved[u]]

QueueOwn(q, s) == q # None => q.user \in Accounts /\ Own(q.memory, q.user, s)
SavedOwn(f, s) == \A u \in Accounts : Own(f[u], u, s)

Shown ==
  Mounted => /\ Own(memory, user, stream) /\ Own(state.memory, user, stream)
             /\ "memory" \in effects => Own(rendered.memory, user, stream)

BrowserInv == Typed /\ QueueOwn(queue, stream) /\ SavedOwn(saved, stream) /\ Shown

\* Nobody's history is anybody's.
LEMMA NoHistoryOwn == \A u, s : Own(NoHistory, u, s)
  BY DEF Own, NoHistory

\* Storing what is queued.
LEMMA StoredOwn ==
  ASSUME NEW q, NEW s, saved = [u \in Accounts |-> saved[u]], SavedOwn(saved, s), QueueOwn(q, s)
  PROVE  /\ SavedOwn(Stored(q), s)
         /\ Stored(q) = [u \in Accounts |-> Stored(q)[u]]
<1>1. CASE q = None
  BY <1>1 DEF Stored
<1>2. CASE q # None
  <2>1. Stored(q) = [u \in Accounts |-> IF u = q.user THEN q.memory ELSE saved[u]]
    BY <1>2 DEF Stored
  <2> QED
    BY <1>2, <2>1 DEF SavedOwn, QueueOwn
<1> QED
  BY <1>1, <1>2

\* The history of the user that is signed in.
LEMMA HistoryOwn ==
  ASSUME BrowserInv, NEW u \in Accounts \cup {None}
  PROVE  Own(HistoryOf(u), u, stream)
  BY NoHistoryOwn DEF BrowserInv, SavedOwn, HistoryOf

\* commitState hands the user's own history on.
LEMMA CommitOwn ==
  ASSUME BrowserInv, NEW next, NEW nextActive, NEW immediate \in BOOLEAN,
         stream' \in Streams, \A c \in Chats : stream'[c].at = "unasked" => stream'[c].by = None,
         \A c \in Chats : stream[c].by # None => stream'[c].by = stream[c].by,
         Mounted => Own(next, user, stream'),
         Commit(next, nextActive, immediate), user' = user
  PROVE  BrowserInv'
<1> DEFINE q == IF user \in Accounts THEN [user |-> user, memory |-> next] ELSE queue
<1>1. /\ memory' = next /\ state' = [memory |-> next, active |-> nextActive]
      /\ saved' = IF immediate THEN Stored(q) ELSE saved
      /\ queue' = IF immediate THEN None ELSE q
      /\ rendered' = rendered /\ effects' = effects
  BY DEF Commit
<1>2. /\ Typed /\ QueueOwn(queue, stream) /\ SavedOwn(saved, stream) /\ Shown
  BY DEF BrowserInv
<1>3. \A h, u : Own(h, u, stream) => Own(h, u, stream')
  BY <1>2 DEF Own
<1>4. QueueOwn(queue, stream') /\ SavedOwn(saved, stream')
  BY <1>2, <1>3 DEF QueueOwn, SavedOwn
<1>5. QueueOwn(q, stream')
  BY <1>4, AccountsAssumption DEF QueueOwn, Mounted
<1>6. SavedOwn(Stored(q), stream') /\ Stored(q) = [u \in Accounts |-> Stored(q)[u]]
  BY <1>2, <1>4, <1>5, StoredOwn DEF Typed
<1>7. QueueOwn(queue', stream') /\ SavedOwn(saved', stream')
  BY <1>1, <1>4, <1>5, <1>6 DEF QueueOwn
<1>8. Typed'
  BY <1>1, <1>2, <1>6 DEF Typed
<1>9. Shown'
  BY <1>1, <1>2, <1>3 DEF Shown, Mounted
<1> QED
  BY <1>7, <1>8, <1>9 DEF BrowserInv

\* A browser with nothing stored.
LEMMA BrowserStarts == BrowserInit => BrowserInv
<1> SUFFICES ASSUME BrowserInit PROVE BrowserInv
  OBVIOUS
<1>1. Typed
  BY DEF BrowserInit, Typed, Streams
<1>2. SavedOwn(saved, stream)
  BY NoHistoryOwn DEF BrowserInit, SavedOwn
<1> QED
  BY <1>1, <1>2 DEF BrowserInit, BrowserInv, QueueOwn, Shown, Mounted

\* A question, a delta, the end of an answer, the stop button.
LEMMA StreamKeeps ==
  ASSUME BrowserInv, NEW c \in Chats, Send(c) \/ Delta(c) \/ EndStream(c) \/ StopGenerating
  PROVE  BrowserInv'
<1> USE DEF BrowserInv, Typed, Streams
<1>1. CASE Send(c)
  <2>1. /\ stream' = [stream EXCEPT ![c] = [at |-> "running", by |-> user, text |-> 0]]
        /\ user \in Accounts /\ stream[c].by = None /\ user' = user
        /\ Commit([memory EXCEPT ![c] = [status |-> "streaming", text |-> 0]], c, FALSE)
    BY <1>1 DEF Send
  <2>2. Own([memory EXCEPT ![c] = [status |-> "streaming", text |-> 0]], user, stream')
    BY <2>1, AccountsAssumption DEF Own, Shown, Mounted
  <2> QED
    BY <2>1, <2>2, CommitOwn
<1>2. CASE Delta(c)
  <2>1. /\ stream' = [stream EXCEPT ![c].text = @ + 1] /\ user' = user
        /\ Commit(IF memory[c] = None THEN memory
                  ELSE [memory EXCEPT ![c].text = @ + 1, ![c].status = "streaming"], active, FALSE)
    BY <1>2 DEF Delta
  <2> DEFINE longer == [memory EXCEPT ![c].text = @ + 1, ![c].status = "streaming"]
  <2>2. ASSUME Mounted PROVE Own(memory, user, stream) /\ Own(memory, user, stream')
    <3>1. Own(memory, user, stream)
      BY <2>2 DEF Shown
    <3>2. \A x \in Chats : stream'[x].by = stream[x].by
      BY <2>1
    <3> QED
      BY <3>1, <3>2 DEF Own
  <2>3. ASSUME Mounted, memory[c] # None PROVE Own(longer, user, stream')
    <3>1. Own(memory, user, stream')
      BY <2>2, <2>3
    <3> QED
      BY <3>1, <2>3 DEF Own
  <2> HIDE DEF longer
  <2>4. Mounted => Own(IF memory[c] = None THEN memory ELSE longer, user, stream')
    BY <2>2, <2>3
  <2> USE DEF longer
  <2>5. /\ stream' \in Streams /\ \A x \in Chats : stream'[x].at = "unasked" => stream'[x].by = None
        /\ \A x \in Chats : stream[x].by # None => stream'[x].by = stream[x].by
    BY <2>1
  <2> QED
    BY <2>1, <2>4, <2>5, CommitOwn
<1>3. CASE EndStream(c)
  <2>1. PICK next :
          /\ \/ next = WithAnswer(memory, c, [status |-> "completed", text |-> stream[c].text])
             \/ memory[c] # None /\ next = [memory EXCEPT ![c].status = "error"]
             \/ next = memory
          /\ Commit(next, None, TRUE)
    BY <1>3 DEF EndStream, EndsWith
  <2>2. stream' = [stream EXCEPT ![c].at = "over"] /\ user' = user /\ stream[c].at = "running"
    BY <1>3 DEF EndStream, Over, Running
  <2>3. Mounted => Own(next, user, stream')
    BY <2>1, <2>2 DEF Own, Shown, WithAnswer
  <2> QED
    BY <2>1, <2>2, <2>3, CommitOwn
<1>4. CASE StopGenerating
  <2>1. /\ active \in Chats /\ stream[active].at = "running"
        /\ stream' = [stream EXCEPT ![active].at = "over"] /\ user' = user
        /\ Commit(Aborted(active), None, TRUE)
    BY <1>4 DEF StopGenerating, Over, EndsWith, Running
  <2>2. Mounted => Own(Aborted(active), user, stream')
    BY <2>1 DEF Own, Shown, Aborted
  <2> QED
    BY <2>1, <2>2, CommitOwn
<1> QED
  BY <1>1, <1>2, <1>3, <1>4

\* Rendering, its effects, the save timer, and a response that is cut off.
LEMMA RenderKeeps ==
  ASSUME BrowserInv, SaveTimer \/ RunEffects \/ Render \/ \E c \in Chats : CutStream(c)
  PROVE  BrowserInv'
<1> USE DEF BrowserInv, Typed
<1>1. CASE SaveTimer
  <2>1. saved' = Stored(queue) /\ queue' = None
        /\ UNCHANGED <<user, memory, active, state, rendered, effects, stream>>
    BY <1>1 DEF SaveTimer
  <2>2. SavedOwn(Stored(queue), stream) /\ Stored(queue) = [u \in Accounts |-> Stored(queue)[u]]
    BY StoredOwn
  <2> QED
    BY <2>1, <2>2 DEF QueueOwn, SavedOwn, Shown, Mounted
<1>2. CASE RunEffects
  BY <1>2 DEF RunEffects, Shown, Mounted
<1>3. CASE Render
  BY <1>3 DEF Render, Shown, Mounted
<1>4. ASSUME NEW c \in Chats, CutStream(c) PROVE BrowserInv'
  <2>1. /\ stream' = [stream EXCEPT ![c].at = "over"] /\ stream[c].at = "running"
        /\ state' = [state EXCEPT !.active = None]
        /\ UNCHANGED <<user, memory, rendered, effects, queue, saved>>
    BY <1>4 DEF CutStream, Over, Running
  <2>2. Typed'
    BY <2>1 DEF Streams
  <2>3. \A h, u : Own(h, u, stream) => Own(h, u, stream')
    BY <2>1, <2>2 DEF Own, Streams
  <2>4. state'.memory = state.memory
    BY <2>1
  <2> QED
    BY <2>1, <2>2, <2>3, <2>4 DEF QueueOwn, SavedOwn, Shown, Mounted
<1> QED
  BY <1>1, <1>2, <1>3, <1>4

\* The user changes, the page is opened, left or reloaded.
LEMMA UserKeeps ==
  ASSUME BrowserInv, \/ \E u \in Accounts \cup {None} : SwitchUser(u) \/ Mount(u)
                     \/ Unmount \/ Reload
  PROVE  BrowserInv'
<1> DEFINE over == [c \in Chats |-> IF c \in Running THEN [stream[c] EXCEPT !.at = "over"]
                                                     ELSE stream[c]]
<1>1. /\ Typed /\ QueueOwn(queue, stream) /\ SavedOwn(saved, stream) /\ Shown
  BY DEF BrowserInv
<1>2. SavedOwn(Stored(queue), stream) /\ Stored(queue) = [u \in Accounts |-> Stored(queue)[u]]
  BY <1>1, StoredOwn DEF Typed
<1>3. over \in Streams /\ \A c \in Chats : /\ over[c].by = stream[c].by
                                           /\ over[c].at = "unasked" => over[c].by = None
  BY <1>1 DEF Typed, Streams
<1>4. \A h, u : Own(h, u, stream) => Own(h, u, over)
  BY <1>3 DEF Own
<1>5. ASSUME NEW u \in Accounts \cup {None}, SwitchUser(u) PROVE BrowserInv'
  <2>1. /\ user' = u /\ saved' = Stored(queue) /\ queue' = None /\ memory' = HistoryOf(u)
        /\ state' = [memory |-> HistoryOf(u), active |-> None]
        /\ effects = {} /\ effects' = effects /\ stream' = stream
    BY <1>5 DEF SwitchUser
  <2>2. Own(HistoryOf(u), u, stream)
    BY HistoryOwn
  <2> QED
    BY <1>1, <1>2, <2>1, <2>2 DEF BrowserInv, Typed, QueueOwn, SavedOwn, Shown
<1>6. ASSUME NEW u \in Accounts \cup {None}, Mount(u) PROVE BrowserInv'
  <2>1. /\ user' = u /\ memory' = HistoryOf(u)
        /\ state' = [memory |-> HistoryOf(u), active |-> None]
        /\ effects' = {} /\ UNCHANGED <<queue, saved, stream>>
    BY <1>6 DEF Mount
  <2>2. Own(HistoryOf(u), u, stream)
    BY HistoryOwn
  <2> QED
    BY <1>1, <2>1, <2>2 DEF BrowserInv, Typed, QueueOwn, SavedOwn, Shown
<1>7. CASE Unmount
  <2> DEFINE last == IF active \in Running /\ user \in Accounts
                     THEN [user |-> user, memory |-> Aborted(active)] ELSE queue
  <2>1. /\ Mounted /\ user' = "away" /\ saved' = Stored(last) /\ queue' = None
        /\ stream' = over /\ state' = state
    BY <1>7 DEF Unmount
  <2>2. active \in Running => Own(Aborted(active), user, stream)
    BY <1>1, <2>1 DEF Shown, Own, Aborted, Running
  <2>3. QueueOwn(last, stream)
    BY <1>1, <2>2 DEF QueueOwn
  <2>4. SavedOwn(Stored(last), stream) /\ Stored(last) = [u \in Accounts |-> Stored(last)[u]]
    BY <1>1, <2>3, StoredOwn DEF Typed
  <2> QED
    BY <1>1, <1>3, <1>4, <2>1, <2>4 DEF BrowserInv, Typed, QueueOwn, SavedOwn, Shown, Mounted
<1>8. CASE Reload
  <2>1. user' = "away" /\ queue' = None /\ stream' = over /\ UNCHANGED <<state, saved>>
    BY <1>8 DEF Reload
  <2> QED
    BY <1>1, <1>3, <1>4, <2>1 DEF BrowserInv, Typed, QueueOwn, SavedOwn, Shown, Mounted
<1> QED
  BY <1>5, <1>6, <1>7, <1>8

\* Every step keeps the invariant.
LEMMA BrowserStep == BrowserInv /\ [BrowserNext]_chatVars => BrowserInv'
<1> SUFFICES ASSUME BrowserInv, [BrowserNext]_chatVars PROVE BrowserInv'
  OBVIOUS
<1>1. CASE UNCHANGED chatVars
  BY <1>1 DEF chatVars, BrowserInv, Typed, QueueOwn, SavedOwn, Shown, Mounted, Own
<1>2. CASE StopGenerating
  <2>1. active \in Chats
    BY <1>2 DEF StopGenerating, Running
  <2> QED
    BY <1>2, <2>1, StreamKeeps
<1> QED
  BY <1>1, <1>2, StreamKeeps, RenderKeeps, UserKeeps DEF BrowserNext

\* The history stored for a user holds that user's questions only, whoever signs in under
\* a running stream, a queued save or a rendering's pending effects.
THEOREM HistoryIsOwnAlways == BrowserSpec => []HistoryIsOwn
<1>1. BrowserInv => HistoryIsOwn
  BY DEF BrowserInv, SavedOwn, Own, HistoryIsOwn
<1> QED
  BY <1>1, BrowserStarts, BrowserStep, PTL DEF BrowserSpec

(* ------------------------ what is shown as streaming --------------------- *)
\* Cut off, or running under a change of user.
Silent == cut \cup switched

\* Only a stream that runs, or a silent one, is marked as streaming in the history h.
Calm(h, s, silent) ==
  \A c \in Chats : h[c] # None =>
    h[c] \in Answers /\ (h[c].status = "streaming" => c \in silent \/ s[c].at = "running")

\* The stream that runs is the one that can be stopped.
OneStream ==
  /\ \A c \in Chats : stream[c].at = "running" => c = active
  /\ Mounted => active \in Running \cup {None} /\ state.active = active

\* A stream that runs is the user's own, unless the user changed under it.
OwnStreams ==
  \A c \in Chats : stream[c].at = "running" =>
    Mounted /\ (c \in switched \/ (user \in Accounts /\ stream[c].by = user))

\* React's state and the refs agree, and every copy of a history that can still be shown
\* or saved is calm.
LiveInv ==
  ~clobbered =>
    /\ switched = {} => OneStream
    /\ OwnStreams
    /\ Mounted => /\ state = [memory |-> memory, active |-> state.active]
                  /\ Calm(memory, stream, Silent)
    /\ queue # None => Calm(queue.memory, stream, Silent)
    /\ \A u \in Accounts : Calm(saved[u], stream, Silent)

\* Storing a calm history keeps the stored histories calm.
LEMMA StoredCalm ==
  ASSUME NEW q, NEW s, NEW silent, saved = [u \in Accounts |-> saved[u]],
         \A u \in Accounts : Calm(saved[u], s, silent) \/ (q # None /\ q.user = u),
         q # None => q.user \in Accounts /\ Calm(q.memory, s, silent)
  PROVE  \A u \in Accounts : Calm(Stored(q)[u], s, silent)
<1>1. CASE q = None
  BY <1>1 DEF Stored
<1>2. CASE q # None
  <2>1. Stored(q) = [u \in Accounts |-> IF u = q.user THEN q.memory ELSE saved[u]]
    BY <1>2 DEF Stored
  <2> QED
    BY <1>2, <2>1
<1> QED
  BY <1>1, <1>2

\* A browser with nothing stored shows nothing.
LEMMA LiveStarts == BrowserInit => LiveInv
  BY DEF BrowserInit, LiveInv, OneStream, OwnStreams, Mounted, Calm, NoHistory

\* A commit that ends a stream is immediate, and no other user's history holds its answer.
LEMMA CommitLive ==
  ASSUME BrowserInv, LiveInv, NEW next, NEW nextActive, NEW immediate \in BOOLEAN,
         Mounted, user' = user, ~clobbered, cut' = cut, switched' = switched,
         Commit(next, nextActive, immediate),
         Calm(next, stream', Silent), next \in [Chats -> Answers \cup {None}],
         \A c \in Chats : stream'[c].at = "running" =>
           c \in switched \/ (user \in Accounts /\ stream'[c].by = user),
         switched = {} => /\ \A c \in Chats : stream'[c].at = "running" => c = nextActive
                          /\ nextActive \in Running' \cup {None},
         \A c \in Chats : stream[c].at = "running" => immediate \/ stream'[c].at = "running"
  PROVE  LiveInv'
<1> DEFINE own == [user |-> user, memory |-> next]
           q == IF user \in Accounts THEN own ELSE queue
<1>1. /\ memory' = next /\ state' = [memory |-> next, active |-> nextActive] /\ active' = nextActive
      /\ saved' = IF immediate THEN Stored(q) ELSE saved
      /\ queue' = IF immediate THEN None ELSE q
  BY DEF Commit
<1>2. /\ saved = [u \in Accounts |-> saved[u]] /\ SavedOwn(saved, stream) /\ stream \in Streams
  BY DEF BrowserInv, Typed
<1>3. /\ OwnStreams /\ \A u \in Accounts : Calm(saved[u], stream, Silent)
      /\ queue # None => Calm(queue.memory, stream, Silent) /\ queue.user \in Accounts
  BY DEF LiveInv, BrowserInv, QueueOwn
<1>4. \A c \in Chats : stream[c].at = "running" /\ c \notin Silent =>
        user \in Accounts /\ stream[c].by = user
  BY <1>3 DEF OwnStreams, Silent
<1>5. \A h : Calm(h, stream, Silent) /\ (~immediate \/ user \notin Accounts) => Calm(h, stream', Silent)
  BY <1>4 DEF Calm
<1>6. q # None => q.user \in Accounts /\ Calm(q.memory, stream', Silent)
  BY <1>3, <1>5
<1>7. user \in Accounts => q # None /\ q.user = user
  BY AccountsAssumption
<1> HIDE DEF q
<1>8. \A u \in Accounts : Calm(saved[u], stream', Silent) \/ (immediate /\ q # None /\ q.user = u)
  <2> SUFFICES ASSUME NEW u \in Accounts, immediate, user \in Accounts, u # user
               PROVE  Calm(saved[u], stream', Silent)
    BY <1>3, <1>5, <1>7
  <2>1. \A c \in Chats : saved[u][c] # None => stream[c].by = u
    BY <1>2 DEF SavedOwn, Own
  <2>2. \A c \in Chats : saved[u][c] # None => c \in Silent \/ stream[c].at # "running"
    BY <1>4, <2>1
  <2> QED
    BY <1>3, <2>2 DEF Calm
<1>9. \A u \in Accounts : Calm(saved'[u], stream', Silent)
  <2>1. CASE immediate
    <3>1. \A u \in Accounts : Calm(Stored(q)[u], stream', Silent)
      BY <1>2, <1>6, <1>8, StoredCalm
    <3> QED
      BY <1>1, <2>1, <3>1
  <2> QED
    BY <1>1, <1>8, <2>1
<1>10. queue' # None => Calm(queue'.memory, stream', Silent)
  BY <1>1, <1>6
<1>11. Mounted' /\ Silent' = Silent
  BY DEF Mounted, Silent
<1>12. (switched' = {} => OneStream') /\ OwnStreams'
  BY <1>1, <1>11 DEF OneStream, OwnStreams
<1> QED
  BY <1>1, <1>9, <1>10, <1>11, <1>12 DEF LiveInv

\* What a mounted hook shows can be handed on.
LEMMA MemoryIsHistory ==
  ASSUME BrowserInv, LiveInv, ~clobbered, Mounted
  PROVE  memory \in [Chats -> Answers \cup {None}] /\ Calm(memory, stream, Silent)
<1>1. Calm(memory, stream, Silent) /\ memory = [c \in Chats |-> memory[c]]
  BY DEF BrowserInv, LiveInv, Shown, Own
<1>2. \A c \in Chats : memory[c] \in Answers \cup {None}
  BY <1>1 DEF Calm
<1> QED
  BY <1>1, <1>2

\* A question, a delta, the end of an answer, the stop button.
LEMMA StreamLive ==
  ASSUME BrowserInv, LiveInv, NEW c \in Chats,
         Send(c) \/ Delta(c) \/ EndStream(c) \/ StopGenerating
  PROVE  LiveInv'
<1>1. UNCHANGED <<user, clobbered, switched, cut>>
  BY DEF Send, Delta, EndStream, StopGenerating
<1> SUFFICES ASSUME ~clobbered PROVE LiveInv'
  BY <1>1 DEF LiveInv
<1>2. (switched = {} => OneStream) /\ OwnStreams /\ stream \in Streams
  BY DEF LiveInv, BrowserInv, Typed
<1>3. Mounted
  BY <1>2, AccountsAssumption DEF Send, Delta, EndStream, StopGenerating, Mounted, OwnStreams, Running
<1>4. memory \in [Chats -> Answers \cup {None}] /\ Calm(memory, stream, Silent)
  BY <1>3, MemoryIsHistory
<1>5. CASE Send(c)
  <2> DEFINE answer == [status |-> "streaming", text |-> 0]
             next == [memory EXCEPT ![c] = answer]
  <2>1. /\ stream' = [stream EXCEPT ![c] = [at |-> "running", by |-> user, text |-> 0]]
        /\ user \in Accounts /\ active = None
        /\ Commit(next, c, FALSE)
    BY <1>5 DEF Send
  <2>2. answer \in Answers
    BY DEF Answers
  <2> HIDE DEF answer
  <2>3. next \in [Chats -> Answers \cup {None}] /\ next[c] = answer
        /\ \A x \in Chats \ {c} : next[x] = memory[x]
    BY <1>3, <1>4, <2>1, <2>2
  <2>4. switched = {} => \A x \in Chats : stream[x].at # "running"
    BY <1>2, <2>1, AccountsAssumption DEF OneStream
  <2>5. stream'[c] = [at |-> "running", by |-> user, text |-> 0]
        /\ \A x \in Chats \ {c} : stream'[x] = stream[x]
    BY <1>2, <2>1 DEF Streams
  <2> HIDE DEF next
  <2>6. Calm(next, stream', Silent)
    BY <1>4, <2>2, <2>3, <2>5 DEF Calm
  <2>7. \A x \in Chats : stream'[x].at = "running" =>
          x \in switched \/ (user \in Accounts /\ stream'[x].by = user)
    BY <1>2, <2>1, <2>5 DEF OwnStreams
  <2>8. c \in Running' \cup {None}
    BY <2>5 DEF Running
  <2>9. PICK later \in BOOLEAN : later = FALSE
    OBVIOUS
  <2>10. Commit(next, c, later)
    BY <2>1, <2>9
  <2> QED
    <3>1. \A x \in Chats : stream[x].at = "running" => stream'[x].at = "running"
      BY <2>5
    <3>2. switched = {} => \A x \in Chats : stream'[x].at = "running" => x = c
      BY <2>4, <2>5
    <3> QED
      BY <1>1, <1>3, <2>3, <2>6, <2>7, <2>8, <2>10, <3>1, <3>2, CommitLive
<1>6. CASE Delta(c)
  <2> DEFINE next == IF memory[c] = None THEN memory
                     ELSE [memory EXCEPT ![c].text = @ + 1, ![c].status = "streaming"]
  <2>1. /\ stream' = [stream EXCEPT ![c].text = @ + 1] /\ stream[c].at = "running"
        /\ Commit(next, active, FALSE)
    BY <1>6 DEF Delta, Running
  <2>3. \A x \in Chats : stream'[x].at = stream[x].at /\ stream'[x].by = stream[x].by
    BY <1>2, <2>1 DEF Streams
  <2>4. next \in [Chats -> Answers \cup {None}] /\ \A x \in Chats \ {c} : next[x] = memory[x]
    <3>1. CASE memory[c] # None
      <4> DEFINE more == [memory[c] EXCEPT !.text = @ + 1]
                 answer == [more EXCEPT !.status = "streaming"]
      <4>1. memory[c] \in Answers
        BY <1>4, <3>1
      <4>2. more \in Answers
        BY <4>1 DEF Answers
      <4>3. answer \in Answers
        BY <4>2 DEF Answers
      <4>4. next = [memory EXCEPT ![c] = answer]
        BY <1>4, <3>1, <4>1 DEF Answers
      <4> QED
        BY <1>4, <4>3, <4>4
    <3> QED
      BY <1>4, <3>1
  <2> HIDE DEF next
  <2>5. Calm(next, stream', Silent)
    BY <1>4, <2>1, <2>3, <2>4 DEF Calm
  <2> QED
    <3>1. PICK later \in BOOLEAN : later = FALSE
      OBVIOUS
    <3>2. Commit(next, active, later)
      BY <2>1, <3>1
    <3>3. switched = {} => /\ \A x \in Chats : stream'[x].at = "running" => x = active
                           /\ active \in Running' \cup {None}
      BY <1>2, <2>1, <2>3 DEF OneStream, Running
    <3>4. \A x \in Chats : stream'[x].at = "running" =>
            x \in switched \/ (user \in Accounts /\ stream'[x].by = user)
      BY <1>2, <2>3 DEF OwnStreams
    <3> QED
      BY <1>1, <1>3, <2>3, <2>4, <2>5, <3>2, <3>3, <3>4, CommitLive
<1>7. ASSUME NEW x \in Chats, stream[x].at = "running", Over(x), NEW next,
             EndsWith(x, next), next \in [Chats -> Answers \cup {None}],
             \A y \in Chats \ {x} : next[y] = memory[y],
             next[x] # None => next[x].status # "streaming"
      PROVE  LiveInv'
  <2>1. \A y \in Chats : /\ stream'[y].at = (IF y = x THEN "over" ELSE stream[y].at)
                         /\ stream'[y].by = stream[y].by
    BY <1>2, <1>7 DEF Streams, Over
  <2>2. Calm(next, stream', Silent)
    BY <1>4, <1>7, <2>1 DEF Calm
  <2>3. switched = {} => \A y \in Chats : stream'[y].at # "running"
    BY <1>2, <1>7, <2>1 DEF OneStream
  <2>4. \A y \in Chats : stream'[y].at = "running" =>
          y \in switched \/ (user \in Accounts /\ stream'[y].by = user)
    BY <1>2, <2>1 DEF OwnStreams
  <2>5. PICK now \in BOOLEAN : now = TRUE
    OBVIOUS
  <2>6. Commit(next, None, now)
    BY <1>7, <2>5 DEF EndsWith
  <2> QED
    BY <1>1, <1>3, <1>7, <2>2, <2>3, <2>4, <2>5, <2>6, CommitLive
<1>8. CASE EndStream(c)
  <2>1. stream[c].at = "running" /\ Over(c)
    BY <1>8 DEF EndStream, Running
  <2>2. CASE EndsWith(c, WithAnswer(memory, c, [status |-> "completed", text |-> stream[c].text]))
    <3> DEFINE answer == [status |-> "completed", text |-> stream[c].text]
               next == WithAnswer(memory, c, answer)
    <3>1. answer \in Answers /\ answer.status # "streaming"
      BY <1>2 DEF Answers, Streams
    <3> HIDE DEF answer
    <3>2. next \in [Chats -> Answers \cup {None}] /\ (\A y \in Chats \ {c} : next[y] = memory[y])
          /\ (next[c] # None => next[c] = answer)
      BY <1>4, <3>1 DEF WithAnswer
    <3> HIDE DEF next
    <3> QED
      BY <1>7, <2>1, <2>2, <3>1, <3>2 DEF next, answer
  <2>3. CASE memory[c] # None /\ EndsWith(c, [memory EXCEPT ![c].status = "error"])
    <3> DEFINE next == [memory EXCEPT ![c].status = "error"]
    <3>1. next \in [Chats -> Answers \cup {None}] /\ (\A y \in Chats \ {c} : next[y] = memory[y])
          /\ next[c].status = "error"
      BY <1>4, <2>3 DEF Answers
    <3> HIDE DEF next
    <3> QED
      BY <1>7, <2>1, <2>3, <3>1 DEF next
  <2>4. CASE memory[c] = None /\ EndsWith(c, memory)
    BY <1>4, <1>7, <2>1, <2>4
  <2> QED
    BY <1>8, <2>2, <2>3, <2>4 DEF EndStream
<1>9. CASE StopGenerating
  <2>1. active \in Chats /\ stream[active].at = "running"
        /\ Over(active) /\ EndsWith(active, Aborted(active))
    BY <1>9 DEF StopGenerating, Running
  <2> DEFINE next == Aborted(active)
  <2>2. next \in [Chats -> Answers \cup {None}] /\ (\A y \in Chats \ {active} : next[y] = memory[y])
        /\ (next[active] # None => next[active].status = "aborted")
    BY <1>4, <2>1 DEF Aborted, Answers
  <2> HIDE DEF next
  <2> QED
    BY <1>7, <2>1, <2>2 DEF next
<1> QED
  BY <1>5, <1>6, <1>8, <1>9

\* Rendering, its effects, the save timer, and a response that is cut off.
LEMMA RenderLive ==
  ASSUME BrowserInv, LiveInv, SaveTimer \/ RunEffects \/ Render \/ \E c \in Chats : CutStream(c)
  PROVE  LiveInv'
<1>1. UNCHANGED switched /\ (~clobbered' => ~clobbered)
  <2>1. CASE RunEffects
    BY <2>1, Zenon DEF RunEffects
  <2>2. CASE SaveTimer \/ Render
    BY <2>2 DEF SaveTimer, Render
  <2>3. CASE \E c \in Chats : CutStream(c)
    BY <2>3 DEF CutStream
  <2> QED
    BY <2>1, <2>2, <2>3
<1> SUFFICES ASSUME ~clobbered' PROVE LiveInv'
  BY <1>1 DEF LiveInv
<1>2. /\ (switched = {} => OneStream) /\ OwnStreams /\ stream \in Streams
      /\ Mounted => state = [memory |-> memory, active |-> state.active] /\ Calm(memory, stream, Silent)
      /\ queue # None => Calm(queue.memory, stream, Silent) /\ queue.user \in Accounts
      /\ \A u \in Accounts : Calm(saved[u], stream, Silent)
      /\ saved = [u \in Accounts |-> saved[u]]
  BY <1>1 DEF LiveInv, BrowserInv, Typed, QueueOwn
<1>3. CASE SaveTimer
  <2>1. \A u \in Accounts : Calm(Stored(queue)[u], stream, Silent)
    BY <1>2, StoredCalm
  <2>2. saved' = Stored(queue) /\ queue' = None
        /\ UNCHANGED <<user, memory, active, state, stream, cut>>
    BY <1>3 DEF SaveTimer
  <2> QED
    BY <1>1, <1>2, <2>1, <2>2 DEF LiveInv, OneStream, OwnStreams, Mounted, Running, Silent
<1>4. CASE RunEffects
  <2>1. /\ memory' = (IF "memory" \in effects THEN rendered.memory ELSE memory)
        /\ active' = (IF "active" \in effects THEN rendered.active ELSE active)
        /\ \A ref \in effects : state[ref] = rendered[ref]
        /\ Mounted /\ UNCHANGED <<user, state, queue, saved, stream, cut>>
    BY <1>4 DEF RunEffects
  <2>2. state.memory = memory /\ (switched = {} => state.active = active)
    BY <1>2, <2>1 DEF OneStream
  <2>3. memory' = memory /\ (switched = {} => active' = active)
    BY <2>1, <2>2
  <2> QED
    BY <1>1, <1>2, <2>1, <2>3 DEF LiveInv, OneStream, OwnStreams, Mounted, Running, Silent
<1>5. CASE Render
  BY <1>2, <1>5 DEF Render, LiveInv, OneStream, OwnStreams, Mounted, Running, Silent
<1>6. ASSUME NEW c \in Chats, CutStream(c) PROVE LiveInv'
  <2>1. /\ stream' = [stream EXCEPT ![c].at = "over"] /\ stream[c].at = "running"
        /\ active' = None /\ state' = [state EXCEPT !.active = None]
        /\ cut' = cut \cup {c} /\ UNCHANGED <<user, memory, queue, saved>>
    BY <1>6 DEF CutStream, Over, Running
  <2>2. switched = {} => \A x \in Chats \ {c} : stream[x].at # "running"
    BY <1>2, <2>1 DEF OneStream
  <2>3. \A x \in Chats : /\ stream'[x].at = IF x = c THEN "over" ELSE stream[x].at
                         /\ stream'[x].by = stream[x].by
    BY <1>2, <2>1 DEF Streams
  <2>4. \A h : Calm(h, stream, Silent) => Calm(h, stream', Silent')
    BY <1>1, <2>1, <2>3 DEF Calm, Silent
  <2>5. Mounted => state' = [memory |-> memory, active |-> None]
    BY <1>2, <2>1
  <2>6. (switched' = {} => OneStream') /\ OwnStreams'
    BY <1>1, <1>2, <2>1, <2>2, <2>3, <2>5 DEF OneStream, OwnStreams, Mounted
  <2> QED
    BY <1>2, <2>1, <2>4, <2>5, <2>6 DEF LiveInv, Mounted
<1> QED
  BY <1>3, <1>4, <1>5, <1>6

\* The user changes, the page is opened, left or reloaded.
LEMMA UserLive ==
  ASSUME BrowserInv, LiveInv, \/ \E u \in Accounts \cup {None} : SwitchUser(u) \/ Mount(u)
                              \/ Unmount \/ Reload
  PROVE  LiveInv'
<1> DEFINE over == [c \in Chats |-> IF c \in Running THEN [stream[c] EXCEPT !.at = "over"]
                                                     ELSE stream[c]]
<1>1. UNCHANGED clobbered
  BY DEF SwitchUser, Mount, Unmount, Reload
<1> SUFFICES ASSUME ~clobbered PROVE LiveInv'
  BY <1>1 DEF LiveInv
<1>2. /\ (switched = {} => OneStream) /\ OwnStreams /\ stream \in Streams
      /\ Mounted => Calm(memory, stream, Silent)
      /\ queue # None => Calm(queue.memory, stream, Silent) /\ queue.user \in Accounts
      /\ \A u \in Accounts : Calm(saved[u], stream, Silent)
      /\ saved = [u \in Accounts |-> saved[u]] /\ SavedOwn(saved, stream)
  BY <1>1 DEF LiveInv, BrowserInv, Typed, QueueOwn
<1>3. \A c \in Chats : over[c].at # "running"
  BY <1>2 DEF Streams, Running
<1>4. ~Mounted' /\ stream' = over => OneStream' /\ OwnStreams'
  BY <1>3 DEF OneStream, OwnStreams
<1>5. ASSUME NEW u \in Accounts \cup {None}, Mount(u) PROVE LiveInv'
  <2>1. /\ Running = {} /\ user' = u /\ memory' = HistoryOf(u) /\ active' = None
        /\ state' = [memory |-> memory', active |-> active']
        /\ UNCHANGED <<queue, saved, stream, cut, switched>>
    BY <1>5 DEF Mount
  <2>2. Calm(HistoryOf(u), stream, Silent)
    BY <1>2 DEF HistoryOf, Calm, NoHistory
  <2>3. OneStream' /\ OwnStreams' /\ Silent' = Silent
    BY <1>2, <2>1 DEF OneStream, OwnStreams, Running, Silent
  <2> QED
    BY <1>2, <2>1, <2>2, <2>3 DEF LiveInv
<1>6. CASE Unmount
  <2> DEFINE stops == active \in Running /\ user \in Accounts
             last == IF stops THEN [user |-> user, memory |-> Aborted(active)] ELSE queue
  <2>1. /\ Mounted /\ user' = "away" /\ saved' = Stored(last) /\ queue' = None
        /\ stream' = over /\ Silent' = Silent /\ Running \subseteq {active}
    BY <1>6 DEF Unmount, Silent
  <2>2. CASE stops
    <3> DEFINE next == Aborted(active)
    <3>1. active \in Chats /\ user \in Accounts /\ (active \in Silent \/ stream[active].by = user)
          /\ \A x \in Chats \ {active} : stream[x].at # "running"
      BY <1>2, <2>1, <2>2 DEF OwnStreams, Running, Silent
    <3>2. memory \in [Chats -> Answers \cup {None}]
      BY <1>1, <2>1, MemoryIsHistory
    <3>3. next \in [Chats -> Answers \cup {None}] /\ (\A y \in Chats \ {active} : next[y] = memory[y])
          /\ (next[active] # None => next[active].status = "aborted")
      BY <3>1, <3>2 DEF Aborted, Answers
    <3> HIDE DEF next, over
    <3>4. Calm(next, over, Silent)
      BY <1>2, <2>1, <3>1, <3>3 DEF Calm
    <3>5. last = [user |-> user, memory |-> next]
      BY <2>2 DEF next
    <3>6. last # None /\ last.user = user /\ last.memory = next
      BY <3>1, <3>3, <3>5, AccountsAssumption
    <3>7. \A u \in Accounts : Calm(saved[u], over, Silent) \/ last.user = u
      <4> SUFFICES ASSUME NEW u \in Accounts, u # user PROVE Calm(saved[u], over, Silent)
        BY <3>6
      <4>1. \A c \in Chats : saved[u][c] # None => stream[c].by = u
        BY <1>2 DEF SavedOwn, Own
      <4>2. \A c \in Chats : saved[u][c] # None => c \in Silent \/ stream[c].at # "running"
        BY <3>1, <4>1
      <4> QED
        BY <1>2, <4>2 DEF Calm
    <3> HIDE DEF last
    <3>8. \A u \in Accounts : Calm(Stored(last)[u], over, Silent)
      BY <1>2, <3>1, <3>4, <3>6, <3>7, StoredCalm
    <3> QED
      BY <1>4, <2>1, <3>8 DEF LiveInv, Mounted
  <2>3. CASE ~stops
    <3>1. \A c \in Chats : stream[c].at = "running" => c \in Silent
      BY <1>2, <2>1, <2>3 DEF OwnStreams, Running, Silent
    <3>2. \A h : Calm(h, stream, Silent) => Calm(h, over, Silent)
      BY <3>1 DEF Calm
    <3> HIDE DEF over
    <3>3. last = queue
      BY <2>3
    <3> HIDE DEF last
    <3>4. \A u \in Accounts : Calm(Stored(last)[u], over, Silent)
      BY <1>2, <3>2, <3>3, StoredCalm
    <3> QED
      BY <1>4, <2>1, <3>4 DEF LiveInv, Mounted
  <2> QED
    BY <2>2, <2>3
<1>7. CASE Reload
  <2>1. user' = "away" /\ queue' = None /\ stream' = over /\ cut' = cut \cup Running
        /\ UNCHANGED <<saved, switched>>
    BY <1>7 DEF Reload
  <2>2. \A h : Calm(h, stream, Silent) => Calm(h, over, Silent')
    BY <2>1 DEF Calm, Running, Silent
  <2> QED
    BY <1>2, <1>4, <2>1, <2>2 DEF LiveInv, Mounted
<1>8. ASSUME NEW u \in Accounts \cup {None}, SwitchUser(u) PROVE LiveInv'
  <2>1. /\ Mounted /\ user' = u /\ saved' = Stored(queue) /\ queue' = None /\ memory' = HistoryOf(u)
        /\ state' = [memory |-> HistoryOf(u), active |-> None]
        /\ active' = IF state.active # rendered.active THEN state.active ELSE active
        /\ switched' = switched \cup Running /\ UNCHANGED <<stream, cut>>
    BY <1>8 DEF SwitchUser
  <2>2. \A h : Calm(h, stream, Silent) => Calm(h, stream, Silent')
    BY <2>1 DEF Calm, Silent
  <2>3. Calm(HistoryOf(u), stream, Silent)
    BY <1>2 DEF HistoryOf, Calm, NoHistory
  <2>4. \A x \in Accounts : Calm(Stored(queue)[x], stream, Silent)
    BY <1>2, StoredCalm
  <2>5. Mounted'
    BY <2>1, AccountsAssumption DEF Mounted
  <2>6. OwnStreams'
    BY <2>1, <2>5 DEF OwnStreams, Running
  <2>7. switched' = {} => OneStream'
    BY <1>2, <2>1 DEF OneStream, Running
  <2> QED
    BY <2>1, <2>2, <2>3, <2>4, <2>5, <2>6, <2>7 DEF LiveInv
<1> QED
  BY <1>5, <1>6, <1>7, <1>8

\* Every step keeps it.
LEMMA LiveStep == BrowserInv /\ LiveInv /\ [BrowserNext]_chatVars => LiveInv'
<1> SUFFICES ASSUME BrowserInv, LiveInv, [BrowserNext]_chatVars PROVE LiveInv'
  OBVIOUS
<1>1. CASE UNCHANGED chatVars
  BY <1>1 DEF chatVars, LiveInv, OneStream, OwnStreams, Silent, Mounted, Running, Calm
<1>2. CASE StopGenerating
  <2>1. active \in Chats
    BY <1>2 DEF StopGenerating, Running
  <2> QED
    BY <1>2, <2>1, StreamLive
<1> QED
  BY <1>1, <1>2, StreamLive, RenderLive, UserLive DEF BrowserNext

\* What is shown as streaming is the one stream that runs and that can be stopped; an
\* answer whose stream is over is settled, in the memory and in the stored history: until
\* the user changes under a stream the one, and except for such streams the other, as long
\* as no effect took an older state over a ref.
THEOREM StreamingIsLiveAlways == BrowserSpec => []StreamingIsLive
<1>1. LiveInv => StreamingIsLive
  BY DEF LiveInv, OneStream, Silent, Calm, StreamingIsLive, Running
<1> QED
  BY <1>1, BrowserStarts, BrowserStep, LiveStarts, LiveStep, PTL DEF BrowserSpec
==============================================================================
