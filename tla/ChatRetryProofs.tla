--------------------------- MODULE ChatRetryProofs ---------------------------
(***************************************************************************)
(* Proofs about ChatRetry: the type invariant, that retries are free, and  *)
(* what the stored answers keep, for any number of requests, client ids    *)
(* and colleagues.                                                         *)
(***************************************************************************)
EXTENDS ChatRetry, FiniteSetTheorems, TLAPS

(* From the look-up of the message on, the conversation of a request has   *)
(* been committed.                                                         *)
PlacedAt(r) ==
  /\ At(r, "check") => target[r] \in (opened \cup {NoRequest}) \X ClientIds
  /\ At(r, "open") => target[r] \in Pairs
  /\ pc[r] \in {"select", "insert", "reserve"} => target[r] \in opened \X ClientIds

Placed == \A r \in Requests : PlacedAt(r)

(* A message being inserted is nobody else's and not stored yet.           *)
Inserting ==
  \A r \in Requests :
    At(r, "reserve") =>
      /\ target[r] \notin messages
      /\ \A q \in Requests \ {r} : At(q, "reserve") => target[q] # target[r]

(* One ledger row for each stored message.                                 *)
Paid ==
  \A m \in messages : \E q \in Requests : {e \in ledger : e[1] = m} = {<< m, q >>}

(* The author's allowance counts the stored messages.                      *)
Counted ==
  /\ IsFiniteSet(messages)
  /\ limit[Me] = StartLimit[Me] - Cardinality(messages)

ChatInductive ==
  ChatTypeOK /\ Placed /\ Inserting /\ Paid /\ Counted

-------------------------------------------------------------------------------

(* The shape of the values that the actions store.                         *)
LEMMA Values ==
  /\ Nobody \in Contents
  /\ \A r \in Requests, b \in BOOLEAN : Text(r, b) \in Contents
  /\ \A s \in Statuses, c \in Contents : Row(s, c) \in [status : Statuses, content : Contents]
BY DEF Nobody, Text, Row, Contents, Conversations

(* The initial state: no conversation, no message, the whole allowance.    *)
LEMMA InitChat == Init => ChatInductive
<1> SUFFICES ASSUME Init PROVE ChatInductive
  OBVIOUS
<1> USE ChatConstants DEF Init, Account!Init
<1>1. ChatTypeOK
  BY Values DEF ChatTypeOK, Points, Statuses, Conversations
<1>2. Placed /\ Inserting /\ Paid
  BY DEF Placed, PlacedAt, Inserting, Paid, At
<1>3. Counted
  BY FS_EmptySet DEF Counted
<1> QED
  BY <1>1, <1>2, <1>3 DEF ChatInductive

(* Every step keeps the shape of the state.                                *)
LEMMA ChatTypePreserved ==
  ChatInductive /\ [Next]_vars => ChatTypeOK'
<1> SUFFICES ASSUME ChatTypeOK, Placed, [Next]_vars PROVE ChatTypeOK'
  BY DEF ChatInductive
<1> USE ChatConstants DEF ChatTypeOK
<1>1. CASE UNCHANGED vars
  BY <1>1 DEF vars, credits, store, handler
<1>2. CASE Crash
  BY <1>2 DEF Crash, Points, credits, store
<1>3. ASSUME NEW r \in Requests, NEW conv \in Conversations, NEW id \in ClientIds,
             NEW s \in BOOLEAN, Receive(r, conv, id, s)
      PROVE  ChatTypeOK'
  <2>1. << conv, id >> \in Pairs
    BY DEF Pairs
  <2> QED
    BY <1>3, <2>1 DEF Receive, Goto, Points, credits, store
<1>4. ASSUME NEW u \in Users, Colleague(u) PROVE ChatTypeOK'
  BY <1>4 DEF Colleague, Account!Charge, store, handler
<1>5. ASSUME NEW r \in Requests, Disconnect(r) PROVE ChatTypeOK'
  BY <1>5 DEF Disconnect, credits, store, handler
<1>6. ASSUME NEW r \in Requests, Handle(r) PROVE ChatTypeOK'
  <2> USE DEF Goto, Answer, Points
  <2>1. CASE Check(r)
    BY <2>1 DEF Check, credits, store
  <2>2. CASE Open(r)
    <3>1. target[r] \in Pairs /\ << r, target[r][2] >> \in Pairs
      BY <2>2 DEF Open, Placed, PlacedAt, At, Pairs, Conversations
    <3> QED
      BY <2>2, <3>1 DEF Open, credits
  <2>3. CASE Select(r)
    <3>1. target[r] \in messages => target[r] \in Pairs
      BY DEF Pairs, Conversations
    <3>2. target[r] \in messages =>
            Row(status[target[r]], content[target[r]]) \in [status : Statuses, content : Contents]
      BY <3>1, Values
    <3>3. seen' \in [Requests -> [status : Statuses, content : Contents]]
      BY <2>3, <3>2 DEF Select
    <3>4. pc' \in [Requests -> Points] /\ UNCHANGED << credits, store, target, stream,
                                             buffer, gone, overlapped >>
      BY <2>3 DEF Select
    <3>5. reply' = reply \/ reply' = [reply EXCEPT ![r] = "replay"]
      BY <2>3 DEF Select
    <3> QED
      BY <3>3, <3>4, <3>5 DEF credits, store
  <2>4. CASE Insert(r)
    BY <2>4 DEF Insert, credits, store
  <2>5. CASE Reserve(r)
    <3>1. target[r] \in opened \X ClientIds
      BY <2>5 DEF Reserve, Placed, PlacedAt, At
    <3>2. Row("pending", Nobody) \in [status : Statuses, content : Contents]
      BY Values DEF Statuses
    <3>3. "pending" \in Statuses /\ Nobody \in Contents
      BY Values DEF Statuses
    <3>4. CASE pool < 1 \/ limit[Me] < 1
      <4>1. ~Account!Charge(Me)
        BY <3>4 DEF Account!Charge
      <4>2. /\ pc' = [pc EXCEPT ![r] = "done"] /\ reply' = [reply EXCEPT ![r] = "refused"]
            /\ UNCHANGED << credits, messages, ledger, status, content, seen, opened, target,
                            stream, buffer, gone, overlapped >>
        BY <2>5, <4>1 DEF Reserve
      <4> QED
        BY <4>2 DEF credits
    <3>5. CASE ~(pool < 1 \/ limit[Me] < 1)
      <4>1. /\ Account!Charge(Me)
            /\ pc' = [pc EXCEPT ![r] = "context"]
            /\ messages' = messages \cup {target[r]}
            /\ ledger' = ledger \cup {<< target[r], r >>}
            /\ status' = [status EXCEPT ![target[r]] = "pending"]
            /\ content' = [content EXCEPT ![target[r]] = Nobody]
            /\ seen' = [seen EXCEPT ![r] = Row("pending", Nobody)]
            /\ UNCHANGED << reply, opened, target, stream, buffer, gone, overlapped >>
        BY <2>5, <3>5 DEF Reserve
      <4>2. pool' \in Int /\ limit' \in [Users -> Int] /\ active' = Users
        BY <4>1 DEF Account!Charge
      <4>3. messages' \in SUBSET (opened \X ClientIds) /\ ledger' \in SUBSET (messages' \X Requests)
        BY <4>1, <3>1
      <4>4. /\ pc' \in [Requests -> Points]
            /\ status' \in [Pairs -> Statuses] /\ content' \in [Pairs -> Contents]
            /\ seen' \in [Requests -> [status : Statuses, content : Contents]]
        BY <4>1, <3>2, <3>3
      <4> QED
        BY <4>1, <4>2, <4>3, <4>4
    <3> QED
      BY <3>4, <3>5
  <2>6. CASE LoadContext(r)
    BY <2>6 DEF LoadContext, credits, store, handler
  <2>7. CASE Delta(r)
    BY <2>7 DEF Delta, credits, store
  <2>8. ASSUME NEW how \in {"final", "error", "nothing", "broken"}, EndUnsaved(r, how)
        PROVE  ChatTypeOK'
    BY <2>8 DEF EndUnsaved, credits, store
  <2>9. ASSUME NEW how \in {"final", "error", "nothing"}, NEW s \in Statuses,
               NEW c \in Contents, Answer(r, how), Save(r, s, c)
        PROVE  ChatTypeOK'
    <3>1. Row(s, c) \in [status : Statuses, content : Contents]
      BY Values
    <3> QED
      BY <2>9, <3>1 DEF Save, credits
  <2>10. CASE Final(r)
    BY <2>10, <2>9, Values DEF Final, Statuses
  <2>11. CASE StreamEnds(r)
    BY <2>11, <2>8, <2>9, Values DEF StreamEnds, Statuses
  <2>12. CASE GatewayFails(r)
    <3>1. seen[r].content \in Contents
      OBVIOUS
    <3> QED
      BY <2>12, <2>9, <3>1 DEF GatewayFails, Statuses
  <2>13. CASE SeesDisconnect(r)
    BY <2>13, <2>9, Values DEF SeesDisconnect, Statuses
  <2>14. CASE CallBreaks(r)
    BY <2>14, <2>8 DEF CallBreaks
  <2> QED
    BY <1>6, <2>1, <2>2, <2>3, <2>4, <2>5, <2>6, <2>7, <2>10, <2>11, <2>12, <2>13, <2>14
    DEF Handle
<1> QED
  BY <1>1, <1>2, <1>3, <1>4, <1>5, <1>6 DEF Next

-------------------------------------------------------------------------------

(* A handler moves itself alone, and conversations are never closed.       *)
LEMMA HandleFrame ==
  ASSUME ChatTypeOK, NEW r \in Requests, Handle(r)
  PROVE  /\ \A q \in Requests \ {r} : pc'[q] = pc[q] /\ target'[q] = target[q]
         /\ opened \subseteq opened'
         /\ Open(r) \/ UNCHANGED << opened, target >>
         /\ Reserve(r) \/ UNCHANGED << limit, messages, ledger >>
<1>1. /\ \A q \in Requests \ {r} : pc'[q] = pc[q]
      /\ Open(r) \/ UNCHANGED << opened, target >>
      /\ Reserve(r) \/ UNCHANGED << limit, messages, ledger >>
  BY DEF ChatTypeOK, Handle, Check, Open, Select, Insert, Reserve, LoadContext, Delta,
     Final, StreamEnds, GatewayFails, SeesDisconnect, CallBreaks, Save, EndUnsaved,
     Answer, Goto, credits, store, handler
<1>2. CASE Open(r)
  BY <1>1, <1>2 DEF Open, ChatTypeOK
<1>3. CASE UNCHANGED << opened, target >>
  BY <1>1, <1>3
<1> QED
  BY <1>1, <1>2, <1>3

(* Each request's conversation is there when it needs it.                  *)
LEMMA PlacedPreserved ==
  ChatInductive /\ [Next]_vars => Placed'
<1> SUFFICES ASSUME ChatTypeOK, Placed, [Next]_vars PROVE Placed'
  BY DEF ChatInductive
<1> USE ChatConstants DEF Placed, PlacedAt, At
<1>1. CASE UNCHANGED vars
  BY <1>1 DEF vars, credits, store, handler
<1>2. CASE Crash
  BY <1>2 DEF Crash, ChatTypeOK, store
<1>3. ASSUME NEW r \in Requests, NEW conv \in Conversations, NEW id \in ClientIds,
             NEW s \in BOOLEAN, Receive(r, conv, id, s)
      PROVE  Placed'
  <2>1. /\ \A q \in Requests \ {r} : pc'[q] = pc[q] /\ target'[q] = target[q]
        /\ opened' = opened
        /\ target'[r] = << conv, id >> /\ conv \in opened \cup {NoRequest}
        /\ pc'[r] = IF conv = NoRequest THEN "check" ELSE "select"
    BY <1>3 DEF Receive, Goto, ChatTypeOK, store
  <2>2. << conv, id >> \in (opened \cup {NoRequest}) \X ClientIds
    BY <2>1
  <2>3. conv # NoRequest => << conv, id >> \in opened \X ClientIds
    BY <2>1
  <2>4. PlacedAt(r)'
    BY <2>1, <2>2, <2>3
  <2>5. ASSUME NEW q \in Requests \ {r} PROVE PlacedAt(q)'
    BY <2>1
  <2> QED
    BY <2>4, <2>5
<1>4. ASSUME NEW u \in Users, Colleague(u) PROVE Placed'
  BY <1>4 DEF Colleague, store, handler
<1>5. ASSUME NEW r \in Requests, Disconnect(r) PROVE Placed'
  BY <1>5 DEF Disconnect, store, handler
<1>6. ASSUME NEW r \in Requests, Handle(r) PROVE Placed'
  <2>1. /\ \A q \in Requests \ {r} : pc'[q] = pc[q] /\ target'[q] = target[q]
        /\ opened \subseteq opened'
        /\ Open(r) \/ UNCHANGED << opened, target >>
    BY <1>6, HandleFrame
  <2>2. SUFFICES PlacedAt(r)'
    BY <2>1 DEF Pairs
  <2>3. CASE Check(r)
    BY <2>3 DEF Check, Goto, Answer, ChatTypeOK, New, Pairs, Conversations, store
  <2>4. CASE Open(r)
    BY <2>4 DEF Open, Goto, ChatTypeOK, Pairs
  <2>5. CASE Select(r)
    BY <2>5 DEF Select, Goto, Answer, ChatTypeOK, New, store
  <2>6. CASE Insert(r)
    BY <2>6 DEF Insert, Goto, Answer, ChatTypeOK, store
  <2>7. CASE Delta(r)
    BY <2>7 DEF Delta, store
  <2>8. CASE ~(Check(r) \/ Open(r) \/ Select(r) \/ Insert(r) \/ Delta(r))
    <3>1. pc'[r] \in {"context", "calling", "done"}
      BY <1>6, <2>8 DEF Handle, Reserve, LoadContext, Final, StreamEnds, GatewayFails,
         SeesDisconnect, CallBreaks, EndUnsaved, Answer, Goto, ChatTypeOK
    <3> QED
      BY <3>1
  <2> QED
    BY <2>3, <2>4, <2>5, <2>6, <2>7, <2>8
<1> QED
  BY <1>1, <1>2, <1>3, <1>4, <1>5, <1>6 DEF Next

(* Nobody else inserts, or has stored, the message a request is inserting. *)
LEMMA InsertingPreserved ==
  ChatInductive /\ [Next]_vars => Inserting'
<1> SUFFICES ASSUME ChatTypeOK, Inserting, [Next]_vars PROVE Inserting'
  BY DEF ChatInductive
<1> USE ChatConstants DEF Inserting, At
<1>1. CASE UNCHANGED vars
  BY <1>1 DEF vars, store, handler
<1>2. CASE Crash
  BY <1>2 DEF Crash, ChatTypeOK, store
<1>3. ASSUME NEW r \in Requests, NEW conv \in Conversations, NEW id \in ClientIds,
             NEW s \in BOOLEAN, Receive(r, conv, id, s)
      PROVE  Inserting'
  <2>1. /\ \A q \in Requests \ {r} : pc'[q] = pc[q] /\ target'[q] = target[q]
        /\ pc'[r] # "reserve" /\ messages' = messages
    BY <1>3 DEF Receive, Goto, ChatTypeOK, store
  <2> QED
    BY <2>1
<1>4. ASSUME NEW u \in Users, Colleague(u) PROVE Inserting'
  BY <1>4 DEF Colleague, store, handler
<1>5. ASSUME NEW r \in Requests, Disconnect(r) PROVE Inserting'
  BY <1>5 DEF Disconnect, store, handler
<1>6. ASSUME NEW r \in Requests, Handle(r) PROVE Inserting'
  <2>1. /\ \A q \in Requests \ {r} : pc'[q] = pc[q] /\ target'[q] = target[q]
        /\ Open(r) \/ UNCHANGED << opened, target >>
        /\ Reserve(r) \/ UNCHANGED << limit, messages, ledger >>
    BY <1>6, HandleFrame
  <2>2. CASE Insert(r)
    <3>1. pc'[r] = "reserve" =>
            /\ target[r] \notin messages
            /\ \A q \in Requests \ {r} : At(q, "reserve") => target[q] # target[r]
      BY <2>2 DEF Insert, Goto, Answer, ChatTypeOK
    <3>2. UNCHANGED << messages, target >>
      BY <2>2 DEF Insert, store
    <3> QED
      BY <2>1, <3>1, <3>2
  <2>3. CASE Reserve(r)
    <3>1. pc'[r] # "reserve" /\ target' = target
      BY <2>3 DEF Reserve, Goto, Answer, ChatTypeOK
    <3>2. At(r, "reserve") /\ messages' \subseteq messages \cup {target[r]}
      BY <2>3 DEF Reserve
    <3> QED
      BY <2>1, <3>1, <3>2
  <2>4. CASE ~(Insert(r) \/ Reserve(r))
    <3>1. pc'[r] # "reserve"
      BY <1>6, <2>4 DEF Handle, Check, Open, Select, LoadContext, Delta, Final, StreamEnds,
         GatewayFails, SeesDisconnect, CallBreaks, EndUnsaved, Answer, Goto, ChatTypeOK
    <3> QED
      BY <2>1, <2>4, <3>1
  <2> QED
    BY <2>2, <2>3, <2>4
<1> QED
  BY <1>1, <1>2, <1>3, <1>4, <1>5, <1>6 DEF Next

-------------------------------------------------------------------------------

(* Only a reservation stores a message or moves the author's allowance.    *)
LEMMA OnlyReserve ==
  ASSUME ChatTypeOK, [Next]_vars
  PROVE  \/ \E r \in Requests : Reserve(r)
         \/ UNCHANGED << messages, ledger >> /\ limit'[Me] = limit[Me]
<1>1. CASE UNCHANGED vars
  BY <1>1 DEF vars, credits, store
<1>2. CASE Crash
  BY <1>2 DEF Crash, credits, store
<1>3. ASSUME NEW r \in Requests, NEW conv \in Conversations, NEW id \in ClientIds,
             NEW s \in BOOLEAN, Receive(r, conv, id, s)
      PROVE  UNCHANGED << messages, ledger, limit >>
  BY <1>3 DEF Receive, credits, store
<1>4. ASSUME NEW u \in Users, Colleague(u)
      PROVE  UNCHANGED << messages, ledger >> /\ limit'[Me] = limit[Me]
  BY <1>4, ChatConstants DEF Colleague, Account!Charge, ChatTypeOK, store
<1>5. ASSUME NEW r \in Requests, Disconnect(r)
      PROVE  UNCHANGED << messages, ledger, limit >>
  BY <1>5 DEF Disconnect, credits, store
<1>6. ASSUME NEW r \in Requests, Handle(r)
      PROVE  Reserve(r) \/ UNCHANGED << messages, ledger, limit >>
  BY <1>6, HandleFrame
<1> QED
  BY <1>1, <1>2, <1>3, <1>4, <1>5, <1>6 DEF Next

(* A reservation pays for one message that was not stored, or for none.    *)
LEMMA ReserveEffect ==
  ASSUME ChatTypeOK, Placed, Inserting, NEW r \in Requests, Reserve(r)
  PROVE  \/ /\ target[r] \notin messages
            /\ messages' = messages \cup {target[r]}
            /\ ledger' = ledger \cup {<< target[r], r >>}
            /\ limit'[Me] = limit[Me] - 1
         \/ UNCHANGED << messages, ledger, limit >>
<1>1. target[r] \notin messages
  BY DEF Inserting, Reserve
<1>2. CASE pool < 1 \/ limit[Me] < 1
  <2>1. ~Account!Charge(Me)
    BY <1>2, ChatConstants DEF Account!Charge, ChatTypeOK
  <2> QED
    BY <2>1 DEF Reserve, credits
<1>3. CASE ~(pool < 1 \/ limit[Me] < 1)
  <2>1. /\ Account!Charge(Me)
        /\ messages' = messages \cup {target[r]}
        /\ ledger' = ledger \cup {<< target[r], r >>}
    BY <1>3 DEF Reserve
  <2>2. limit'[Me] = limit[Me] - 1
    BY <2>1, ChatConstants DEF Account!Charge, ChatTypeOK
  <2> QED
    BY <1>1, <2>1, <2>2
<1> QED
  BY <1>2, <1>3

(* Each stored message keeps its one ledger row.                           *)
LEMMA PaidPreserved ==
  ChatInductive /\ [Next]_vars => Paid'
<1> SUFFICES ASSUME ChatInductive, [Next]_vars PROVE Paid'
  OBVIOUS
<1> USE DEF ChatInductive
<1>1. CASE UNCHANGED << messages, ledger >>
  BY <1>1 DEF Paid
<1>2. ASSUME NEW r \in Requests, target[r] \notin messages,
             messages' = messages \cup {target[r]},
             ledger' = ledger \cup {<< target[r], r >>}
      PROVE  Paid'
  <2>1. \A e \in ledger : e[1] \in messages
    BY DEF ChatTypeOK
  <2>2. {e \in ledger' : e[1] = target[r]} = {<< target[r], r >>}
    BY <1>2, <2>1
  <2>3. \A m \in messages : {e \in ledger' : e[1] = m} = {e \in ledger : e[1] = m}
    BY <1>2
  <2> QED
    BY <1>2, <2>2, <2>3 DEF Paid
<1> QED
  BY <1>1, <1>2, OnlyReserve, ReserveEffect

(* The allowance keeps counting the stored messages.                       *)
LEMMA CountedPreserved ==
  ChatInductive /\ [Next]_vars => Counted'
<1> SUFFICES ASSUME ChatInductive, [Next]_vars PROVE Counted'
  OBVIOUS
<1> USE DEF ChatInductive
<1>1. CASE UNCHANGED messages /\ limit'[Me] = limit[Me]
  BY <1>1 DEF Counted
<1>2. ASSUME NEW r \in Requests, target[r] \notin messages,
             messages' = messages \cup {target[r]}, limit'[Me] = limit[Me] - 1
      PROVE  Counted'
  <2>1. IsFiniteSet(messages') /\ Cardinality(messages') = Cardinality(messages) + 1
    BY <1>2, FS_AddElement DEF Counted
  <2>2. Cardinality(messages) \in Nat /\ StartLimit[Me] \in Nat
    BY FS_CardinalityType, ChatConstants DEF Counted
  <2> QED
    BY <1>2, <2>1, <2>2 DEF Counted
<1> QED
  BY <1>1, <1>2, OnlyReserve, ReserveEffect

-------------------------------------------------------------------------------

(* The inductive invariant holds of every reachable state.                 *)
THEOREM ChatInductiveHolds == Spec => []ChatInductive
<1>1. ChatInductive /\ [Next]_vars => ChatInductive'
  BY ChatTypePreserved, PlacedPreserved, InsertingPreserved, PaidPreserved,
     CountedPreserved DEF ChatInductive
<1> QED
  BY InitChat, <1>1, PTL DEF Spec

(* The chat state keeps its shape.                                         *)
THEOREM ChatTypeCorrect == Spec => []ChatTypeOK
<1>1. ChatInductive => ChatTypeOK
  BY DEF ChatInductive
<1> QED
  BY ChatInductiveHolds, <1>1, PTL

(* However often a message is retried, concurrently or after failures, its *)
(* author pays for it once.                                                *)
THEOREM RetriesAreFree == Spec => []ChargedOncePerMessage
<1>1. ChatInductive => ChargedOncePerMessage
  <2> SUFFICES ASSUME ChatInductive PROVE ChargedOncePerMessage
    OBVIOUS
  <2>1. \A m \in messages : Cardinality({e \in ledger : e[1] = m}) = 1
    BY FS_Singleton DEF ChatInductive, Paid
  <2>2. StartLimit[Me] - limit[Me] = Cardinality(messages)
    BY FS_CardinalityType, ChatConstants DEF ChatInductive, Counted
  <2> QED
    BY <2>1, <2>2 DEF ChargedOncePerMessage
<1> QED
  BY ChatInductiveHolds, <1>1, PTL

-------------------------------------------------------------------------------
(* The stored answers.  A request works on a message while it reads the    *)
(* context or calls the gateway; unless another request works on the same  *)
(* message, what its session has loaded is what is stored.                 *)

Works(r) == pc[r] \in {"context", "calling"}
Lost == {"nothing", "broken", "crashed"}

(* A request that is not done has not answered.                            *)
Unanswered == \A r \in Requests : pc[r] # "done" => reply[r] = "none"

(* A request that may still open a conversation has not opened one.        *)
Unopened ==
  \A r \in Requests :
    /\ pc[r] \in {"idle", "check", "open"} => r \notin opened
    /\ At(r, "open") => target[r][1] = NoRequest
    /\ At(r, "select") /\ r \in opened => target[r][1] = r

(* Two requests on one message are known to overlap.                       *)
Apart ==
  \A r, q \in Requests :
    r # q /\ InFlight(r) /\ InFlight(q) /\ target[r] = target[q] /\ target[r][1] # NoRequest
      => target[r] \in overlapped

KnowsAt(r) ==
  LET m == target[r] IN
  Works(r) =>
    /\ m \in messages /\ seen[r].status \in {"pending", "error"}
    /\ seen[r].status = "error" => status[m] # "pending"
    /\ m \notin overlapped => seen[r] = Row(status[m], content[m])

Knows == \A r \in Requests : KnowsAt(r)

HeldBy(m, r) == target[r] = m /\ (Works(r) \/ reply[r] \in Lost)

(* A pending answer is being worked on, or the work was lost.              *)
PendingHeld ==
  \A m \in messages : status[m] = "pending" => \E r \in Requests : HeldBy(m, r)

FinalAt(r) ==
  LET m == target[r] IN
  reply[r] = "final" /\ m \notin overlapped
    => m \in messages /\ status[m] = "completed" /\ content[m].by = r

FinalStored == \A r \in Requests : FinalAt(r)

AnswersInv == Unanswered /\ Unopened /\ Apart /\ Knows /\ PendingHeld /\ FinalStored

(* What the others see of a step of the handler r.                         *)
Alone(r) ==
  /\ \A q \in Requests \ {r} : /\ pc'[q] = pc[q] /\ target'[q] = target[q]
                               /\ reply'[q] = reply[q] /\ seen'[q] = seen[q]
  /\ overlapped' = overlapped /\ InFlight(r)

(* Before the message is stored: a move, or a refusal.                     *)
Prepares(r) ==
  /\ Alone(r) /\ UNCHANGED << messages, status, content >>
  /\ ~Works(r) /\ ~Works(r)' /\ reply'[r] \in {"none", "refused", "failed", "replay"}

Resumes(r) ==
  LET m == target[r] IN
  /\ Alone(r) /\ UNCHANGED << messages, status, content >>
  /\ target'[r] = m /\ m \in messages /\ status[m] # "completed"
  /\ Works(r)' /\ reply'[r] = reply[r] /\ seen'[r] = Row(status[m], content[m])

Stores(r) ==
  LET m == target[r] IN
  /\ Alone(r) /\ target'[r] = m /\ m \notin messages /\ m \in Pairs
  /\ messages' = messages \cup {m}
  /\ status' = [status EXCEPT ![m] = "pending"]
  /\ content' = [content EXCEPT ![m] = Nobody]
  /\ Works(r)' /\ reply'[r] = reply[r] /\ seen'[r] = Row("pending", Nobody)

(* The work goes on, or is lost.                                           *)
Continues(r) ==
  /\ Alone(r) /\ UNCHANGED << messages, status, content >>
  /\ target'[r] = target[r] /\ Works(r) /\ seen'[r] = seen[r]
  /\ \/ Works(r)' /\ reply'[r] = reply[r]
     \/ pc'[r] = "done" /\ reply'[r] \in Lost

Saves(r) ==
  LET m == target[r] IN
  /\ Alone(r) /\ target'[r] = m /\ Works(r) /\ At(r, "calling") /\ pc'[r] = "done"
  /\ messages' = messages
  /\ \E st \in {"completed", "error"}, c \in Contents :
       /\ status' = [status EXCEPT ![m] = IF st = seen[r].status THEN @ ELSE st]
       /\ content' = [content EXCEPT ![m] = IF c = seen[r].content THEN @ ELSE c]
       /\ reply'[r] = "final" => st = "completed" /\ c.by = r

(* Every step of a handler is of one of these kinds.                       *)
LEMMA HandlerKinds ==
  ASSUME ChatInductive, Unanswered, NEW r \in Requests, Handle(r)
  PROVE  Prepares(r) \/ Resumes(r) \/ Stores(r) \/ Continues(r) \/ Saves(r)
<1> USE DEF At, Goto, Answer, Works, Lost, InFlight, Alone
<1>1. ChatTypeOK /\ Placed /\ (pc[r] # "done" => reply[r] = "none")
  BY DEF ChatInductive, Unanswered
<1>2. CASE Check(r) \/ Open(r) \/ Insert(r)
  BY <1>1, <1>2 DEF Check, Open, Insert, ChatTypeOK, store, Prepares
<1>3. CASE Select(r)
  <2>1. CASE target[r] \in messages /\ status[target[r]] # "completed"
    BY <1>1, <1>3, <2>1 DEF Select, ChatTypeOK, store, Resumes
  <2>2. CASE ~(target[r] \in messages /\ status[target[r]] # "completed")
    BY <1>1, <1>3, <2>2 DEF Select, ChatTypeOK, store, Prepares
  <2> QED
    BY <2>1, <2>2
<1>4. CASE Reserve(r)
  <2>1. target[r] \notin messages /\ target[r] \in Pairs
    BY <1>1, <1>4 DEF Reserve, ChatInductive, Inserting, PlacedAt, Placed, ChatTypeOK, Pairs,
       Conversations
  <2>2. CASE messages' = messages \cup {target[r]}
    <3>1. Account!Charge(Me) => Stores(r)
      BY <1>1, <1>4, <2>1, <2>2 DEF Reserve, ChatTypeOK, Stores
    <3> QED
      BY <1>4, <2>1, <2>2, <3>1 DEF Reserve
  <2>3. CASE messages' # messages \cup {target[r]}
    BY <1>1, <1>4, <2>3 DEF Reserve, ChatTypeOK, Prepares
  <2> QED
    BY <2>2, <2>3
<1>5. CASE LoadContext(r) \/ Delta(r) \/ CallBreaks(r)
  BY <1>1, <1>5 DEF LoadContext, Delta, CallBreaks, EndUnsaved, ChatTypeOK, store, handler,
     Continues
<1>6. ASSUME NEW st \in {"completed", "error"}, NEW c \in Contents, NEW how,
             At(r, "calling"), Answer(r, how), Save(r, st, c),
             how = "final" => st = "completed" /\ c.by = r
      PROVE  Saves(r)
  BY <1>1, <1>6 DEF Save, ChatTypeOK, Saves
<1>7. CASE Final(r)
  <2>1. Text(r, TRUE) \in Contents /\ Text(r, TRUE).by = r
    BY Values DEF Text
  <2> QED
    BY <1>6, <1>7, <2>1 DEF Final
<1>8. CASE StreamEnds(r)
  <2>1. Text(r, FALSE) \in Contents /\ Text(r, FALSE).by = r
    BY Values DEF Text
  <2>2. CASE buffer[r]
    BY <1>6, <1>8, <2>1, <2>2 DEF StreamEnds
  <2>3. CASE ~buffer[r]
    BY <1>1, <1>8, <2>3 DEF StreamEnds, EndUnsaved, ChatTypeOK, store, Continues
  <2> QED
    BY <2>2, <2>3
<1>9. CASE GatewayFails(r)
  <2>1. seen[r].content \in Contents
    BY <1>1 DEF ChatTypeOK
  <2> QED
    BY <1>6, <1>9, <2>1 DEF GatewayFails
<1>10. CASE SeesDisconnect(r)
  <2>1. (IF buffer[r] THEN Text(r, FALSE) ELSE Nobody) \in Contents
    BY Values
  <2> QED
    BY <1>6, <1>10, <2>1 DEF SeesDisconnect
<1> QED
  BY <1>2, <1>3, <1>4, <1>5, <1>7, <1>8, <1>9, <1>10 DEF Handle

(* A saved answer is no longer pending; when nobody else worked on the     *)
(* message it is what was saved.                                           *)
LEMMA SaveEffect ==
  ASSUME ChatTypeOK, NEW r \in Requests, KnowsAt(r), Saves(r)
  PROVE  LET m == target[r] IN
         /\ m \in messages /\ status'[m] # "pending"
         /\ \A n \in messages \ {m} : status'[n] = status[n] /\ content'[n] = content[n]
         /\ m \notin overlapped => status[m] # "completed"
         /\ m \notin overlapped /\ reply'[r] = "final"
              => status'[m] = "completed" /\ content'[m].by = r
<1> DEFINE m == target[r]
<1>1. PICK st \in {"completed", "error"}, c \in Contents :
        /\ status' = [status EXCEPT ![m] = IF st = seen[r].status THEN @ ELSE st]
        /\ content' = [content EXCEPT ![m] = IF c = seen[r].content THEN @ ELSE c]
        /\ reply'[r] = "final" => st = "completed" /\ c.by = r
  BY DEF Saves
<1>2. /\ m \in messages /\ seen[r].status \in {"pending", "error"}
      /\ seen[r].status = "error" => status[m] # "pending"
      /\ m \notin overlapped => seen[r] = Row(status[m], content[m])
  BY DEF KnowsAt, Saves
<1>3. messages \subseteq Pairs
  BY DEF ChatTypeOK, Pairs, Conversations
<1>4. /\ status'[m] = IF st = seen[r].status THEN status[m] ELSE st
      /\ content'[m] = IF c = seen[r].content THEN content[m] ELSE c
      /\ \A n \in messages \ {m} : status'[n] = status[n] /\ content'[n] = content[n]
  BY <1>1, <1>2, <1>3 DEF ChatTypeOK
<1>5. m \notin overlapped => seen[r].status = status[m] /\ seen[r].content = content[m]
  BY <1>2 DEF Row
<1> QED
  BY <1>1, <1>2, <1>4, <1>5

(* A handler's answer, the conversations it opens, and whom it overlaps.   *)
LEMMA HandlerMoves ==
  ASSUME ChatInductive, AnswersInv, NEW r \in Requests, Handle(r)
  PROVE  Unanswered' /\ Unopened' /\ Apart'
<1> USE DEF ChatInductive, AnswersInv, Alone
<1>1. Alone(r)
  BY HandlerKinds DEF Prepares, Resumes, Stores, Continues, Saves
<1>2. Unanswered'
  <2>1. pc'[r] # "done" => reply'[r] = "none"
    BY DEF Unanswered, Handle, Check, Open, Select, Insert, Reserve, LoadContext, Delta, Final,
       StreamEnds, GatewayFails, SeesDisconnect, CallBreaks, Save, EndUnsaved, Answer, Goto,
       At, InFlight, ChatTypeOK, store, handler
  <2> QED
    BY <1>1, <2>1 DEF Unanswered
<1>3. Open(r) \/ UNCHANGED << opened, target >>
  BY HandleFrame
<1>4. Unopened'
  <2>1. CASE Open(r)
    <3>1. /\ opened' = opened \cup {r} /\ pc'[r] = "select"
          /\ target'[r] = << r, target[r][2] >>
      BY <2>1 DEF Open, Goto, ChatTypeOK
    <3> QED
      BY <1>1, <3>1 DEF Unopened, At
  <2>2. CASE Check(r)
    <3>1. target[r] \in (opened \cup {NoRequest}) \X ClientIds /\ r \notin opened
      BY <2>2 DEF Check, Placed, PlacedAt, Unopened, At
    <3>2. UNCHANGED << opened, target >> /\ pc'[r] \in {"open", "insert", "done"}
      BY <2>2 DEF Check, Goto, Answer, ChatTypeOK, store
    <3>3. pc'[r] = "open" => target[r][1] = NoRequest
      BY <2>2, <3>1 DEF Check, Goto, Answer, New, ChatTypeOK
    <3> QED
      BY <1>1, <3>1, <3>2, <3>3 DEF Unopened, At
  <2>3. CASE Select(r)
    <3>1. pc'[r] = "check" => r \notin opened
      BY <2>3 DEF Select, Goto, Answer, New, Unopened, At, ChatTypeOK
    <3>2. UNCHANGED << opened, target >> /\ pc'[r] \in {"check", "insert", "context", "done"}
      BY <2>3 DEF Select, Goto, Answer, ChatTypeOK, store
    <3> QED
      BY <1>1, <3>1, <3>2 DEF Unopened, At
  <2>4. CASE ~(Open(r) \/ Check(r) \/ Select(r))
    <3>1. pc'[r] \notin {"idle", "check", "open", "select"}
      BY <2>4 DEF Handle, Insert, Reserve, LoadContext, Delta, Final, StreamEnds, GatewayFails,
         SeesDisconnect, CallBreaks, Save, EndUnsaved, Answer, Goto, At, ChatTypeOK
    <3> QED
      BY <1>1, <1>3, <2>4, <3>1 DEF Unopened, At
  <2> QED
    BY <2>1, <2>2, <2>3, <2>4
<1>5. Apart'
  <2>1. CASE Open(r)
    <3>1. target'[r] = << r, target[r][2] >> /\ r \notin opened /\ At(r, "open")
      BY <2>1 DEF Open, Goto, ChatTypeOK, Unopened, At
    <3>2. ASSUME NEW q \in Requests \ {r}, InFlight(q) PROVE target[q][1] # r
      BY <3>1, <3>2, ChatConstants DEF Placed, PlacedAt, At, InFlight, ChatTypeOK, Points, Unopened,
         Knows, KnowsAt, Works
    <3> QED
      BY <1>1, <3>1, <3>2 DEF Apart, InFlight
  <2>2. CASE UNCHANGED << opened, target >>
    BY <1>1, <2>2 DEF Apart, InFlight
  <2> QED
    BY <1>3, <2>1, <2>2
<1> QED
  BY <1>2, <1>4, <1>5

(* What the others know, hold or have answered stays right.                *)
LEMMA HandlerKeeps ==
  ASSUME ChatInductive, AnswersInv, NEW r \in Requests, Handle(r)
  PROVE  Knows' /\ PendingHeld' /\ FinalStored'
<1> USE DEF ChatInductive, AnswersInv, Alone
<1>1. messages \subseteq Pairs /\ \A m \in messages : m[1] # NoRequest
  BY ChatConstants DEF ChatTypeOK, Pairs, Conversations
<1>2. CASE Prepares(r)
  <2>1. Knows'
    BY <1>2 DEF Prepares, Knows, KnowsAt, Works
  <2>2. PendingHeld'
    <3>1. ASSUME NEW m \in messages, NEW q \in Requests, HeldBy(m, q) PROVE HeldBy(m, q)'
      BY <1>2, <3>1 DEF Prepares, HeldBy, Works, Unanswered, InFlight, Lost
    <3> QED
      BY <1>2, <3>1 DEF Prepares, PendingHeld
  <2>3. FinalStored'
    BY <1>2 DEF Prepares, FinalStored, FinalAt
  <2> QED
    BY <2>1, <2>2, <2>3
<1>3. CASE Resumes(r)
  <2>1. Knows'
    <3>1. status[target[r]] \in {"pending", "error"}
      BY <1>1, <1>3 DEF Resumes, ChatTypeOK, Statuses
    <3>2. KnowsAt(r)'
      BY <1>3, <3>1 DEF Resumes, KnowsAt, Row
    <3>3. ASSUME NEW q \in Requests \ {r} PROVE KnowsAt(q)'
      BY <1>3 DEF Resumes, Knows, KnowsAt, Works
    <3> QED
      BY <3>2, <3>3 DEF Knows
  <2>2. PendingHeld'
    <3>1. ASSUME NEW m \in messages, NEW q \in Requests, HeldBy(m, q) PROVE HeldBy(m, q)'
      BY <1>3, <3>1 DEF Resumes, HeldBy, Works
    <3> QED
      BY <1>3, <3>1 DEF Resumes, PendingHeld
  <2>3. FinalStored'
    <3>1. reply'[r] # "final"
      BY <1>3 DEF Resumes, Unanswered, InFlight
    <3> QED
      BY <1>3, <3>1 DEF Resumes, FinalStored, FinalAt
  <2> QED
    BY <2>1, <2>2, <2>3
<1>4. CASE Stores(r)
  <2>1. \A m \in messages : status'[m] = status[m] /\ content'[m] = content[m]
    BY <1>1, <1>4 DEF Stores, ChatTypeOK
  <2>2. status'[target[r]] = "pending" /\ content'[target[r]] = Nobody
    BY <1>4 DEF Stores, ChatTypeOK
  <2>3. Knows'
    <3>1. KnowsAt(r)'
      BY <1>4, <2>2 DEF Stores, KnowsAt, Row
    <3>2. ASSUME NEW q \in Requests \ {r} PROVE KnowsAt(q)'
      BY <1>4, <2>1 DEF Stores, Knows, KnowsAt, Works
    <3> QED
      BY <3>1, <3>2 DEF Knows
  <2>4. PendingHeld'
    <3>1. ASSUME NEW m \in messages, NEW q \in Requests, HeldBy(m, q) PROVE HeldBy(m, q)'
      BY <1>4, <3>1 DEF Stores, HeldBy, Works
    <3>2. HeldBy(target[r], r)'
      BY <1>4 DEF Stores, HeldBy
    <3> QED
      BY <1>4, <2>1, <3>1, <3>2 DEF Stores, PendingHeld
  <2>5. FinalStored'
    <3>1. reply'[r] # "final"
      BY <1>4 DEF Stores, Unanswered, InFlight
    <3> QED
      BY <1>4, <2>1, <3>1 DEF Stores, FinalStored, FinalAt
  <2> QED
    BY <2>3, <2>4, <2>5
<1>5. CASE Continues(r)
  <2>1. Knows'
    BY <1>5 DEF Continues, Knows, KnowsAt, Works
  <2>2. PendingHeld'
    <3>1. ASSUME NEW m \in messages, NEW q \in Requests, HeldBy(m, q) PROVE HeldBy(m, q)'
      BY <1>5, <3>1 DEF Continues, HeldBy, Works
    <3> QED
      BY <1>5, <3>1 DEF Continues, PendingHeld
  <2>3. FinalStored'
    <3>1. reply'[r] # "final"
      BY <1>5 DEF Continues, Unanswered, InFlight, Lost
    <3> QED
      BY <1>5, <3>1 DEF Continues, FinalStored, FinalAt
  <2> QED
    BY <2>1, <2>2, <2>3
<1>6. CASE Saves(r)
  <2> DEFINE m == target[r]
  <2>1. /\ m \in messages /\ status'[m] # "pending"
        /\ \A n \in messages \ {m} : status'[n] = status[n] /\ content'[n] = content[n]
        /\ m \notin overlapped => status[m] # "completed"
        /\ m \notin overlapped /\ reply'[r] = "final"
             => status'[m] = "completed" /\ content'[m].by = r
    BY <1>6, SaveEffect DEF Knows
  <2>2. /\ messages' = messages /\ target'[r] = m /\ pc'[r] = "done" /\ InFlight(r) /\ Works(r)
        /\ overlapped' = overlapped
    BY <1>6 DEF Saves
  <2>3. Knows'
    <3>1. KnowsAt(r)'
      BY <2>2 DEF KnowsAt, Works
    <3>2. ASSUME NEW q \in Requests \ {r} PROVE KnowsAt(q)'
      <4>1. CASE target[q] = m /\ Works(q)
        <5>1. m \in overlapped
          BY <1>1, <2>1, <2>2, <4>1 DEF Apart, InFlight, Works
        <5> QED
          BY <1>6, <2>1, <2>2, <4>1, <5>1 DEF Saves, Knows, KnowsAt, Works
      <4>2. CASE ~(target[q] = m /\ Works(q))
        BY <1>6, <2>1, <2>2, <4>2 DEF Saves, Knows, KnowsAt, Works
      <4> QED
        BY <4>1, <4>2
    <3> QED
      BY <3>1, <3>2 DEF Knows
  <2>4. PendingHeld'
    <3>1. ASSUME NEW n \in messages \ {m}, NEW q \in Requests, HeldBy(n, q) PROVE HeldBy(n, q)'
      BY <1>6, <3>1 DEF Saves, HeldBy, Works
    <3> QED
      BY <2>1, <2>2, <3>1 DEF PendingHeld
  <2>5. FinalStored'
    <3>1. FinalAt(r)'
      BY <2>1, <2>2 DEF FinalAt
    <3>2. ASSUME NEW q \in Requests \ {r} PROVE FinalAt(q)'
      BY <1>6, <2>1, <2>2 DEF Saves, FinalStored, FinalAt
    <3> QED
      BY <3>1, <3>2 DEF FinalStored
  <2> QED
    BY <2>3, <2>4, <2>5
<1> QED
  BY <1>2, <1>3, <1>4, <1>5, <1>6, HandlerKinds

(* A request is received: it has done nothing yet, and overlaps whoever    *)
(* works on its message.                                                   *)
LEMMA ReceiveKeeps ==
  ASSUME ChatInductive, AnswersInv, NEW r \in Requests, NEW conv \in Conversations,
         NEW id \in ClientIds, NEW s \in BOOLEAN, Receive(r, conv, id, s)
  PROVE  AnswersInv'
<1> DEFINE m == << conv, id >>
<1>1. /\ ChatTypeOK /\ pc[r] = "idle" /\ reply[r] = "none" /\ r \notin opened
      /\ conv \in opened \cup {NoRequest}
      /\ pc'[r] = IF conv = NoRequest THEN "check" ELSE "select"
      /\ target'[r] = m
      /\ \A q \in Requests \ {r} : pc'[q] = pc[q] /\ target'[q] = target[q]
      /\ UNCHANGED << opened, messages, status, content, seen, reply >>
      /\ overlapped' = IF \E q \in Requests : InFlight(q) /\ target[q] = m /\ conv # NoRequest
                       THEN overlapped \cup {m} ELSE overlapped
  BY DEF Receive, At, Goto, ChatInductive, ChatTypeOK, AnswersInv, Unanswered, Unopened, store
<1> USE DEF AnswersInv
<1>2. overlapped \subseteq overlapped'
  BY <1>1
<1>3. Unanswered' /\ Unopened'
  BY <1>1 DEF Unanswered, Unopened, At
<1>4. Apart'
  <2>1. ASSUME NEW q \in Requests \ {r}, InFlight(q)', target'[q] = m, conv # NoRequest
        PROVE  m \in overlapped'
    BY <1>1, <2>1 DEF InFlight
  <2>2. m[1] = conv
    OBVIOUS
  <2> QED
    BY <1>1, <1>2, <2>1, <2>2 DEF Apart, InFlight
<1>5. Knows' /\ FinalStored'
  BY <1>1, <1>2 DEF Knows, KnowsAt, Works, FinalStored, FinalAt
<1>6. PendingHeld'
  <2>1. ASSUME NEW n \in messages, NEW q \in Requests, HeldBy(n, q) PROVE HeldBy(n, q)'
    BY <1>1, <2>1 DEF HeldBy, Works, Lost
  <2> QED
    BY <1>1, <2>1 DEF PendingHeld
<1> QED
  BY <1>3, <1>4, <1>5, <1>6

(* A crash ends every request without an answer.                           *)
LEMMA CrashKeeps ==
  ASSUME ChatInductive, AnswersInv, Crash
  PROVE  AnswersInv'
<1>1. /\ \A r \in Requests : /\ pc'[r] = IF pc[r] = "idle" THEN "idle" ELSE "done"
                             /\ reply'[r] = IF InFlight(r) THEN "crashed" ELSE reply[r]
      /\ UNCHANGED << opened, messages, status, content, seen, target, overlapped >>
  BY DEF Crash, At, store
<1> USE DEF AnswersInv
<1>2. Unanswered' /\ Unopened' /\ Apart' /\ Knows' /\ FinalStored'
  BY <1>1 DEF Unanswered, Unopened, Apart, Knows, KnowsAt, FinalStored, FinalAt, At, InFlight,
     Works
<1>3. PendingHeld'
  <2>1. ASSUME NEW n \in messages, NEW q \in Requests, HeldBy(n, q) PROVE HeldBy(n, q)'
    BY <1>1, <2>1 DEF HeldBy, Works, InFlight, Lost
  <2> QED
    BY <1>1, <2>1 DEF PendingHeld
<1> QED
  BY <1>2, <1>3

(* Every step keeps the answers.                                           *)
LEMMA AnswersStep == ChatInductive /\ AnswersInv /\ [Next]_vars => AnswersInv'
<1> SUFFICES ASSUME ChatInductive, AnswersInv, [Next]_vars PROVE AnswersInv'
  OBVIOUS
<1>1. ASSUME UNCHANGED << opened, messages, status, content, pc, target, seen, reply, overlapped >>
      PROVE  AnswersInv'
  BY <1>1 DEF AnswersInv, Unanswered, Unopened, Apart, Knows, KnowsAt, PendingHeld, HeldBy,
     FinalStored, FinalAt, At, InFlight, Works
<1>2. CASE UNCHANGED vars
  BY <1>1, <1>2 DEF vars, store, handler
<1>3. ASSUME NEW u \in Users, Colleague(u) PROVE AnswersInv'
  BY <1>1, <1>3 DEF Colleague, store, handler
<1>4. ASSUME NEW r \in Requests, Disconnect(r) PROVE AnswersInv'
  BY <1>1, <1>4 DEF Disconnect, store, handler
<1>5. ASSUME NEW r \in Requests, Handle(r) PROVE AnswersInv'
  BY <1>5, HandlerMoves, HandlerKeeps DEF AnswersInv
<1> QED
  BY <1>2, <1>3, <1>4, <1>5, ReceiveKeeps, CrashKeeps DEF Next

(* The answers of the initial state: there are none.                       *)
LEMMA AnswersStart == Init => AnswersInv
<1> SUFFICES ASSUME Init PROVE AnswersInv
  OBVIOUS
<1> QED
  BY ChatConstants DEF Init, AnswersInv, Unanswered, Unopened, Apart, Knows, KnowsAt, PendingHeld,
     FinalStored, FinalAt, At, InFlight, Works

(* The invariant of the answers, on top of the first one.                  *)
THEOREM AnswersInvHolds == Spec => []AnswersInv
  BY AnswersStart, AnswersStep, ChatInductiveHolds, PTL DEF Spec

(* What was sent as final is what a later retry replays, as long as the    *)
(* attempts for the message did not overlap.                               *)
THEOREM FinalIsStoredAlways == Spec => []FinalIsStored
<1>1. AnswersInv => FinalIsStored
  BY DEF AnswersInv, FinalStored, FinalAt, FinalIsStored
<1> QED
  BY <1>1, AnswersInvHolds, PTL

(* An answer is left pending only by a call that broke off, a stream that  *)
(* ended empty or a crash.                                                 *)
THEOREM PendingExplainedAlways == Spec => []PendingExplained
<1>1. AnswersInv => PendingExplained
  BY DEF AnswersInv, PendingHeld, HeldBy, PendingExplained, Works, InFlight, Lost
<1> QED
  BY <1>1, AnswersInvHolds, PTL

(* A completed answer is taken back or replaced only by an overlapping     *)
(* attempt that had found it unfinished.                                   *)
THEOREM AnswersKept == Spec => AnswerKept
<1> DEFINE Keeps ==
      \A m \in messages :
        status[m] = "completed" /\ (status'[m] # "completed" \/ content'[m] # content[m])
          => /\ m \in overlapped
             /\ \E r \in Requests : /\ At(r, "calling") /\ pc'[r] = "done"
                                    /\ target[r] = m /\ seen[r].status # "completed"
<1>1. ASSUME ChatInductive, AnswersInv, NEW r \in Requests, Handle(r) PROVE Keeps
  <2>1. messages \subseteq Pairs
    BY <1>1 DEF ChatInductive, ChatTypeOK, Pairs, Conversations
  <2>2. CASE Stores(r)
    BY <1>1, <2>1, <2>2 DEF Stores, ChatInductive, ChatTypeOK
  <2>3. CASE Saves(r)
    <3>1. /\ \A n \in messages \ {target[r]} : status'[n] = status[n] /\ content'[n] = content[n]
          /\ target[r] \notin overlapped => status[target[r]] # "completed"
      BY <1>1, <2>3, SaveEffect DEF ChatInductive, AnswersInv, Knows
    <3>2. seen[r].status # "completed" /\ pc'[r] = "done"
      BY <1>1, <2>3 DEF AnswersInv, Knows, KnowsAt, Saves
    <3>3. At(r, "calling")
      BY <2>3 DEF Saves
    <3> QED
      BY <3>1, <3>2, <3>3
  <2>4. CASE Prepares(r) \/ Resumes(r) \/ Continues(r)
    BY <2>4 DEF Prepares, Resumes, Continues
  <2> QED
    BY <1>1, <2>2, <2>3, <2>4, HandlerKinds DEF AnswersInv
<1>2. ASSUME ChatInductive, AnswersInv, Next PROVE Keeps
  <2>1. (\E r \in Requests : Handle(r)) \/ UNCHANGED << status, content >>
    BY <1>2 DEF Next, Receive, Disconnect, Colleague, Crash, store
  <2> QED
    BY <1>1, <1>2, <2>1
<1>3. ChatInductive /\ AnswersInv /\ [Next]_vars => [Keeps]_vars
  BY <1>2
<1> QED
  BY <1>3, ChatInductiveHolds, AnswersInvHolds, PTL DEF Spec, AnswerKept

==============================================================================
