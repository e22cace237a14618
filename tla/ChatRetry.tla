------------------------------ MODULE ChatRetry ------------------------------
(***************************************************************************)
(* POST /v1/chat of product_api for one user: conversations, the message   *)
(* pairs stored in them, retries with the same client_message_id, the      *)
(* credit reservation and the call to the gateway.                         *)
(*                                                                         *)
(* A conversation is named by the request that opened it and a user        *)
(* message by its conversation and client_message_id, which the unique     *)
(* index uq_messages_conversation_client_message_id makes a key.  The      *)
(* reservation is the atomic Charge of CreditAccount, which CompanyCredits *)
(* shows the statements of reserve_chat_credits to implement.              *)
(***************************************************************************)
EXTENDS Integers, FiniteSets

CONSTANTS
  Users,        (* the employees of the company                            *)
  Me,           (* the one whose requests are followed                     *)
  Requests,     (* POST /v1/chat requests of Me, each received at most once*)
  ClientIds,    (* client_message_id values                                *)
  StartPool, StartLimit,
  NoRequest     (* no conversation given; nobody's text                    *)

ASSUME ChatConstants ==
  /\ Me \in Users
  /\ NoRequest \notin Requests
  /\ StartPool \in Nat
  /\ StartLimit \in [Users -> Nat]

VARIABLES
  pool, limit, active, (* the credit account, see CreditAccount            *)
  opened,       (* committed conversations                                 *)
  messages,     (* committed user messages                                 *)
  status,       (* assistant row of a message: its status                  *)
  content,      (*   and whose call of the gateway its text came from      *)
  ledger,       (* ledger rows: the message and the request that paid      *)
  pc,           (* what each request does next                             *)
  target,       (* <<conversation, client_message_id>> of each request     *)
  stream,       (* payload.stream                                          *)
  seen,         (* the assistant row as the ORM session last saw it        *)
  buffer,       (* buffer_text # ""                                        *)
  reply,        (* how the request was answered                            *)
  gone,         (* requests whose client has disconnected                  *)
  overlapped    (* history: messages two requests worked on at once        *)

credits == << pool, limit, active >>
store == << opened, messages, status, content, ledger >>
handler == << target, stream, seen, buffer, reply >>
vars == << credits, store, pc, handler, gone, overlapped >>

Account == INSTANCE CreditAccount WITH Amounts <- {}, Deltas <- {}, Keys <- {}, usedKeys <- {}

Conversations == Requests \cup {NoRequest}
Pairs == Conversations \X ClientIds
Nobody == [by |-> NoRequest, whole |-> FALSE]      (* content = ""          *)
Text(r, whole) == [by |-> r, whole |-> whole]
Row(s, c) == [status |-> s, content |-> c]

Points == {"idle", "check", "open", "select", "insert", "reserve", "context",
           "calling", "done"}
Statuses == {"pending", "completed", "error"}
Contents == [by : Conversations, whole : BOOLEAN]

Init ==
  /\ Account!Init
  /\ opened = {} /\ messages = {} /\ ledger = {}
  /\ status = [m \in Pairs |-> "pending"]
  /\ content = [m \in Pairs |-> Nobody]
  /\ pc = [r \in Requests |-> "idle"]
  /\ target = [r \in Requests |-> << NoRequest, NoRequest >>]
  /\ stream = [r \in Requests |-> FALSE]
  /\ seen = [r \in Requests |-> Row("pending", Nobody)]
  /\ buffer = [r \in Requests |-> FALSE]
  /\ reply = [r \in Requests |-> "none"]
  /\ gone = {} /\ overlapped = {}

At(r, point) == pc[r] = point
Goto(r, point) == pc' = [pc EXCEPT ![r] = point]
InFlight(r) == pc[r] \notin {"idle", "done"}
New(r) == target[r][1] \in {r, NoRequest}

Answer(r, how) ==
  /\ Goto(r, "done")
  /\ reply' = [reply EXCEPT ![r] = how]

-------------------------------------------------------------------------------
(* The request and the conversation it belongs to.                          *)

Receive(r, conv, id, s) ==
  LET m == << conv, id >> IN
  /\ At(r, "idle")
  /\ conv \in opened \cup {NoRequest}
  /\ Goto(r, IF conv = NoRequest THEN "check" ELSE "select")
  /\ target' = [target EXCEPT ![r] = m]
  /\ stream' = [stream EXCEPT ![r] = s]
  /\ overlapped' = IF \E q \in Requests : InFlight(q) /\ target[q] = m /\ conv # NoRequest
                   THEN overlapped \cup {m} ELSE overlapped
  /\ UNCHANGED << credits, store, seen, buffer, reply, gone >>

(* _ensure_chat_credits_available: plain reads, before the message is       *)
(* written; Reserve tests again what counts.                                *)
Check(r) ==
  /\ At(r, "check")
  /\ IF pool > 0 /\ limit[Me] > 0
     THEN /\ Goto(r, IF New(r) THEN "open" ELSE "insert")
          /\ UNCHANGED reply
     ELSE Answer(r, "refused")
  /\ UNCHANGED << credits, store, target, stream, seen, buffer, gone, overlapped >>

(* Mutation: the conversation is flushed but not committed.                 *)
OpenUncommitted(r) ==
  /\ At(r, "open")
  /\ Goto(r, "select")
  /\ target' = [target EXCEPT ![r] = << r, @[2] >>]
  /\ UNCHANGED << credits, store, stream, seen, buffer, reply, gone, overlapped >>

(* create_conversation commits on its own.                                  *)
Open(r) ==
  /\ At(r, "open")
  /\ Goto(r, "select")
  /\ opened' = opened \cup {r}
  /\ target' = [target EXCEPT ![r] = << r, @[2] >>]
  /\ UNCHANGED << credits, messages, status, content, ledger, stream, seen, buffer,
                  reply, gone, overlapped >>

(* Mutations: an attempt that failed is paid for again; the status of the   *)
(* stored answer is not looked at.                                          *)
SelectRecharging(r) ==
  LET m == target[r] IN
  /\ At(r, "select")
  /\ Goto(r, IF m \in messages THEN "reserve" ELSE IF New(r) THEN "insert" ELSE "check")
  /\ UNCHANGED << credits, store, handler, gone, overlapped >>

SelectAnyStatus(r) ==
  LET m == target[r] IN
  /\ At(r, "select")
  /\ IF m \in messages
     THEN /\ Goto(r, "context")
          /\ seen' = [seen EXCEPT ![r] = Row(status[m], content[m])]
     ELSE /\ Goto(r, IF New(r) THEN "insert" ELSE "check")
          /\ UNCHANGED seen
  /\ UNCHANGED << credits, store, target, stream, buffer, reply, gone, overlapped >>

(* The message is looked up; the assistant row of a known one is loaded and *)
(* a completed answer is sent again without calling the gateway.            *)
Select(r) ==
  LET m == target[r] IN
  /\ At(r, "select")
  /\ \/ /\ m \notin messages
        /\ Goto(r, IF New(r) THEN "insert" ELSE "check")
        /\ UNCHANGED << seen, reply >>
     \/ /\ m \in messages
        /\ seen' = [seen EXCEPT ![r] = Row(status[m], content[m])]
        /\ IF status[m] = "completed"
           THEN Answer(r, "replay")
           ELSE Goto(r, "context") /\ UNCHANGED reply
  /\ UNCHANGED << credits, store, target, stream, buffer, gone, overlapped >>

-------------------------------------------------------------------------------
(* A new message: the user row, the assistant row, the reservation, one     *)
(* transaction.  A second insertion of the same key waits for the first     *)
(* transaction to end; if that one committed, the handler rolls back and    *)
(* loads its rows, but the rollback has expired current_user as well, whose *)
(* id the gateway request needs: the attribute cannot be reloaded outside   *)
(* an awaited call and the request fails.                                   *)

Insert(r) ==
  LET m == target[r] IN
  /\ At(r, "insert")
  /\ ~\E q \in Requests \ {r} : At(q, "reserve") /\ target[q] = m
  /\ \/ /\ m \notin messages
        /\ Goto(r, "reserve")
        /\ UNCHANGED reply
     \/ /\ m \in messages                        (* IntegrityError           *)
        /\ Answer(r, "failed")
  /\ UNCHANGED << credits, store, target, stream, seen, buffer, gone, overlapped >>

Reserve(r) ==
  LET m == target[r] IN
  /\ At(r, "reserve")
  /\ \/ /\ Account!Charge(Me)
        /\ Goto(r, "context")
        /\ messages' = messages \cup {m}
        /\ ledger' = ledger \cup {<< m, r >>}
        /\ status' = [status EXCEPT ![m] = "pending"]
        /\ content' = [content EXCEPT ![m] = Nobody]
        /\ seen' = [seen EXCEPT ![r] = Row("pending", Nobody)]
        /\ UNCHANGED reply
     \/ /\ pool < 1 \/ limit[Me] < 1             (* rolled back              *)
        /\ Answer(r, "refused")
        /\ UNCHANGED << credits, messages, ledger, status, content, seen >>
  /\ UNCHANGED << opened, target, stream, buffer, gone, overlapped >>

(* The completed messages of the conversation are read for the gateway.     *)
LoadContext(r) ==
  /\ At(r, "context")
  /\ Goto(r, "calling")
  /\ UNCHANGED << credits, store, handler, gone, overlapped >>

-------------------------------------------------------------------------------
(* The gateway call.  The ORM writes the columns whose value differs from   *)
(* the one it last saw, whatever another request has stored meanwhile.      *)

Save(r, s, c) ==
  LET m == target[r] IN
  /\ status' = [status EXCEPT ![m] = IF s = seen[r].status THEN @ ELSE s]
  /\ content' = [content EXCEPT ![m] = IF c = seen[r].content THEN @ ELSE c]
  /\ seen' = [seen EXCEPT ![r] = Row(s, c)]
  /\ UNCHANGED << credits, opened, messages, ledger, target, stream, buffer, gone,
                  overlapped >>

EndUnsaved(r, how) ==
  /\ Answer(r, how)
  /\ UNCHANGED << credits, store, target, stream, seen, buffer, gone, overlapped >>

Delta(r) ==
  /\ At(r, "calling") /\ stream[r] /\ r \notin gone /\ ~buffer[r]
  /\ buffer' = [buffer EXCEPT ![r] = TRUE]
  /\ UNCHANGED << credits, store, pc, target, stream, seen, reply, gone, overlapped >>

(* Mutation: the answer goes out and the commit is forgotten.               *)
FinalUnsaved(r) ==
  /\ At(r, "calling") /\ (stream[r] => r \notin gone)
  /\ EndUnsaved(r, "final")

(* A final event, or the whole answer of a plain call.                      *)
Final(r) ==
  /\ At(r, "calling") /\ (stream[r] => r \notin gone)
  /\ Answer(r, "final")
  /\ Save(r, "completed", Text(r, TRUE))

(* The stream closes without a final event.                                 *)
StreamEnds(r) ==
  /\ At(r, "calling") /\ stream[r]
  /\ IF buffer[r]
     THEN Answer(r, "final") /\ Save(r, "completed", Text(r, FALSE))
     ELSE EndUnsaved(r, "nothing")

(* Mutation: the error is reported and not stored.                          *)
GatewayFailsUnsaved(r) ==
  /\ At(r, "calling")
  /\ EndUnsaved(r, "error")

(* An error event, or GatewayError.                                         *)
GatewayFails(r) ==
  /\ At(r, "calling")
  /\ Answer(r, "error")
  /\ Save(r, "error", seen[r].content)

(* An event arrives and request.is_disconnected().                          *)
SeesDisconnect(r) ==
  /\ At(r, "calling") /\ stream[r] /\ r \in gone
  /\ Answer(r, "nothing")
  /\ Save(r, "error", IF buffer[r] THEN Text(r, FALSE) ELSE Nobody)

(* httpx raises a timeout or a transport error, which no handler catches,   *)
(* or the server cancels the response of a client that has left.            *)
CallBreaks(r) ==
  /\ At(r, "calling")
  /\ EndUnsaved(r, "broken")

-------------------------------------------------------------------------------
(* Outside the request.                                                     *)

(* A client may leave at any time; only the streaming loop looks.           *)
Disconnect(r) ==
  /\ At(r, "calling") /\ stream[r] /\ r \notin gone
  /\ gone' = gone \cup {r}
  /\ UNCHANGED << credits, store, pc, handler, overlapped >>

Colleague(u) ==
  /\ u # Me
  /\ Account!Charge(u)
  /\ UNCHANGED << store, pc, handler, gone, overlapped >>

Crash ==
  /\ \E r \in Requests : InFlight(r)
  /\ pc' = [r \in Requests |-> IF At(r, "idle") THEN "idle" ELSE "done"]
  /\ reply' = [r \in Requests |-> IF InFlight(r) THEN "crashed" ELSE reply[r]]
  /\ UNCHANGED << credits, store, target, stream, seen, buffer, gone, overlapped >>

Handle(r) ==
  \/ Check(r) \/ Open(r) \/ Select(r) \/ Insert(r) \/ Reserve(r) \/ LoadContext(r)
  \/ Delta(r) \/ Final(r) \/ CallBreaks(r) \/ GatewayFails(r)
  \/ SeesDisconnect(r) \/ StreamEnds(r)

Next ==
  \/ \E r \in Requests, conv \in Conversations, id \in ClientIds, s \in BOOLEAN :
       Receive(r, conv, id, s)
  \/ \E r \in Requests : Handle(r) \/ Disconnect(r)
  \/ \E u \in Users : Colleague(u)
  \/ Crash

Spec == Init /\ [][Next]_vars

-------------------------------------------------------------------------------
(* Properties.                                                              *)

ChatTypeOK ==
  /\ pool \in Int /\ limit \in [Users -> Int] /\ active = Users
  /\ opened \in SUBSET Requests
  /\ messages \in SUBSET (opened \X ClientIds)
  /\ status \in [Pairs -> Statuses]
  /\ content \in [Pairs -> Contents]
  /\ ledger \in SUBSET (messages \X Requests)
  /\ pc \in [Requests -> Points]
  /\ target \in [Requests -> Pairs \cup {<< NoRequest, NoRequest >>}]
  /\ stream \in [Requests -> BOOLEAN]
  /\ seen \in [Requests -> [status : Statuses, content : Contents]]
  /\ buffer \in [Requests -> BOOLEAN]
  /\ reply \in [Requests -> {"none", "refused", "replay", "final", "error", "nothing",
                             "broken", "failed", "crashed"}]
  /\ gone \in SUBSET Requests
  /\ overlapped \in SUBSET Pairs

(* Retries within a conversation are free: each stored message has exactly  *)
(* one ledger row, and the author's allowance has shrunk by the number of   *)
(* stored messages, whatever was retried, refused, rolled back or lost.     *)
ChargedOncePerMessage ==
  /\ \A m \in messages : Cardinality({e \in ledger : e[1] = m}) = 1
  /\ StartLimit[Me] - limit[Me] = Cardinality(messages)

(* Once an answer is completed, the only thing that takes it back or        *)
(* replaces it is an attempt of that message that was under way beside      *)
(* another one and had found the answer unfinished: a retry that comes      *)
(* after the completion, however many attempts are still running, never     *)
(* touches it.                                                              *)
AnswerKept ==
  [][\A m \in messages :
       status[m] = "completed" /\ (status'[m] # "completed" \/ content'[m] # content[m])
         => /\ m \in overlapped
            /\ \E r \in Requests : /\ At(r, "calling") /\ pc'[r] = "done"
                                   /\ target[r] = m /\ seen[r].status # "completed"]_vars

(* What was sent to the client as final is what a later retry replays.      *)
FinalIsStored ==
  \A r \in Requests :
    LET m == target[r] IN
    reply[r] = "final" /\ m \notin overlapped
      => status[m] = "completed" /\ content[m].by = r

(* An assistant row is left pending with nobody working on it only when     *)
(* the last call broke off, or its stream ended empty.                      *)
PendingExplained ==
  \A m \in messages :
    status[m] = "pending" =>
      \E r \in Requests :
        target[r] = m /\ (InFlight(r) \/ reply[r] \in {"nothing", "broken", "crashed"})

(* README, "Chat API v1 retry behavior": a retry with the same              *)
(* client_message_id does not charge the user again.                        *)
OneChargePerClientId ==
  \A id \in ClientIds : Cardinality({e \in ledger : e[1][2] = id}) <= 1

(* README: Product API "will return the same user_message_id +              *)
(* assistant_message_id" to a retry: a request for a message that is stored *)
(* is not answered with an internal error.                                  *)
RetryIsServed ==
  \A r \in Requests : target[r] \in messages => reply[r] # "failed"

(* README: product_api "handles disconnects by marking assistant as error". *)
DisconnectMarked ==
  \A r \in Requests :
    pc[r] = "done" /\ r \in gone /\ stream[r] /\ target[r] \in messages
      => status[target[r]] # "pending"

==============================================================================
