------------------------------ MODULE ChatStream ------------------------------
(***************************************************************************)
(* One streamed answer on its way from the model through gateway_api       *)
(* (openai_client.py, main.py) and product_api (gateway_client.py and      *)
(* event_stream in main.py) to the browser (chatStream.ts): each reads     *)
(* the events of the one before it and writes its own.  A connection may   *)
(* break, a commit fail, the user press stop, at any moment.               *)
(* A text is the number of deltas it is made of; 0 is the empty text.      *)
(***************************************************************************)
EXTENDS Integers, Sequences

CONSTANT MaxChunks   \* bound: deltas of the model

VARIABLES gateway,   \* [up, text]: reading the model ("up"), and its buffer
          wire,      \* gateway to product: [events, end]
          product,   \* [up, text]: reading the gateway, and its buffer
          answer,    \* the stored assistant message [status, text]
          line,      \* product to browser: [events, end]
          browser    \* [up, status, text]: reading, and the message it shows

streamVars == <<gateway, wire, product, answer, line, browser>>

\* end: "open", "eof" (ended in order) or "broken" (the reader's read raises)
NoEvents == [events |-> <<>>, end |-> "open"]

StreamInit ==
  /\ gateway = [up |-> TRUE, text |-> 0] /\ wire = NoEvents
  /\ product = [up |-> TRUE, text |-> 0] /\ line = NoEvents
  /\ answer = [status |-> "pending", text |-> 0]
  /\ browser = [up |-> TRUE, status |-> "streaming", text |-> 0]

Event(kind, text) == [kind |-> kind, text |-> text]
Sends(channel, e) == [channel EXCEPT !.events = Append(@, e)]
SendsLast(channel, e) == [Sends(channel, e) EXCEPT !.end = "eof"]
Breaks(channel) == [channel EXCEPT !.end = "broken"]
Or(text, buffer) == IF text # 0 THEN text ELSE buffer

(* -------------------------------- gateway -------------------------------- *)
\* A chunk with a text; one without is skipped.
RelayDelta ==
  /\ gateway.up /\ gateway.text < MaxChunks
  /\ gateway' = [gateway EXCEPT !.text = @ + 1]
  /\ wire' = Sends(wire, Event("delta", 1))
  /\ UNCHANGED <<product, answer, line, browser>>

\* [DONE], or just the end of the model's stream: the final event has the whole text.
\* An error chunk, a status other than 200, a timeout: an error event.
FinishRelay ==
  /\ gateway.up
  /\ \E e \in {Event("final", gateway.text), Event("error", 0)} : wire' = SendsLast(wire, e)
  /\ gateway' = [gateway EXCEPT !.up = FALSE]
  /\ UNCHANGED <<product, answer, line, browser>>

\* The gateway dies, or its connection with product does; "eof": one in front of it
\* ends the response in order.
LoseGateway ==
  /\ wire.end = "open"
  /\ wire' \in {Breaks(wire), [wire EXCEPT !.end = "eof"]}
  /\ gateway' = [gateway EXCEPT !.up = FALSE]
  /\ UNCHANGED <<product, answer, line, browser>>

(* -------------------------------- product -------------------------------- *)
\* Mutant: the browser hears of it first.
ConcludesLate(status, text, sent) ==
  /\ product' = [product EXCEPT !.up = FALSE]
  /\ line' = sent
  /\ answer' \in {[status |-> status, text |-> text], answer}

\* The generator stores the answer and sends its event.  When the commit raises, it
\* dies: nothing is stored and the response breaks off.
Concludes(status, text, sent) ==
  /\ product' = [product EXCEPT !.up = FALSE]
  /\ \/ answer' = [status |-> status, text |-> text] /\ line' = sent
     \/ answer' = answer /\ line' = Breaks(line)

\* The browser has gone: noticed when an event comes in.
Gone == ~browser.up

HandleEvent ==
  /\ product.up /\ wire.events # <<>>
  /\ LET e == Head(wire.events)
     IN  \/ Gone /\ Concludes("error", product.text, line)
         \/ /\ e.kind = "delta"
            /\ product' = [product EXCEPT !.text = @ + e.text]
            /\ line' = Sends(line, e)
            /\ UNCHANGED answer
         \/ /\ e.kind = "final"
            /\ LET text == Or(e.text, product.text)
               IN  Concludes("completed", text, SendsLast(line, Event("final", text)))
         \/ /\ e.kind = "error"
            /\ Concludes("error", 0, SendsLast(line, e))
  /\ wire' = [wire EXCEPT !.events = Tail(@)]
  /\ UNCHANGED <<gateway, browser>>

\* The gateway's response ended without a final event: what there is becomes the answer,
\* or, with nothing, the response ends too and the message stays pending.
HandleEnd ==
  /\ product.up /\ wire.events = <<>> /\ wire.end = "eof"
  /\ IF product.text > 0
     THEN Concludes("completed", product.text, SendsLast(line, Event("final", product.text)))
     ELSE /\ product' = [product EXCEPT !.up = FALSE]
          /\ line' = [line EXCEPT !.end = "eof"] /\ UNCHANGED answer
  /\ UNCHANGED <<gateway, wire, browser>>

\* The gateway refuses (a status other than 200): an error event.
GatewayRefuses ==
  /\ product.up /\ gateway.up /\ gateway.text = 0 /\ wire = NoEvents
  /\ Concludes("error", 0, SendsLast(line, Event("error", 0)))
  /\ gateway' = [gateway EXCEPT !.up = FALSE]
  /\ UNCHANGED <<wire, browser>>

\* An exception that is no GatewayError (a broken read, a timeout), or a cancelled
\* response after the browser left: nothing is stored.
GeneratorDies ==
  /\ product.up
  /\ (wire.events = <<>> /\ wire.end # "eof") \/ Gone
  /\ product' = [product EXCEPT !.up = FALSE]
  /\ line' = Breaks(line)
  /\ UNCHANGED <<gateway, wire, answer, browser>>

(* -------------------------------- browser -------------------------------- *)
Shows(status, text) == browser' = [up |-> FALSE, status |-> status, text |-> text]

\* dispatchEvent; reading stops at the first final or error event.
ShowEvent ==
  /\ browser.up /\ line.events # <<>>
  /\ LET e == Head(line.events)
     IN  CASE e.kind = "delta" -> browser' = [browser EXCEPT !.text = @ + e.text]
           [] e.kind = "final" -> Shows("completed", Or(e.text, browser.text))
           [] e.kind = "error" -> Shows("error", browser.text)
  /\ line' = [line EXCEPT !.events = Tail(@)]
  /\ UNCHANGED <<gateway, wire, product, answer>>

\* The body ends: streamChat returns, whether or not there was a final event; a broken
\* read throws, at once or with events still unread.
ShowEnd ==
  /\ browser.up
  /\ \/ line.end = "eof" /\ line.events = <<>> /\ browser' = [browser EXCEPT !.up = FALSE]
     \/ line.end = "broken" /\ Shows("error", browser.text)
  /\ UNCHANGED <<gateway, wire, product, answer, line>>

\* stopGenerating, or the page is left.
Stop ==
  /\ browser.up
  /\ Shows("aborted", browser.text)
  /\ UNCHANGED <<gateway, wire, product, answer, line>>

StreamNext ==
  \/ RelayDelta \/ FinishRelay \/ LoseGateway
  \/ HandleEvent \/ HandleEnd \/ GatewayRefuses \/ GeneratorDies
  \/ ShowEvent \/ ShowEnd \/ Stop

StreamSpec == StreamInit /\ [][StreamNext]_streamVars

(* ------------------------------ properties ------------------------------- *)
\* An answer shown as completed is the stored one, text and all, whatever broke between
\* the services; and the text shown before that is never more than the model has sent.
ShownIsStored ==
  /\ browser.status = "completed" => answer = [status |-> "completed", text |-> browser.text]
  /\ browser.text <= gateway.text
  /\ answer.status = "completed" => browser.text <= answer.text
=============================================================================
