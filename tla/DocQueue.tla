------------------------------- MODULE DocQueue -------------------------------
(***************************************************************************)
(* The document queue of the third claim step in the web interface         *)
(* (hooks/useStep3DocQueueStatus.ts): every item turns to done when its    *)
(* timer fires.  A rendering with other options runs the effect again some *)
(* time later; until then the timers of the old run still count.           *)
(***************************************************************************)
EXTENDS Integers, FiniteSets

CONSTANTS Items, MaxRuns   \* MaxRuns, a bound: runs of the effect

VARIABLES options,  \* [items, enabled, reduced], as last rendered
          stale,    \* they changed and the effect has not run since
          run,      \* runIdRef
          status,   \* item -> "loading" or "done", for the items of the run
          timers,   \* the timers that have not fired: [run, item]
          fired     \* the items whose timer has fired in this run

queueVars == <<options, stale, run, status, timers, fired>>

Options == [items : SUBSET Items, enabled : BOOLEAN, reduced : BOOLEAN]

DocInit ==
  /\ options \in Options /\ stale = TRUE
  /\ run = 0 /\ timers = {} /\ fired = {}
  /\ status = [i \in options.items |-> "loading"]

\* Other items, another run key, a page enabled or disabled, another motion preference.
Rerender ==
  /\ run < MaxRuns
  /\ options' \in Options /\ stale' = TRUE
  /\ UNCHANGED <<run, status, timers, fired>>

\* Mutant: a new run starts from what the last one has reached.
InitialStatusKept(o) ==
  [i \in o.items |-> IF i \in DOMAIN status THEN status[i]
                     ELSE IF o.enabled /\ o.reduced THEN "done" ELSE "loading"]

InitialStatus(o) == [i \in o.items |-> IF o.enabled /\ o.reduced THEN "done" ELSE "loading"]

\* The cleanup and the effect: the timers are cleared, the statuses reset, and new timers
\* set unless the queue is disabled or nothing is to move.
RunEffect ==
  /\ stale /\ stale' = FALSE
  /\ run' = run + 1
  /\ status' = InitialStatus(options)
  /\ timers' = IF options.enabled /\ ~options.reduced
               THEN {[run |-> run', item |-> i] : i \in options.items} ELSE {}
  /\ fired' = {}
  /\ UNCHANGED options

TimerFires ==
  \E t \in timers :
    /\ timers' = timers \ {t}
    /\ status' = IF t.run = run
                 THEN [i \in DOMAIN status \cup {t.item} |->
                         IF i = t.item THEN "done" ELSE status[i]]
                 ELSE status
    /\ fired' = fired \cup {t.item}
    /\ UNCHANGED <<options, stale, run>>

DocNext == Rerender \/ RunEffect \/ TimerFires

DocSpec == DocInit /\ [][DocNext]_queueVars

(* ------------------------------ properties ------------------------------- *)
AllDone == \A i \in options.items : i \in DOMAIN status /\ status[i] = "done"

\* All documents are done only when each one's own timer of the present run has fired, or
\* the preference is not to animate; a disabled queue is never done.
DoneIsEarned ==
  ~stale /\ AllDone /\ options.items # {} =>
    options.enabled /\ (options.reduced \/ fired = options.items)
=============================================================================
