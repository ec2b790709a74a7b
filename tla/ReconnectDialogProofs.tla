------------------------- MODULE ReconnectDialogProofs -------------------------
(***************************************************************************)
(* The safety of the reconnect dialog, for any number of overlapping calls *)
(* of Blazor.reconnect and Blazor.resumeCircuit.                           *)
(***************************************************************************)
EXTENDS ReconnectDialog, TLAPS

\* Blazor does not go on trying once the circuit is back.  With the two
\* invariants of the dialog this is inductive: an event of a lost connection
\* finds neither attempts of an earlier one nor a dialog that is open.
NoAttemptsWhenLive == circuit = "live" => ~ auto

Inv ==
    /\ TypeOK
    /\ NeverStranded
    /\ DialogShowsLoss
    /\ NoAttemptsWhenLive

\* Every answer takes one awaited call away; a refused reconnection makes
\* another one of it.
LEMMA Counters ==
    ASSUME TypeOK, NEW c \in Calls
    PROVE  /\ awaiting[c] \in 0 .. MaxCalls
           /\ Answered(c) => /\ awaiting' \in [Calls -> 0 .. MaxCalls]
                             /\ \A d \in Calls \ {c} : awaiting'[d] = awaiting[d]
                             /\ awaiting[c] > 0 /\ awaiting'[c] = awaiting[c] - 1
           /\ Calling(c) => /\ awaiting' \in [Calls -> 0 .. MaxCalls]
                            /\ \A d \in Calls \ {c} : awaiting'[d] = awaiting[d]
                            /\ awaiting'[c] = awaiting[c] + 1
<1> USE CallsAssumption
<1>1. awaiting \in [Calls -> 0 .. MaxCalls]
  BY DEF TypeOK
<1> QED BY <1>1 DEF Answered, Calling

LEMMA InitInv == Init => Inv
<1> SUFFICES ASSUME Init PROVE Inv
  OBVIOUS
<1>1. 0 \in 0 .. MaxCalls
  BY CallsAssumption
<1>2. awaiting \in [Calls -> 0 .. MaxCalls]
  BY <1>1, Zenon DEF Init
<1>3. TypeOK
  BY <1>2 DEF Init, TypeOK
<1> QED BY <1>3 DEF Init, Inv, NeverStranded, Waiting, DialogShowsLoss, NoAttemptsWhenLive

\* The circuit is live again: the dialog is closed.
LEMMA BackKeeps ==
    ASSUME Inv, Back, awaiting' \in [Calls -> 0 .. MaxCalls], up' \in BOOLEAN
    PROVE  Inv'
<1>1. TypeOK'
  BY DEF Inv, TypeOK, Back, HideEvent
<1>2. circuit' = "live" /\ ~ auto' /\ ~ dialog'
  BY DEF Back, HideEvent
<1> QED BY <1>1, <1>2 DEF Inv, NeverStranded, Waiting, DialogShowsLoss, NoAttemptsWhenLive

\* The page is reloaded: what becomes of it is another page's story.
LEMMA ReloadKeeps ==
    ASSUME Inv, Reload, awaiting' \in [Calls -> 0 .. MaxCalls],
           UNCHANGED <<auto, circuit, up>>
    PROVE  Inv'
<1>1. TypeOK'
  BY DEF Inv, TypeOK, Reload
<1> QED BY <1>1 DEF Inv, Reload, NeverStranded, Waiting, DialogShowsLoss, NoAttemptsWhenLive

LEMMA StepInv == Inv /\ [Next]_vars => Inv'
<1> SUFFICES ASSUME Inv, [Next]_vars PROVE Inv'
  OBVIOUS
<1> USE CallsAssumption
<1>t. TypeOK
  BY DEF Inv
<1>u. "reconnect" \in Calls /\ "resume" \in Calls /\ "button" \in Calls
  BY DEF Calls
<1> DEFINE Rest == DialogShowsLoss' /\ NoAttemptsWhenLive'
<1>1. CASE retry
  <2>1. awaiting' \in [Calls -> 0 .. MaxCalls] /\ awaiting'["reconnect"] > 0
    BY <1>1, <1>t, <1>u, Counters DEF retry
  <2>2. awaiting["reconnect"] \in Nat
    BY <1>t, <1>u, Counters
  <2>3. TypeOK'
    BY <1>1, <1>t, <2>1 DEF retry, TypeOK
  <2>4. NeverStranded'
    BY <1>1, <2>1 DEF Inv, retry, NeverStranded, Waiting
  <2>5. Rest
    BY <1>1 DEF Inv, retry, DialogShowsLoss, NoAttemptsWhenLive
  <2> QED BY <2>3, <2>4, <2>5 DEF Inv
<1>2. CASE ReconnectSucceeds
  BY <1>2, <1>t, <1>u, Counters, BackKeeps DEF ReconnectSucceeds, TypeOK
<1>3. CASE ReconnectRefused
  <2>1. awaiting \in [Calls -> 0 .. MaxCalls]
    BY <1>t DEF TypeOK
  <2>2. /\ awaiting' \in [Calls -> 0 .. MaxCalls]
        /\ awaiting'["resume"] = awaiting["resume"] + 1
    BY <1>3, <1>u, <2>1 DEF ReconnectRefused
  <2>3. awaiting["resume"] \in Nat /\ awaiting'["resume"] > 0
    BY <1>u, <2>1, <2>2
  <2>4. TypeOK'
    BY <1>3, <1>t, <2>2 DEF ReconnectRefused, TypeOK
  <2>5. NeverStranded'
    BY <1>3, <2>3 DEF Inv, ReconnectRefused, NeverStranded, Waiting
  <2>6. Rest
    BY <1>3 DEF Inv, ReconnectRefused, DialogShowsLoss, NoAttemptsWhenLive
  <2> QED BY <2>4, <2>5, <2>6 DEF Inv
<1>4. CASE RetryResumes
  BY <1>4, <1>t, <1>u, Counters, BackKeeps DEF RetryResumes, TypeOK
<1>5. CASE RetryNotResumed
  BY <1>5, <1>t, <1>u, Counters, ReloadKeeps DEF RetryNotResumed
<1>6. CASE RetryThrows
  <2>1. awaiting' \in [Calls -> 0 .. MaxCalls]
    BY <1>6, <1>t, <1>u, Counters DEF RetryThrows
  <2>2. TypeOK'
    BY <1>6, <1>t, <2>1 DEF RetryThrows, TypeOK
  <2>3. NeverStranded'
    BY <1>6 DEF Inv, RetryThrows, NeverStranded, Waiting
  <2>4. Rest
    BY <1>6 DEF Inv, RetryThrows, DialogShowsLoss, NoAttemptsWhenLive
  <2> QED BY <2>2, <2>3, <2>4 DEF Inv
<1>7. ASSUME awaiting' \in [Calls -> 0 .. MaxCalls],
             \A d \in {"reconnect", "resume"} : awaiting'[d] = awaiting[d],
             class' \in {class, "resume-failed"}, class' = class \/ class = "paused",
             up' \in BOOLEAN, UNCHANGED <<page, dialog, armed, auto, circuit>>
      PROVE  Inv'
  <2>1. TypeOK'
    BY <1>7, <1>t DEF TypeOK
  <2>2. NeverStranded'
    BY <1>7 DEF Inv, NeverStranded, Waiting
  <2>3. Rest
    BY <1>7 DEF Inv, DialogShowsLoss, NoAttemptsWhenLive
  <2> QED BY <2>1, <2>2, <2>3 DEF Inv
<1>8. CASE ResumeClicked
  <2>1. /\ awaiting' \in [Calls -> 0 .. MaxCalls]
        /\ \A d \in {"reconnect", "resume"} : awaiting'[d] = awaiting[d]
    BY <1>8, <1>t, <1>u, Counters DEF ResumeClicked, Calls
  <2> QED BY <1>7, <1>8, <1>t, <2>1 DEF ResumeClicked, TypeOK
<1>9. CASE ResumeAnswered
  <2>1. awaiting' \in [Calls -> 0 .. MaxCalls] /\ up' \in BOOLEAN
    BY <1>9, <1>t, <1>u, Counters DEF ResumeAnswered, TypeOK
  <2>2. CASE Back
    BY <2>1, <2>2, BackKeeps
  <2>3. CASE Reload /\ UNCHANGED <<auto, circuit, up>>
    BY <2>1, <2>3, ReloadKeeps
  <2> QED BY <1>9, <2>2, <2>3 DEF ResumeAnswered
<1>10. CASE ResumeThrows
  <2>1. /\ awaiting' \in [Calls -> 0 .. MaxCalls]
        /\ \A d \in {"reconnect", "resume"} : awaiting'[d] = awaiting[d]
    BY <1>10, <1>t, <1>u, Counters DEF ResumeThrows, Calls
  <2> QED BY <1>7, <1>10, <1>t, <2>1 DEF ResumeThrows, TypeOK
<1>11. CASE ConnectionLost
  <2>1. TypeOK'
    BY <1>11, <1>t DEF ConnectionLost, ShowEvent, TypeOK
  <2> QED BY <1>11, <2>1 DEF Inv, ConnectionLost, ShowEvent, NeverStranded, Waiting,
             DialogShowsLoss, NoAttemptsWhenLive
<1>12. CASE PausedByServer
  <2>1. TypeOK'
    BY <1>12, <1>t DEF PausedByServer, ShowEvent, TypeOK
  <2> QED BY <1>12, <2>1 DEF Inv, PausedByServer, ShowEvent, NeverStranded, Waiting,
             DialogShowsLoss, NoAttemptsWhenLive
<1>13. CASE AutoReconnects
  BY <1>13, <1>t, BackKeeps DEF AutoReconnects, TypeOK
<1>14. CASE AutoFails
  <2>1. TypeOK'
    BY <1>14, <1>t DEF AutoFails, FailedEvent, TypeOK
  <2> QED BY <1>14, <2>1 DEF Inv, AutoFails, FailedEvent, NeverStranded, Waiting,
             DialogShowsLoss, NoAttemptsWhenLive
<1>15. CASE AutoRejected
  BY <1>15, <1>t, ReloadKeeps DEF AutoRejected, TypeOK
<1>16. CASE ServerForgets
  <2>1. TypeOK'
    BY <1>16, <1>t DEF ServerForgets, TypeOK
  <2> QED BY <1>16, <2>1 DEF Inv, ServerForgets, NeverStranded, Waiting, DialogShowsLoss,
             NoAttemptsWhenLive
<1>17. CASE Reachability
  BY <1>7, <1>17, <1>t DEF Reachability, TypeOK
<1>18. CASE UNCHANGED vars
  BY <1>7, <1>18, <1>t DEF vars, TypeOK
<1> QED BY <1>1, <1>2, <1>3, <1>4, <1>5, <1>6, <1>8, <1>9, <1>10, <1>11, <1>12, <1>13, <1>14,
           <1>15, <1>16, <1>17, <1>18 DEF Next, AutoEnds, RetryClicked, BecomesVisible

LEMMA DialogInvariant == Spec => []Inv
BY InitInv, StepInv, PTL DEF Spec

\* What the script keeps is of its type: no more calls are awaited than were made.
THEOREM DialogIsTyped == Spec => []TypeOK
<1>1. Inv => TypeOK
  BY DEF Inv
<1> QED BY <1>1, DialogInvariant, PTL

\* A page that has lost its circuit is never left with nobody to get it back: Blazor
\* goes on trying, or an answer is awaited, or the page listens for the user, or it
\* shows the button to press.
THEOREM NobodyIsStranded == Spec => []NeverStranded
<1>1. Inv => NeverStranded
  BY DEF Inv
<1> QED BY <1>1, DialogInvariant, PTL

\* The dialog is open exactly while the circuit is lost.
THEOREM DialogTellsTheLoss == Spec => []DialogShowsLoss
<1>1. Inv => DialogShowsLoss
  BY DEF Inv
<1> QED BY <1>1, DialogInvariant, PTL
===============================================================================
