--------------------------- MODULE ReconnectDialog ---------------------------
(***************************************************************************)
(* Components/Layout/ReconnectModal.razor.js: the dialog of a Blazor page  *)
(* whose circuit is lost or paused, its two buttons, and the listener that *)
(* tries again when the user comes back to the page.                       *)
(*                                                                         *)
(* Blazor and the server are external: they raise the events the script    *)
(* handles and answer Blazor.reconnect and Blazor.resumeCircuit, which a   *)
(* retry awaits while the user, other retries and Blazor's own attempts go *)
(* on.  An answer and what the script does with it are one step: the       *)
(* continuations of an await run before the browser's next event.          *)
(***************************************************************************)
EXTENDS Naturals

CONSTANT MaxCalls    \* bound: awaited calls of one kind

ASSUME CallsAssumption == MaxCalls \in Nat \ {0}

VARIABLES
    page,       \* "open", or "reloaded": it starts anew with a circuit of its own
    dialog,     \* reconnectModal is open
    class,      \* components-reconnect-<class> of the dialog, set by Blazor
    armed,      \* retryWhenDocumentBecomesVisible is registered (at most once)
    awaiting,   \* calls not answered: reconnect and resumeCircuit of retry, and
                \* resumeCircuit of resume
    auto,       \* Blazor's own attempts to reconnect are going on
    circuit,    \* "live", or what the server keeps of it
    up          \* the server can be reached

script == <<page, dialog, class, armed, awaiting>>
vars == <<page, dialog, class, armed, awaiting, auto, circuit, up>>

Calls == {"reconnect", "resume", "button"}

TypeOK ==
    /\ page \in {"open", "reloaded"}
    /\ dialog \in BOOLEAN
    /\ class \in {"hide", "show", "failed", "paused", "resume-failed"}
    /\ armed \in BOOLEAN
    /\ awaiting \in [Calls -> 0 .. MaxCalls]
    /\ auto \in BOOLEAN
    /\ circuit \in {"live", "held", "stored", "gone"}
    /\ up \in BOOLEAN

Init ==
    /\ page = "open"
    /\ dialog = FALSE
    /\ class = "hide"
    /\ armed = FALSE
    /\ awaiting = [c \in Calls |-> 0]
    /\ auto = FALSE
    /\ circuit = "live"
    /\ up = TRUE

-------------------------------------------------------------------------------
\* handleReconnectStateChanged
ShowEvent(how) == dialog' = TRUE /\ class' = how /\ UNCHANGED <<page, armed>>

\* Variant, to be rejected: the dialog is left open.
HideIgnored == class' = "hide" /\ UNCHANGED <<page, dialog, armed>>

HideEvent == dialog' = FALSE /\ class' = "hide" /\ UNCHANGED <<page, armed>>

FailedEvent == armed' = TRUE /\ class' = "failed" /\ UNCHANGED <<page, dialog>>

Reload == page' = "reloaded" /\ UNCHANGED <<dialog, class, armed>>

Calling(c) == awaiting[c] < MaxCalls /\ awaiting' = [awaiting EXCEPT ![c] = @ + 1]

Answered(c) == awaiting[c] > 0 /\ awaiting' = [awaiting EXCEPT ![c] = @ - 1]

\* Blazor has the circuit back: its own attempts end, the dialog is hidden.
Back == circuit' = "live" /\ auto' = FALSE /\ HideEvent

-------------------------------------------------------------------------------
\* retry, up to its first await: by the button, which shows after a failure, or
\* by the listener when the page becomes visible.
retry == armed' = FALSE /\ Calling("reconnect") /\ UNCHANGED <<page, dialog, class, auto, circuit, up>>

RetryClicked == page = "open" /\ dialog /\ class = "failed" /\ retry

BecomesVisible == page = "open" /\ armed /\ retry

ReconnectSucceeds ==
    /\ page = "open" /\ up /\ circuit \in {"live", "held"}
    /\ Answered("reconnect")
    /\ Back
    /\ UNCHANGED up

\* The server was reached and does not have the circuit: resume what it stored.
ReconnectRefused ==
    /\ page = "open" /\ up /\ circuit \in {"stored", "gone"}
    /\ awaiting["reconnect"] > 0 /\ awaiting["resume"] < MaxCalls
    /\ awaiting' = [awaiting EXCEPT !["reconnect"] = @ - 1, !["resume"] = @ + 1]
    /\ UNCHANGED <<page, dialog, class, armed, auto, circuit, up>>

RetryResumes ==
    /\ page = "open" /\ up /\ circuit # "gone"
    /\ Answered("resume")
    /\ Back
    /\ UNCHANGED up

\* Variant, to be rejected: a lost circuit is asked for again, later.
AsksAgain ==
    /\ page = "open" /\ up /\ circuit = "gone"
    /\ Answered("resume")
    /\ armed' = TRUE
    /\ UNCHANGED <<page, dialog, class, auto, circuit, up>>

RetryNotResumed ==
    /\ page = "open" /\ up /\ circuit = "gone"
    /\ Answered("resume")
    /\ Reload
    /\ UNCHANGED <<auto, circuit, up>>

\* Variant, to be rejected: the exception is caught and nothing else is done.
NotRearmed ==
    /\ page = "open" /\ ~ up
    /\ Answered("reconnect") \/ Answered("resume")
    /\ UNCHANGED <<page, dialog, class, armed, auto, circuit, up>>

\* Either call throws: the server is unavailable, try again later.
RetryThrows ==
    /\ page = "open" /\ ~ up
    /\ Answered("reconnect") \/ Answered("resume")
    /\ armed' = TRUE
    /\ UNCHANGED <<page, dialog, class, auto, circuit, up>>

-------------------------------------------------------------------------------
\* resume, by the button that a paused session shows.
ResumeClicked ==
    /\ page = "open" /\ dialog /\ class \in {"paused", "resume-failed"}
    /\ Calling("button")
    /\ UNCHANGED <<page, dialog, class, armed, auto, circuit, up>>

ResumeAnswered ==
    /\ page = "open" /\ up
    /\ Answered("button")
    /\ \/ circuit # "gone" /\ Back
       \/ circuit = "gone" /\ Reload /\ UNCHANGED <<auto, circuit>>
    /\ UNCHANGED up

\* Variant, to be rejected: classList.replace with a class the page does not know.
MisspelledClass ==
    /\ page = "open" /\ ~ up
    /\ Answered("button")
    /\ class' = IF class = "paused" THEN "resumefailed" ELSE class
    /\ UNCHANGED <<page, dialog, armed, auto, circuit, up>>

\* classList.replace does nothing when the dialog is not marked as paused.
ResumeThrows ==
    /\ page = "open" /\ ~ up
    /\ Answered("button")
    /\ class' = IF class = "paused" THEN "resume-failed" ELSE class
    /\ UNCHANGED <<page, dialog, armed, auto, circuit, up>>

-------------------------------------------------------------------------------
\* The connection breaks, because of the server or on the way to it.
ConnectionLost ==
    /\ page = "open" /\ circuit = "live"
    /\ circuit' = "held" /\ auto' = TRUE /\ up' \in BOOLEAN
    /\ ShowEvent("show")
    /\ UNCHANGED awaiting

PausedByServer ==
    /\ page = "open" /\ circuit = "live"
    /\ circuit' = "stored"
    /\ ShowEvent("paused")
    /\ UNCHANGED <<awaiting, auto, up>>

AutoReconnects ==
    /\ page = "open" /\ auto /\ up /\ circuit \in {"held", "stored"}
    /\ Back
    /\ UNCHANGED <<awaiting, up>>

AutoFails ==
    /\ page = "open" /\ auto /\ ~ up
    /\ auto' = FALSE
    /\ FailedEvent
    /\ UNCHANGED <<awaiting, circuit, up>>

\* "rejected"
AutoRejected ==
    /\ page = "open" /\ auto /\ up /\ circuit \in {"stored", "gone"}
    /\ Reload
    /\ UNCHANGED <<awaiting, auto, circuit, up>>

\* The server keeps a lost circuit for a while, then perhaps its state, or it
\* restarts; and it can be reached again, or not.
ServerForgets ==
    /\ \/ circuit = "held" /\ circuit' \in {"stored", "gone"}
       \/ circuit = "stored" /\ circuit' = "gone"
    /\ UNCHANGED <<page, dialog, class, armed, awaiting, auto, up>>

Reachability ==
    /\ circuit # "live"
    /\ up' = ~ up
    /\ UNCHANGED <<page, dialog, class, armed, awaiting, auto, circuit>>

-------------------------------------------------------------------------------
ReconnectAnswers == ReconnectSucceeds \/ ReconnectRefused \/ RetryThrows
ResumeAnswers == RetryResumes \/ RetryNotResumed \/ RetryThrows
AutoEnds == AutoReconnects \/ AutoFails \/ AutoRejected

Next ==
    \/ RetryClicked \/ BecomesVisible
    \/ ReconnectSucceeds \/ ReconnectRefused \/ RetryResumes \/ RetryNotResumed \/ RetryThrows
    \/ ResumeClicked \/ ResumeAnswered \/ ResumeThrows
    \/ ConnectionLost \/ PausedByServer \/ AutoEnds
    \/ ServerForgets \/ Reachability

Spec == Init /\ [][Next]_vars

\* Calls are answered or time out, Blazor's attempts are limited in number, and
\* the user comes back to the page.  Nobody has to press a button.
FairSpec ==
    /\ Spec
    /\ WF_vars(ReconnectAnswers)
    /\ WF_vars(ResumeAnswers)
    /\ WF_vars(AutoEnds)
    /\ WF_vars(BecomesVisible)

-------------------------------------------------------------------------------
Waiting == page = "open" /\ circuit # "live"

\* Whatever retries overlap and fail, a page that has lost its circuit has
\* somebody at work on it or listens for the user; a paused one has its button.
NeverStranded ==
    Waiting =>
        CASE class = "show" -> dialog /\ auto
          [] class = "failed" -> armed \/ awaiting["reconnect"] > 0 \/ awaiting["resume"] > 0
          [] class \in {"paused", "resume-failed"} -> dialog
          [] OTHER -> FALSE

\* The dialog covers the page while there is no circuit, and only then: nobody
\* types into a dead page, and no late answer leaves the dialog over a live one.
DialogShowsLoss == page = "open" => (dialog <=> circuit # "live")

\* Once the server stays reachable, a page that lost its connection gets its
\* circuit back or is reloaded, though nobody presses a button.
Recovers ==
    <>[]up => ((Waiting /\ class \in {"show", "failed"}) ~> ~ Waiting)
===============================================================================
