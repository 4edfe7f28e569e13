----------------------------- MODULE ReplyDialog -----------------------------
(***************************************************************************)
(* The reply dialog of the inbox page, in one operator's browser, and the     *)
(* requests of WebReply that it sends.  The page keeps one dialog and one     *)
(* Graph message for all its rows, and the dialog one editor: opening a row   *)
(* asks for its message, and whatever answer comes is put on show and seeds   *)
(* the editor, whichever row is open by then.                                *)
(***************************************************************************)
EXTENDS WebReply

CONSTANTS
    MaxOpens     \* bound: times a dialog is opened

ASSUME DialogAssumption ==
    /\ MaxOpens \in Nat
    /\ OtherOwners = {}
    /\ "failed" \notin Msgs \cup {None}
    /\ None \notin Msgs \X (Msgs \cup {"failed"})

VARIABLES
    dlg,       \* the row whose dialog is open, None if none is (dlg)
    shown,     \* the message on show: None while it loads, "failed", or a row's (graphMsg)
    fetching,  \* fetching[m]: requests for m's message that are under way
    seeded,    \* what the editor was filled for: dialog and message (lastSeedKey)
    quote,     \* the message quoted in the editor, None if none is
    text,      \* the rows in whose dialogs the text in the editor was typed
    sending,   \* the flag that disables the two Send buttons and Cancel
    waiting,   \* requests whose answer the browser waits for
    listing,   \* requests that are answered, and for which the list is loaded anew (onSent)
    body,      \* body[q]: what request q carries, None unless the browser waits for it
    opens      \* dialogs opened so far

editorVars == <<seeded, quote, text>>
pageVars == <<dlg, shown, fetching, opens>>
postVars == <<sending, waiting, listing, body>>
vars == <<webVars, pageVars, editorVars, postVars>>

Body == [click: BOOLEAN, quote: Msgs \cup {None}, text: SUBSET Msgs]

TypeOK ==
    /\ WebTypeOK
    /\ dlg \in Msgs \cup {None}
    /\ shown \in Msgs \cup {None, "failed"}
    /\ fetching \in [Msgs -> Nat]
    /\ seeded \in (Msgs \X (Msgs \cup {"failed"})) \cup {None}
    /\ quote \in Msgs \cup {None}
    /\ text \subseteq Msgs
    /\ sending \in BOOLEAN
    /\ waiting \subseteq Requests
    /\ listing \subseteq Requests
    /\ body \in [Requests -> Body \cup {None}]
    /\ opens \in Nat

Init ==
    /\ WebInit
    /\ success = {} /\ stamp = {} /\ mails = {} /\ out = <<>>
    /\ dlg = None
    /\ shown = None
    /\ fetching = [m \in Msgs |-> 0]
    /\ seeded = None
    /\ quote = None
    /\ text = {}
    /\ sending = FALSE
    /\ waiting = {}
    /\ listing = {}
    /\ body = [q \in Requests |-> None]
    /\ opens = 0

-----------------------------------------------------------------------------
(* The page.                                                                 *)

\* Reply is clicked in row m.  The dialog is modal: no row can be reached while it is
\* open.  The editor keeps its content until it is filled anew.
OpenReply(m) ==
    /\ dlg = None
    /\ opens < MaxOpens
    /\ opens' = opens + 1
    /\ dlg' = m
    /\ shown' = None
    /\ fetching' = [fetching EXCEPT ![m] = @ + 1]
    /\ UNCHANGED <<webVars, editorVars, postVars>>

\* (mutant) A message that could not be loaded leaves the editor as it was.
SeedMessage(msg) ==
    IF dlg = None \/ seeded = <<dlg, msg>> \/ msg = "failed"
    THEN UNCHANGED editorVars
    ELSE seeded' = <<dlg, msg>> /\ text' = {} /\ quote' = msg

\* The effect that follows a new message: unless the editor was filled for the same
\* dialog and message already, its content is replaced, by an empty one for a failure.
Seed(msg) ==
    IF dlg = None \/ seeded = <<dlg, msg>>
    THEN UNCHANGED editorVars
    ELSE /\ seeded' = <<dlg, msg>>
         /\ text' = {}
         /\ quote' = IF msg = "failed" THEN None ELSE msg

\* (mutant) openReply without its catch: a failure shows nothing.
GraphMessageUncaught(m) ==
    /\ fetching[m] > 0
    /\ fetching' = [fetching EXCEPT ![m] = @ - 1]
    /\ \/ shown' = m /\ Seed(m)
       \/ Faults # {} /\ UNCHANGED <<shown, editorVars>>
    /\ UNCHANGED <<webVars, dlg, opens, postVars>>

\* The answer to a request for m's message: the message, or a failure of Postgres, of
\* Graph or of the way here.
GraphMessage(m) ==
    /\ fetching[m] > 0
    /\ fetching' = [fetching EXCEPT ![m] = @ - 1]
    /\ \E msg \in {m} \cup (IF Faults = {} THEN {} ELSE {"failed"}) :
        /\ shown' = msg
        /\ Seed(msg)
    /\ UNCHANGED <<webVars, dlg, opens, postVars>>

\* The operator types.  The editor is on the screen once a message is.
Type ==
    /\ dlg # None
    /\ shown # None
    /\ text' = text \cup {dlg}
    /\ UNCHANGED <<webVars, pageVars, seeded, quote, postVars>>

\* onClose of the dialog, and the effect that follows it.
Closed ==
    /\ dlg' = None
    /\ shown' = None
    /\ seeded' = None
    /\ sending' = FALSE

\* Escape or a click beside the dialog, at any time; Cancel, while nothing is sent.
Close ==
    /\ dlg # None
    /\ Closed
    /\ UNCHANGED <<webVars, fetching, opens, quote, text, waiting, listing, body>>

\* handleSend: whatever the editor holds goes out as a reply to the open row, if there
\* is any text in it; a quotation is text.
HandleSend(q, click) ==
    /\ dlg # None
    /\ text # {} \/ quote # None
    /\ Post(q, dlg)
    /\ sending' = TRUE
    /\ waiting' = waiting \cup {q}
    /\ body' = [body EXCEPT ![q] = [click |-> click, quote |-> quote, text |-> text]]
    /\ UNCHANGED <<pageVars, editorVars, listing>>

\* One of the two Send buttons.
ClickSend(q) ==
    /\ ~sending
    /\ shown # None
    /\ HandleSend(q, TRUE)

\* Ctrl+Enter, which asks neither.
KeySend(q) == HandleSend(q, FALSE)

\* (mutant) handleSend without its finally.
AnswerWithoutFinally(q) ==
    /\ q \in waiting
    /\ waiting' = waiting \ {q}
    /\ \/ pc[q] = "ok" /\ Closed
       \/ /\ pc[q] = "error" \/ "network" \in Faults
          /\ UNCHANGED <<sending, dlg, shown, seeded>>
    /\ body' = [body EXCEPT ![q] = None]
    /\ UNCHANGED <<webVars, fetching, opens, quote, text, listing>>

\* The answer to request q.  A success closes the dialog, whichever row it shows by now,
\* and loads the list of the page anew.
Answer(q) ==
    /\ q \in waiting
    /\ waiting' = waiting \ {q}
    /\ \/ /\ pc[q] = "ok"
          /\ Closed
          /\ listing' = listing \cup {q}
       \/ /\ pc[q] = "error" \/ "network" \in Faults
          /\ sending' = FALSE
          /\ UNCHANGED <<dlg, shown, seeded, listing>>
    /\ body' = [body EXCEPT ![q] = None]
    /\ UNCHANGED <<webVars, fetching, opens, quote, text>>

\* The list has come or failed.  The flag is lowered once more, even if a dialog that was
\* opened since is at Sending.
Listed(q) ==
    /\ q \in listing
    /\ listing' = listing \ {q}
    /\ sending' = FALSE
    /\ UNCHANGED <<webVars, pageVars, editorVars, waiting, body>>

\* What goes on without the operator: the awaits of the server and of the page.
Progress ==
    \/ \E q \in Requests :
        \/ Handler(q) /\ UNCHANGED <<pageVars, editorVars, postVars>>
        \/ Answer(q)
        \/ Listed(q)
    \/ \E m \in Msgs : GraphMessage(m)

Next ==
    \/ Progress
    \/ ApiCrash /\ UNCHANGED <<pageVars, editorVars, postVars>>
    \/ \E m \in Msgs : OpenReply(m)
    \/ Type \/ Close
    \/ \E q \in Requests : ClickSend(q) \/ KeySend(q)

Spec == Init /\ [][Next]_vars

\* An await that can end does, one after the other: Node and the browser run every
\* callback that is ready, and fetch ends with an answer or an error.
FairSpec == Spec /\ WF_vars(Progress)

-----------------------------------------------------------------------------
(* Properties.                                                               *)

\* What a click on Send sends off was typed in the dialog of the row it answers: the
\* editor outlives the dialog, and only the fill that comes with the message, even with
\* one that could not be loaded, keeps a draft for one person from going to another
\* (ReplyComposerDialog.tsx:357-367, 462; Ctrl+Enter gives no such promise).
ClickSendsOwnText ==
    \A q \in Requests : body[q] # None /\ body[q].click => body[q].text \subseteq {about[q]}

\* The dialog does not stay at Sending, whatever fails (ReplyComposerDialog.tsx:417-421).
SendingEnds == sending ~> ~sending

\* A dialog that is open gets an editor at last, though the message may be lost or come
\* late (InboxPage.tsx:138-143).
EditorComes == dlg # None /\ shown = None ~> dlg = None \/ shown # None

=============================================================================
