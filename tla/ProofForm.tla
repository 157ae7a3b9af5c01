------------------------------ MODULE ProofForm ------------------------------
(***************************************************************************)
(* The proof drawer (ProofForm, SessionProofDialog in AdminConsole.jsx):   *)
(* photos are uploaded one by one, then the proof is submitted; what was   *)
(* uploaded is kept for a retry, and discarded when a photo is removed or  *)
(* the form cancelled.  An answer may be lost after the API has acted.     *)
(*                                                                         *)
(* The drawer can be closed while a request runs; what the form had begun  *)
(* goes on without it.  Only one drawer is open at a time.                 *)
(***************************************************************************)
EXTENDS Naturals, FiniteSets

CONSTANTS
  Forms,      \* 1..n: the drawers opened one after the other
  Files,      \* photos a form may be given
  MaxCopies,  \* bound: how often a photo is uploaded
  MaxSpoils,  \* bound: requests that fail, or whose answers are lost
  MaxExpiries \* bound: staged uploads swept before they are used

VARIABLES
  drawer,    \* the form that is open, 0 for none
  stage,     \* of each form: "new", "open", "dismissed", "cancelled", "saved"
  chosen,    \* the photos in the form
  known,     \* uploadedPhotosRef: which upload of a photo the form knows, or 0
  pending,   \* pendingActionRef: what the form is doing, and the photos to do
  request,   \* the request under way: what, of which upload, answered or not
  copy,      \* media_uploads: the state of every upload
  accepted,  \* the submissions stored for a form: their photos, and those asked for
  intended,  \* the photos in the form when submit was pressed
  lost,      \* history: uploads whose answer never came
  gone       \* how much of the bounds is used

proofView == <<drawer, stage, chosen, known>>
proofFormVars == <<proofView, pending, request, copy, accepted, intended, lost, gone>>

Uploads(f) == {f} \X Files \X (1..MaxCopies)
NoRequest == [op |-> "none", file |-> 0, upload |-> 0, answer |-> "none"]
Quiet == [kind |-> "none", todo |-> {}]

\* Forms are numbered from 1: 0 is none.
ASSUME ProofFormAssumption == 0 \notin Forms /\ MaxCopies \in Nat

ProofFormTypeOK ==
  /\ drawer \in Forms \cup {0}
  /\ \A f \in Forms : /\ stage[f] \in {"new", "open", "dismissed", "cancelled", "saved"}
                      /\ chosen[f] \subseteq Files /\ pending[f].todo \subseteq Files
                      /\ stage[f] = "open" <=> drawer = f
                      /\ request[f].op # "none" => pending[f].kind # "none"

ProofFormInit ==
  /\ drawer = 0 /\ stage = [f \in Forms |-> "new"]
  /\ chosen = [f \in Forms |-> {}] /\ known = [f \in Forms |-> [p \in Files |-> 0]]
  /\ pending = [f \in Forms |-> Quiet] /\ request = [f \in Forms |-> NoRequest]
  /\ copy = [f \in Forms |-> [p \in Files |-> [n \in 1..MaxCopies |-> "none"]]]
  /\ accepted = [f \in Forms |-> {}] /\ intended = [f \in Forms |-> {}]
  /\ lost = {} /\ gone = [losses |-> 0, expiries |-> 0]

-----------------------------------------------------------------------------
(***************************************************************************)
(* Opening and closing the drawer, choosing photos.                        *)
(***************************************************************************)
OpenProof(f) ==
  /\ drawer = 0 /\ stage[f] = "new" /\ \A g \in Forms : g < f => stage[g] # "new"
  /\ drawer' = f /\ stage' = [stage EXCEPT ![f] = "open"]
  /\ UNCHANGED <<chosen, known, pending, request, copy, accepted, intended, lost, gone>>
\* Escape, the close button, a click beside the drawer: at any time.
Dismiss ==
  /\ drawer # 0 /\ drawer' = 0 /\ stage' = [stage EXCEPT ![drawer] = "dismissed"]
  /\ UNCHANGED <<chosen, known, pending, request, copy, accepted, intended, lost, gone>>
Free(f) == drawer = f /\ pending[f].kind = "none"
ChoosePhoto(f, p) ==
  /\ Free(f) /\ chosen' = [chosen EXCEPT ![f] = @ \cup {p}]
  /\ UNCHANGED <<drawer, stage, known, pending, request, copy, accepted, intended, lost, gone>>

-----------------------------------------------------------------------------
(***************************************************************************)
(* The three actions of the form; beginAction lets one run at a time.      *)
(***************************************************************************)
ToUpload(f) == {p \in chosen[f] : known[f][p] = 0}
ToDiscard(f) == {p \in Files : known[f][p] # 0}
BeginAction(f, kind, todo) ==
  /\ Free(f) /\ pending' = [pending EXCEPT ![f] = [kind |-> kind, todo |-> todo]]
  /\ UNCHANGED <<proofView, request, copy, accepted, lost, gone>>
PressSubmit(f) ==
  /\ chosen[f] # {} /\ BeginAction(f, "submit", ToUpload(f))
  /\ intended' = [intended EXCEPT ![f] = chosen[f]]
\* onCancel, onSaved: the drawer is closed, whichever form it shows.
Ended(f, how) ==
  /\ drawer' = 0 /\ pending' = [pending EXCEPT ![f] = Quiet]
  /\ stage' = [g \in Forms |-> IF g = f /\ (stage[f] = "open" \/ how = "saved") THEN how
                               ELSE IF g = drawer THEN "dismissed" ELSE stage[g]]
\* A photo that was not uploaded leaves the form at once, and a form with no
\* uploads is cancelled at once.
Without(f, p) == chosen[f] \ {p}
PressRemove(f, p) ==
  /\ p \in chosen[f] /\ Free(f)
  /\ IF known[f][p] # 0 THEN BeginAction(f, "remove", {p}) /\ UNCHANGED intended
     ELSE /\ chosen' = [chosen EXCEPT ![f] = Without(f, p)]
          /\ UNCHANGED <<drawer, stage, known, pending, request, copy, accepted, intended, lost, gone>>
PressCancel(f) ==
  /\ Free(f)
  /\ IF ToDiscard(f) # {} THEN BeginAction(f, "cancel", ToDiscard(f)) /\ UNCHANGED intended
     ELSE /\ Ended(f, "cancelled")
          /\ UNCHANGED <<chosen, known, request, copy, accepted, intended, lost, gone>>

\* The requests of an action, one after the other.
BetweenRequests(f) == pending[f].kind # "none" /\ request[f].op = "none"
SendRequest(f, op, p) ==
  /\ request' = [request EXCEPT ![f] = [op |-> op, file |-> p, answer |-> "none",
                    upload |-> IF op \in {"upload", "submit"} THEN 0 ELSE known[f][p]]]
  /\ UNCHANGED <<proofView, pending, copy, accepted, intended, lost, gone>>
SendUpload(f, p) == BetweenRequests(f) /\ pending[f].kind = "submit" /\ p \in pending[f].todo
                    /\ SendRequest(f, "upload", p)
SendDiscard(f, p) == /\ BetweenRequests(f) /\ pending[f].kind \in {"remove", "cancel"}
                     /\ p \in pending[f].todo /\ SendRequest(f, "discard", p)
SendProof(f) == /\ BetweenRequests(f) /\ pending[f].kind = "submit" /\ pending[f].todo = {}
                /\ SendRequest(f, "submit", 0)

-----------------------------------------------------------------------------
(***************************************************************************)
(* The API.                                                                *)
(***************************************************************************)
Answer(f, answer, upload) ==
  request' = [request EXCEPT ![f] = [op |-> request[f].op, file |-> request[f].file,
                                     upload |-> upload, answer |-> answer]]
StoreUpload(f) ==
  LET p == request[f].file IN
  /\ request[f].op = "upload" /\ request[f].answer = "none"
  /\ \E n \in 1..MaxCopies :
       /\ copy[f][p][n] = "none" /\ \A m \in 1..(n - 1) : copy[f][p][m] # "none"
       /\ copy' = [copy EXCEPT ![f][p][n] = "staged"] /\ Answer(f, "ok", n)
  /\ UNCHANGED <<proofView, pending, accepted, intended, lost, gone>>
DiscardUpload(f) ==
  LET p == request[f].file  n == request[f].upload IN
  /\ request[f].op = "discard" /\ request[f].answer = "none"
  /\ IF copy[f][p][n] = "staged"
     THEN copy' = [copy EXCEPT ![f][p][n] = "gone"] /\ Answer(f, "ok", n)
     ELSE Answer(f, "refused", n) /\ UNCHANGED copy
  /\ UNCHANGED <<proofView, pending, accepted, intended, lost, gone>>

\* The uploads in the request; each must be staged when it is attached.
Photos(f) == {p \in intended[f] : known[f][p] # 0}
Attachable(f, p) == copy[f][p][known[f][p]] = "staged"
StoreProof(f) ==
  /\ request[f].op = "submit" /\ request[f].answer = "none"
  /\ IF \A p \in Photos(f) : Attachable(f, p)
     THEN /\ copy' = [copy EXCEPT ![f] = [p \in Files |-> [n \in 1..MaxCopies |->
                        IF p \in Photos(f) /\ n = known[f][p] THEN "attached" ELSE @[p][n]]]]
          /\ accepted' = [accepted EXCEPT ![f] = @ \cup
                 {[nr |-> Cardinality(@) + 1, asked |-> intended[f],
                   photos |-> {<<p, known[f][p]>> : p \in Photos(f)}]}]
          /\ Answer(f, "ok", 0)
     ELSE Answer(f, "refused", 0) /\ UNCHANGED <<copy, accepted>>
  /\ UNCHANGED <<proofView, pending, intended, lost, gone>>

\* The request fails on its way, is refused for another reason, or its answer
\* is lost.
Spoil(f) ==
  /\ request[f].op # "none" /\ request[f].answer \in {"none", "ok"}
  /\ gone.losses < MaxSpoils /\ gone' = [gone EXCEPT !.losses = @ + 1]
  /\ request' = [request EXCEPT ![f].answer = "refused"]
  /\ lost' = IF request[f].op = "upload" /\ request[f].answer = "ok"
             THEN lost \cup {<<f, request[f].file, request[f].upload>>} ELSE lost
  /\ UNCHANGED <<proofView, pending, copy, accepted, intended>>
\* cleanup-media.js
ExpireUpload(f, p, n) ==
  /\ copy[f][p][n] = "staged"
  /\ gone.expiries < MaxExpiries /\ gone' = [gone EXCEPT !.expiries = @ + 1]
  /\ copy' = [copy EXCEPT ![f][p][n] = "gone"]
  /\ UNCHANGED <<proofView, pending, request, accepted, intended, lost>>

-----------------------------------------------------------------------------
(***************************************************************************)
(* The answers.                                                            *)
(***************************************************************************)
ProofAnswered(f, op, answer) ==
  /\ request[f].op = op /\ request[f].answer = answer
  /\ request' = [request EXCEPT ![f] = NoRequest]
  /\ UNCHANGED <<copy, accepted, intended, lost, gone>>
Uploaded(f) ==
  /\ ProofAnswered(f, "upload", "ok")
  /\ known' = [known EXCEPT ![f][request[f].file] = request[f].upload]
  /\ pending' = [pending EXCEPT ![f].todo = @ \ {request[f].file}]
  /\ UNCHANGED <<drawer, stage, chosen>>
Discarded(f) ==
  LET p == request[f].file  left == pending[f].todo \ {p} IN
  /\ ProofAnswered(f, "discard", "ok") /\ known' = [known EXCEPT ![f][p] = 0]
  /\ chosen' = IF pending[f].kind = "remove" THEN [chosen EXCEPT ![f] = Without(f, p)] ELSE chosen
  /\ IF left = {} /\ pending[f].kind = "cancel" THEN Ended(f, "cancelled")
     ELSE /\ pending' = [pending EXCEPT ![f] =
                            IF left = {} THEN Quiet ELSE [@ EXCEPT !.todo = left]]
          /\ UNCHANGED <<drawer, stage>>
Saved(f) ==
  /\ ProofAnswered(f, "submit", "ok") /\ Ended(f, "saved")
  /\ known' = [known EXCEPT ![f] = [p \in Files |-> 0]] /\ UNCHANGED chosen
\* Any refusal ends the action; what was uploaded is kept.
\* Faulty: a photo that cannot be uploaded is left out.
SkipFailed(f) ==
  \/ /\ ProofAnswered(f, "upload", "refused") /\ UNCHANGED proofView
     /\ pending' = [pending EXCEPT ![f].todo = @ \ {request[f].file}]
  \/ /\ \E op \in {"discard", "submit"} : ProofAnswered(f, op, "refused")
     /\ pending' = [pending EXCEPT ![f] = Quiet] /\ UNCHANGED proofView
ProofRefused(f) ==
  /\ \E op \in {"upload", "discard", "submit"} : ProofAnswered(f, op, "refused")
  /\ pending' = [pending EXCEPT ![f] = Quiet] /\ UNCHANGED proofView

ProofStep(f) ==
  \/ \E p \in Files : SendUpload(f, p) \/ SendDiscard(f, p)
  \/ SendProof(f) \/ StoreUpload(f) \/ DiscardUpload(f) \/ StoreProof(f)
  \/ Uploaded(f) \/ Discarded(f) \/ Saved(f) \/ ProofRefused(f)
ProofUser(f) ==
  \/ OpenProof(f) \/ PressSubmit(f) \/ PressCancel(f)
  \/ \E p \in Files : ChoosePhoto(f, p) \/ PressRemove(f, p)
ProofFormNext ==
  \/ \E f \in Forms : \/ ProofStep(f) \/ ProofUser(f) \/ Spoil(f)
                      \/ \E p \in Files, n \in 1..MaxCopies : ExpireUpload(f, p, n)
  \/ Dismiss
ProofFormSpec ==
  /\ ProofFormInit /\ [][ProofFormNext]_proofFormVars
  /\ \A f \in Forms : WF_proofFormVars(ProofStep(f))
\* An administrator who presses Cancel whenever it can be pressed.
CancellingSpec ==
  ProofFormSpec /\ \A f \in Forms : SF_proofFormVars(PressCancel(f))

-----------------------------------------------------------------------------
(***************************************************************************)
(* Properties.                                                             *)
(***************************************************************************)

\* A stored proof has every photo that was in the form when submit was pressed,
\* also after retries in which some photos had been uploaded before.
ProofIsWhole ==
  \A f \in Forms : \A s \in accepted[f] : {x[1] : x \in s.photos} = s.asked

\* A retry after a lost answer stores no second proof with the same photo.
PhotosAreUsedOnce ==
  \A f \in Forms : \A s, t \in accepted[f] : s # t => s.photos \cap t.photos = {}

\* Cancelling leaves no staged photo behind, but for those whose upload was
\* never answered (docs/ui-task-list.md:28).
CancelDiscards ==
  \A f \in Forms, p \in Files, n \in 1..MaxCopies :
    stage[f] = "cancelled" /\ copy[f][p][n] = "staged" => <<f, p, n>> \in lost

\* A photo of an upload that is still known has not been taken out of the form
\* unnoticed: it is shown, to be sent or discarded.
KnownIsShown ==
  \A f \in Forms, p \in Files : stage[f] = "open" /\ known[f][p] # 0 => p \in chosen[f]

\* No photo is lost, used twice or left behind.
PhotosAreKept ==
  ProofFormTypeOK /\ ProofIsWhole /\ PhotosAreUsedOnce /\ CancelDiscards /\ KnownIsShown

\* docs/ui-task-list.md:28, "keeps the drawer stable during proof entry": an
\* open form is closed by the person or by its own end, not by another form.
DrawerIsStable ==
  [][\A f \in Forms : drawer = f /\ drawer' # f =>
       stage'[f] # "dismissed" \/ Dismiss]_proofFormVars

\* "Try discard again before closing." (cancelProof): whoever cancels again and
\* again gets the form closed.
CancelEnds == \A f \in Forms : pending[f].kind = "cancel" ~> drawer # f
=============================================================================
