------------------------------ MODULE Composer ------------------------------
(***************************************************************************)
(* The dialog in which a topic is written, or edited                       *)
(* (components/community/create-topic-modal.tsx): its files, uploaded      *)
(* while it is filled in, its video, by file or by link, and the sending.  *)
(* The dialog may be closed and opened again while uploads, or what it     *)
(* sends, are under way.                                                   *)
(***************************************************************************)
EXTENDS FiniteSets, Naturals

CONSTANTS
  Image, Video,  \* files to choose, each chosen once
  Posts,         \* topics to edit, each as its set of attachments; None: a new topic
  Link,          \* the video that a link to Rutube becomes
  MaxImages,     \* MAX_IMAGES, and max_forum_images of the service
  Turns,         \* bound on what the user does
  None

VARIABLES
  post,        \* the attachments of the topic edited, or None
  open,        \* is the dialog open?
  drafts,      \* the files in the dialog
  video,       \* videoMode
  link,        \* is there a link in the field?
  uploads,     \* files being uploaded
  submitting,  \* is the button to send out of order?
  sends,       \* what has been sent off and is not answered
  showing,     \* the number of the dialog: how often it was opened
  chosen,      \* history: the dialog each file was chosen in
  taken,       \* history: attachments of the topic taken away in this dialog
  turns

dialog == <<open, drafts, video, link>>
vars == <<post, dialog, uploads, submitting, sends, showing, chosen, taken, turns>>

File == Image \cup Video
Draft == [key : File \cup {Link} \cup {d.key : d \in UNION (Posts \ {None})},
          kind : {"image", "video", "external_video"}, state : {"up", "ready", "error"}]

Images(ds) == {d \in ds : d.kind = "image"}

(* A topic has been stored within the limits of the service, which are     *)
(* those of the dialog (_ensure_forum_media), and none of its attachments  *)
(* is a file yet to be chosen.                                             *)
Stored(p) ==
  /\ IsFiniteSet(p) /\ Cardinality(Images(p)) <= MaxImages
  /\ \A d \in p : d \in Draft /\ d.state = "ready" /\ d.key \notin File
  /\ \A d, e \in p \ Images(p) : d = e

ComposerAssumption ==
  /\ MaxImages \in Nat /\ Turns \in Nat /\ IsFiniteSet(Image \cup Video)
  /\ None \notin File \cup {Link} \cup Nat /\ Link \notin File
  /\ \A p \in Posts \ {None} : Stored(p)
-----------------------------------------------------------------------------
Ready(ds) == {d \in ds : d.state = "ready"}
Standing(ds) == {d \in ds : d.state # "error"}
uploading == \E d \in drafts : d.state = "up"

(* Mutant of ImageCount: images still on their way are not counted.        *)
ImageCountReady == Cardinality(Images(Ready(drafts)))

ImageCount == Cardinality(Images(Standing(drafts)))

VideoDraft == Standing(drafts) \ Images(drafts)

Turn == turns < Turns /\ turns' = turns + 1

(* Mutant of DraftsOf: the dialog opens empty.                             *)
DraftsOfNone(p) == {}

DraftsOf(p) == IF p = None THEN {} ELSE p

VideoOf(p) ==
  IF p # None /\ \E d \in p : d.kind = "external_video" THEN "rutube" ELSE "file"

Init ==
  /\ post \in Posts
  /\ open = FALSE /\ drafts = {} /\ video = "file" /\ link = FALSE
  /\ uploads = {} /\ submitting = FALSE /\ sends = {}
  /\ showing = 0 /\ chosen = [f \in File |-> None] /\ taken = {} /\ turns = 0

(* Mutant of SubmittingWhenOpened: the dialog opens with the button in     *)
(* order.                                                                  *)
SubmittingWhenOpenedAnew == FALSE

SubmittingWhenOpened == submitting

(* The effect on [open, post].                                             *)
Fill ==
  drafts' = DraftsOf(post) /\ video' = VideoOf(post) /\ link' = FALSE /\ taken' = {}

Open ==
  /\ ~open /\ Turn
  /\ open' = TRUE /\ Fill
  /\ submitting' = SubmittingWhenOpened
  /\ showing' = showing + 1
  /\ UNCHANGED <<post, uploads, sends, chosen>>

(* The page takes the topic anew, with the attachments it had, when what   *)
(* was asked before the dialog was opened is answered: a like, a comment.  *)
(* What was put into the dialog is gone.                                   *)
Renewed ==
  /\ open /\ post # None /\ Fill
  /\ UNCHANGED <<post, open, uploads, submitting, sends, showing, chosen, turns>>

(* What was in the dialog stays until it is opened again.                  *)
Close ==
  /\ open /\ open' = FALSE
  /\ UNCHANGED <<post, drafts, video, link, uploads, submitting, sends, showing, chosen, taken, turns>>

(* Drafts leave the dialog by the hand of the user.                        *)
Keep(ds) == drafts' = ds /\ taken' = taken \cup (drafts \ ds)
-----------------------------------------------------------------------------
New(f, kind) == [key |-> f, kind |-> kind, state |-> "up"]

(* Several images may be chosen at once: as many are taken as there is     *)
(* room for.                                                               *)
AddImages ==
  /\ open /\ ImageCount < MaxImages /\ Turn
  /\ \E files \in SUBSET {f \in Image : chosen[f] = None} :
       /\ files # {} /\ Cardinality(files) <= MaxImages - ImageCount
       /\ drafts' = drafts \cup {New(f, "image") : f \in files}
       /\ uploads' = uploads \cup files
       /\ chosen' = [f \in File |-> IF f \in files THEN showing ELSE chosen[f]]
  /\ UNCHANGED <<post, open, video, link, submitting, sends, showing, taken>>

(* A new video takes the place of one that failed.                         *)
AddVideo ==
  /\ open /\ video = "file" /\ VideoDraft = {} /\ Turn
  /\ \E f \in {v \in Video : chosen[v] = None} :
       /\ drafts' = Images(drafts) \cup {New(f, "video")}
       /\ uploads' = uploads \cup {f}
       /\ chosen' = [chosen EXCEPT ![f] = showing]
  /\ link' = FALSE
  /\ UNCHANGED <<post, open, video, submitting, sends, showing, taken>>

(* Mutant of FailedState: a failure is told of, the file stays as it was.  *)
FailedStateKept == "up"

FailedState == "error"

(* Mutant of Patch: a file that is not in the dialog is put into it.       *)
PatchInserting(f, state) ==
  {d \in drafts : d.key # f} \cup {[New(f, IF f \in Image THEN "image" ELSE "video") EXCEPT !.state = state]}

Patch(f, state) == {IF d.key = f THEN [d EXCEPT !.state = state] ELSE d : d \in drafts}

(* The three requests of uploadFile have come to an end.                   *)
Uploaded(f) ==
  /\ uploads' = uploads \ {f}
  /\ \E state \in {"ready", FailedState} : drafts' = Patch(f, state)
  /\ UNCHANGED <<post, open, video, link, submitting, sends, showing, chosen, taken, turns>>

TakeAway ==
  /\ open /\ Turn
  /\ \E d \in drafts : Keep(drafts \ {d})
  /\ UNCHANGED <<post, open, video, link, uploads, submitting, sends, showing, chosen>>

KeptByLink == {d \in drafts : d.kind \in {"image", "external_video"}}
KeptByFile == {d \in drafts : d.kind # "external_video"}

SetVideo ==
  /\ open /\ Turn
  /\ \/ video = "rutube" /\ video' = "file" /\ link' = FALSE /\ Keep(KeptByFile)
     \/ video = "file" /\ video' = "rutube" /\ link' = link /\ Keep(KeptByLink)
  /\ UNCHANGED <<post, open, uploads, submitting, sends, showing, chosen>>

TypeLink ==
  /\ open /\ video = "rutube" /\ ~link /\ link' = TRUE
  /\ UNCHANGED <<post, open, drafts, video, uploads, submitting, sends, showing, chosen, taken, turns>>
-----------------------------------------------------------------------------
(* handleSubmit.  A link counts only if there is no video in the dialog.   *)
Submit ==
  /\ open /\ ~submitting /\ ~uploading /\ Turn
  /\ submitting' = TRUE
  /\ sends' = sends \cup
       {[showing |-> showing, at |-> turns, media |-> Ready(drafts), taken |-> taken,
         step |-> IF video = "rutube" /\ link /\ Ready(drafts) \subseteq Images(drafts)
                  THEN "link" ELSE "topic"]}
  /\ UNCHANGED <<post, dialog, uploads, showing, chosen, taken>>

Linked(s) ==
  /\ s.step = "link"
  /\ \/ /\ sends' = (sends \ {s}) \cup
             {[s EXCEPT !.step = "topic",
                        !.media = @ \cup {[key |-> Link, kind |-> "external_video", state |-> "ready"]}]}
        /\ UNCHANGED submitting
     \/ sends' = sends \ {s} /\ submitting' = FALSE
  /\ UNCHANGED <<post, dialog, uploads, showing, chosen, taken, turns>>

(* The answer closes the dialog, also one opened since.  A new topic takes *)
(* the user to its page; he may come back to a new one.                    *)
Sent(s) ==
  /\ s.step = "topic"
  /\ sends' = sends \ {s} /\ submitting' = FALSE
  /\ \/ open' = FALSE /\ post' = IF post = None THEN None ELSE s.media
     \/ UNCHANGED <<open, post>>
  /\ UNCHANGED <<drafts, video, link, uploads, showing, chosen, taken, turns>>

Next ==
  \/ Open \/ Close \/ Renewed \/ AddImages \/ AddVideo \/ TakeAway \/ SetVideo \/ TypeLink \/ Submit
  \/ \E f \in uploads : Uploaded(f)
  \/ \E s \in sends : Linked(s) \/ Sent(s)

(* Every upload comes to an end, well or not.                              *)
Fairness == \A f \in File : WF_vars(f \in uploads /\ Uploaded(f))
Spec == Init /\ [][Next]_vars /\ Fairness
-----------------------------------------------------------------------------
TypeOK ==
  /\ post \in (SUBSET Draft) \cup {None} /\ drafts \subseteq Draft
  /\ {open, link, submitting} \subseteq BOOLEAN /\ video \in {"file", "rutube"}
  /\ uploads \subseteq File /\ taken \subseteq Draft
  /\ sends \subseteq [showing : 0 .. Turns, at : 0 .. Turns, media : SUBSET Draft,
                     taken : SUBSET Draft, step : {"link", "topic"}]
  /\ showing \in 0 .. Turns /\ chosen \in [File -> (0 .. Turns) \cup {None}] /\ turns \in 0 .. Turns

(* A topic is not sent with more than MAX_IMAGES images, nor with two      *)
(* videos, whatever fails, is replaced or is still on its way (addImages,  *)
(* addVideo, handleSubmit).                                                *)
WithinLimits ==
  \A s \in sends :
    /\ Cardinality(Images(s.media)) <= MaxImages
    /\ Cardinality(s.media \ Images(s.media)) <= 1

(* A file is sent only with the dialog it was chosen in: one that is       *)
(* uploaded after its dialog was closed does not turn up in the next       *)
(* (patchDraft).                                                           *)
FilesOfDialog ==
  \A s \in sends : \A d \in s.media :
    d.key \in File /\ (post = None \/ d \notin post) => chosen[d.key] = s.showing

(* An edit loses no attachment of the topic that the user has not taken    *)
(* away in the dialog it was sent from (the effect of opening).            *)
AttachmentsKept ==
  post # None => \A s \in sends : s.showing = showing => post \subseteq s.media \cup s.taken

(* What the dialog sends is sent once at a time, also when it is closed    *)
(* and opened again meanwhile (submitting).                                *)
OneSend == Cardinality(sends) <= 1

(* The button to send is not kept out of order by an upload for ever.      *)
UploadsEnd == uploading ~> ~uploading
=============================================================================
