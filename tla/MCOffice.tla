------------------------------ MODULE MCOffice ------------------------------
(***************************************************************************)
(* The pages on which the site is written: articles, the dialog for a      *)
(* topic with the list of topics it is opened from, and the catalogue.     *)
(* They share no state; one run has them all, one open at a time, as       *)
(* scenes.                                                                 *)
(***************************************************************************)
EXTENDS Press, TLC

CONSTANTS Image, Video, Posts, Link, MaxImages, Turns, old1, old2
CONSTANTS Lot, Item, Starts, l1, l2, i1, i2, Deeds
CONSTANTS Topic, All, Flights, Rounds

VARIABLES scene,
  post, open, drafts, video, link, uploads, submitting, sends, showing, chosen, taken, turns,
  stock, shown, panel, fetches, puts, reloads, deeds,
  written, tab, known, posts, finding, author, loading, failed, flights, sending, crossed, rounds

composer == <<post, open, drafts, video, link, uploads, submitting, sends, showing, chosen,
              taken, turns>>
stocks == <<stock, shown, panel, fetches, puts, reloads, deeds>>
threads == <<written, tab, known, posts, finding, author, loading, failed, flights, sending,
             crossed, rounds>>

(* A new topic; one without files; one with an image and a link to a       *)
(* video; one with a video of its own.                                     *)
Attached(key, kind) == [key |-> key, kind |-> kind, state |-> "ready"]
AllPosts ==
  {None, {}, {Attached(old1, "image"), Attached(old2, "external_video")}, {Attached(old2, "video")}}

Lots == {l1, l2}
Products == {i1, i2}
Start(a, b, c, d) == (l1 :> a) @@ (l2 :> b) @@ (i1 :> c) @@ (i2 :> d)
AllStarts == {Start(2, None, 2, 1), Start(0, 2, 2, None)}

(* Two categories, two authors, topics that a search hits and one it does  *)
(* not.                                                                    *)
AllTopics == {[category |-> "stone", author |-> "a", hit |-> TRUE],
              [category |-> "stone", author |-> "b", hit |-> FALSE],
              [category |-> "tools", author |-> "b", hit |-> TRUE]}

C == INSTANCE Composer
S == INSTANCE Stock
T == INSTANCE Threads WITH Turns <- Rounds, turns <- rounds

ASSUME OfficeAssumption ==
  PressAssumption /\ C!ComposerAssumption /\ S!StockAssumption /\ T!ThreadsAssumption

(* Where a page is not open, one beginning of it will do.                  *)
SceneInit ==
  /\ scene \in {"press", "composer", "stock", "threads"}
  /\ Init /\ (scene # "press" => right = FALSE)
  /\ C!Init /\ (scene # "composer" => post = None)
  /\ S!Init /\ (scene # "stock" => stock[l1] = <<>>)
  /\ \/ scene = "threads" /\ T!Init
     \/ /\ scene # "threads" /\ written = {} /\ tab = All /\ known = FALSE /\ posts = {}
        /\ finding = FALSE /\ author = All /\ loading = FALSE /\ failed = FALSE
        /\ flights = <<>> /\ sending = None /\ crossed = FALSE /\ rounds = 0

SceneNext ==
  \/ scene = "press" /\ Next /\ UNCHANGED <<scene, composer, stocks, threads>>
  \/ scene = "composer" /\ C!Next /\ UNCHANGED <<scene, vars, stocks, threads>>
  \/ scene = "stock" /\ S!Next /\ UNCHANGED <<scene, vars, composer, threads>>
  \/ scene = "threads" /\ T!Next /\ UNCHANGED <<scene, vars, composer, stocks>>

SceneSpec ==
  /\ SceneInit /\ [][SceneNext]_<<scene, vars, composer, stocks, threads>>
  /\ Fairness /\ C!Fairness /\ T!Fairness
-----------------------------------------------------------------------------
(* The properties of the pages, stated and explained in their modules;     *)
(* those of articles are checked as they stand there.                      *)

(* Topics: a file goes with the dialog it was chosen in, an edit loses no  *)
(* attachment, what is sent is within limits, and one thing at a time.     *)
FilesKept ==
  scene = "composer" =>
    /\ C!TypeOK /\ C!FilesOfDialog /\ C!AttachmentsKept /\ C!WithinLimits /\ C!OneSend

(* Catalogue: no product and no lot that is changed gets rows of another   *)
(* (a new lot may), none is lost that the form does not show, and the      *)
(* first row of a product stays whole.                                     *)
RowsKept == scene = "stock" => S!TypeOK /\ S!RowsOfEntry /\ S!RowsKept /\ S!FirstRowWhole

(* List of topics: under a tab there are topics of that tab, and the       *)
(* choice of an author hides others, never all.                            *)
TopicsShown == scene = "threads" => T!TypeOK /\ T!TabShown /\ T!SomethingShown

(* Whatever fails, the form of an article comes back, uploads come to an   *)
(* end, and the list of topics comes or the page says that it did not.     *)
WaitingEnds == RunEnds /\ C!UploadsEnd /\ T!ListComes
=============================================================================
