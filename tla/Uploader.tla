------------------------------ MODULE Uploader ------------------------------
(***************************************************************************)
(* The uploader of Webix (codebase/webix.js) on the two windows that take  *)
(* a message file: the form of a case (getSelectedItem.html, "edit") and   *)
(* that of a new case (replaceDataView.html, "add").  A file is sent when  *)
(* it is chosen, and its message tree is to appear in the window.          *)
(*                                                                         *)
(* An uploader keeps all files of its window and one callback.  send       *)
(* replaces the callback; it runs when a file is answered and all files of *)
(* the window are at the server, or at once if there was nothing to send.  *)
(* Answers come in any order, also after the window was closed; the        *)
(* callbacks then find the tree of the window that is open by then.        *)
(***************************************************************************)
EXTENDS Naturals, Sequences, FiniteSets, Functions

CONSTANTS MaxWindows, MaxFiles  \* windows opened, files per window

ASSUME WindowAssumption == MaxWindows \in Nat /\ MaxFiles \in Nat

Windows == 1..MaxWindows
Kinds == {"edit", "add"}

VARIABLES
  kind,       \* the windows opened so far
  current,    \* the one that is open, 0 for none
  files,      \* the status of each file of each window
  onTheWay,   \* files whose requests may still be answered: <<window, file>>
  fs,         \* the callback: "none", "show" or "post"
  isFileAdd,
  messageTree, \* what the open window shows: [of, file, bad]
  posts       \* windows whose tree is being posted

uploaderVars == <<kind, current, files, onTheWay, fs, isFileAdd, messageTree, posts>>

Statuses == {"client", "transfer", "server", "error"}

\* The tree the server has of the window's case, or the empty one of a new case.
Loaded(w) == [of |-> w, file |-> 0, bad |-> FALSE]

isUploaded(statuses) == \A i \in DOMAIN statuses : statuses[i] = "server"

-----------------------------------------------------------------------------
UploaderInit ==
  /\ kind = <<>> /\ current = 0
  /\ files = [w \in Windows |-> <<>>] /\ onTheWay = {}
  /\ fs = [w \in Windows |-> "none"] /\ isFileAdd = 0
  /\ messageTree = Loaded(0) /\ posts = {}

OpenWindow(k) ==
  /\ current = 0 /\ Len(kind) < MaxWindows
  /\ kind' = Append(kind, k) /\ current' = Len(kind) + 1
  /\ isFileAdd' = 0 /\ messageTree' = Loaded(current')
  /\ UNCHANGED <<files, onTheWay, fs, posts>>

CloseWindow ==
  /\ current # 0 /\ current' = 0
  /\ UNCHANGED <<kind, files, onTheWay, fs, isFileAdd, messageTree, posts>>

-----------------------------------------------------------------------------
\* The callback of a file that was chosen: the answer becomes the tree,
\* wherever that is now.  Only the new case looks whether the parse failed;
\* the other shows the answer "false" as a node.
Show(w, i, answer) ==
  messageTree' = IF current = 0 \/ (kind[w] = "add" /\ answer = "false") THEN messageTree
          ELSE [of |-> w, file |-> i, bad |-> answer = "false"]

\* The callback is never cleared (a mutant of RunCallback).
RunCallbackKeeps(w, i, answer) ==
  CASE fs[w] = "show" -> Show(w, i, answer) /\ UNCHANGED <<posts, fs>>
    [] fs[w] = "post" -> posts' = posts \cup {w} /\ UNCHANGED <<fs, messageTree>>
    [] OTHER -> UNCHANGED <<fs, messageTree, posts>>

\* A callback that throws, for want of a tree, is not cleared.
RunCallback(w, i, answer) ==
  CASE fs[w] = "show" ->
         /\ Show(w, i, answer) /\ UNCHANGED posts
         /\ fs' = [fs EXCEPT ![w] = IF current = 0 /\ ~(kind[w] = "add" /\ answer = "false")
                                    THEN @ ELSE "none"]
    [] fs[w] = "post" ->
         posts' = posts \cup {w} /\ fs' = [fs EXCEPT ![w] = "none"] /\ UNCHANGED messageTree
    [] OTHER -> UNCHANGED <<fs, messageTree, posts>>

\* send(callback) of a window's uploader, given the statuses of its files.
send(w, statuses, callback) ==
  LET clients == {i \in DOMAIN statuses : statuses[i] = "client"}
  IN  /\ files' = [files EXCEPT ![w] =
                    [i \in DOMAIN statuses |-> IF i \in clients THEN "transfer" ELSE statuses[i]]]
      /\ onTheWay' = onTheWay \cup {<<w, i>> : i \in clients}
      /\ IF clients # {}
         THEN fs' = [fs EXCEPT ![w] = callback] /\ UNCHANGED posts
         ELSE fs' = [fs EXCEPT ![w] = "none"] /\ posts' = posts \cup {w}

\* The handler does not send (a mutant of AddFile).
AddFileUnsent ==
  /\ current # 0 /\ Len(files[current]) < MaxFiles
  /\ files' = [files EXCEPT ![current] = Append(@, "client")]
  /\ isFileAdd' = IF kind[current] = "edit" THEN 1 ELSE isFileAdd
  /\ UNCHANGED <<kind, current, messageTree, onTheWay, fs, posts>>

\* A file is chosen: fileAdd or fileSend runs as it is added.
AddFile ==
  /\ current # 0 /\ Len(files[current]) < MaxFiles
  /\ send(current, Append(files[current], "client"), "show")
  /\ isFileAdd' = IF kind[current] = "edit" THEN 1 ELSE isFileAdd
  /\ UNCHANGED <<kind, current, messageTree>>

\* The button of the form: with a file added, the posts are the uploader's
\* new callback.
SubmitEdit ==
  /\ current # 0 /\ kind[current] = "edit"
  /\ IF isFileAdd = 1
     THEN send(current, files[current], "post")
     ELSE posts' = posts \cup {current} /\ UNCHANGED <<files, onTheWay, fs>>
  /\ isFileAdd' = 0
  /\ UNCHANGED <<kind, current, messageTree>>

\* The button of the new case posts and closes.
SubmitNew ==
  /\ current # 0 /\ kind[current] = "add"
  /\ current' = 0
  /\ UNCHANGED <<kind, files, onTheWay, fs, isFileAdd, messageTree, posts>>

\* The tree was stored: it is loaded again.
PostAnswered(w) ==
  /\ w \in posts /\ posts' = posts \ {w}
  /\ messageTree' = IF current = 0 THEN messageTree ELSE Loaded(w)
  /\ UNCHANGED <<kind, current, files, onTheWay, fs, isFileAdd>>

-----------------------------------------------------------------------------
\* isUploaded is asked before the file is marked (a mutant of FileAnswered).
AnsweredAsksFirst(w, i, answer) ==
  /\ <<w, i>> \in onTheWay /\ onTheWay' = onTheWay \ {<<w, i>>}
  /\ files' = [files EXCEPT ![w][i] = IF answer = "none" THEN "error" ELSE "server"]
  /\ IF answer # "none" /\ isUploaded(files[w])
     THEN RunCallback(w, i, answer) ELSE UNCHANGED <<fs, messageTree, posts>>
  /\ UNCHANGED <<kind, current, isFileAdd>>

\* The answer to an upload: a tree, "false" for a message that is not of the
\* chosen format, or something that is no answer.
FileAnswered(w, i, answer) ==
  /\ <<w, i>> \in onTheWay /\ onTheWay' = onTheWay \ {<<w, i>>}
  /\ files' = [files EXCEPT ![w][i] = IF answer = "none" THEN "error" ELSE "server"]
  /\ IF answer # "none" /\ isUploaded(files'[w])
     THEN RunCallback(w, i, answer) ELSE UNCHANGED <<fs, messageTree, posts>>
  /\ UNCHANGED <<kind, current, isFileAdd>>

\* A connection that breaks is not looked after: there is no onerror.
ConnectionLost(w, i) ==
  /\ <<w, i>> \in onTheWay /\ onTheWay' = onTheWay \ {<<w, i>>}
  /\ UNCHANGED <<kind, current, files, fs, isFileAdd, messageTree, posts>>

AnswerTo(w, i) == \E answer \in {"tree", "false", "none"} : FileAnswered(w, i, answer)
Settled(w, i) == AnswerTo(w, i) \/ ConnectionLost(w, i)

UploaderUser ==
  \/ \E k \in Kinds : OpenWindow(k)
  \/ CloseWindow \/ AddFile \/ SubmitEdit \/ SubmitNew

UploaderNext ==
  \/ UploaderUser
  \/ \E w \in Windows : PostAnswered(w)
  \/ \E w \in Windows, i \in 1..MaxFiles : Settled(w, i)

\* A request ends, one way or the other.
UploaderSpec ==
  /\ UploaderInit /\ [][UploaderNext]_uploaderVars
  /\ \A w \in Windows, i \in 1..MaxFiles : WF_uploaderVars(Settled(w, i))

-----------------------------------------------------------------------------
UploaderTypeOK ==
  /\ kind \in Seq(Kinds) /\ Len(kind) <= MaxWindows /\ current \in 0..Len(kind)
  /\ files \in [Windows -> Seq(Statuses)]
  /\ onTheWay \subseteq Windows \X (1..MaxFiles)
  /\ fs \in [Windows -> {"none", "show", "post"}] /\ isFileAdd \in {0, 1}
  /\ messageTree \in [of : 0..MaxWindows, file : 0..MaxFiles, bad : BOOLEAN]
  /\ posts \subseteq Windows

\* A callback that is kept in the open window has something to wait for:
\* there is a file that is not at the server.  None waits for answers that
\* have all been there.
WaitsForSomething == current # 0 /\ fs[current] # "none" => ~isUploaded(files[current])

\* The submit button does not wait for the upload it was written to wait
\* for: every file is on its way by the time the button can be pressed, so
\* that its posts go out at once, with the tree the window has.
SubmitNeverWaits ==
  \A w \in Windows : fs[w] # "post" /\ \A i \in DOMAIN files[w] : files[w][i] # "client"

\* A chosen file in a window that stays open: the callback runs, or a file
\* failed, or a connection was lost.
UploadEnds ==
  \A w \in Windows :
    (current = w /\ fs[w] # "none")
      ~> \/ current # w \/ fs[w] = "none"
         \/ \E i \in DOMAIN files[w] :
              files[w][i] = "error" \/ (files[w][i] = "transfer" /\ <<w, i>> \notin onTheWay)
=============================================================================
