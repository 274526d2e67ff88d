----------------------------- MODULE AtomicFile -----------------------------
(***************************************************************************)
(* files.write and files.edit of the host: a private file is made, flushed *)
(* and published under the name by link or rename (commitAtomicFile of     *)
(* host-handlers.mjs).  Several calls may be at it for one name, among     *)
(* other programs, which change the file, its directory or the private     *)
(* file between any two steps; a step may fail or be cancelled, and the    *)
(* machine may lose its power.                                             *)
(***************************************************************************)
EXTENDS Naturals, FiniteSets

CONSTANTS
  Mutations,      \* calls of files.write and files.edit for the name; each has a private file
  Original,       \* the file that may be there
  Changes,        \* changes by other programs, and the files they make
  MaxMeddling     \* bound on changes by others, failures, cancellations and power losses

None   == "none"
Odd    == "odd"     \* a name leads to something else than a regular file
Unmade == "unmade"  \* the directory does not exist yet
Torn   == "torn"    \* what may be read of a file that was not flushed before the power went

ASSUME FilesAssumption ==
  /\ Original \notin Mutations \cup Changes /\ Mutations \cap Changes = {}
  /\ {None, Odd, Unmade, Torn} \cap (Mutations \cup Changes \cup {Original}) = {}
  /\ MaxMeddling \in Nat /\ IsFiniteSet(Changes) /\ MaxMeddling <= Cardinality(Changes)

Folders == 1..(MaxMeddling + 1)
Inodes  == Mutations \cup {Original} \cup Changes
\* A text is the set of the changes in it.

VARIABLES
  place,    \* the directory that the parent path leads to; 0 when there is none
  leaf,     \* per directory: what the name in it leads to
  onDisk,   \* per directory: what it led to when the directory was last flushed
  inode,    \* per file: its text, how often its status changed, and whether it was flushed
  call,     \* per call: see Ready
  meddling

fileVars == <<place, leaf, onDisk, inode, call, meddling>>

Ready(kind) ==
  [kind |-> kind, at |-> "open",
   folder |-> 0,          \* the parent directory, held open
   source |-> None, stamp |-> 0, base |-> {},   \* the file that was read
   temp |-> None,         \* the private name: own, swapped, gone, or none
   seen |-> 0,            \* the directory opened to confirm
   published |-> FALSE, end |-> None,
   \* histories: another changed the name since this call checked or published it; what
   \* publication replaced; and whether it could not know
   late |-> FALSE, over |-> {}, blind |-> FALSE]

MadeSoFar == Cardinality({d \in Folders : leaf[d] # Unmade})
Meddle == meddling < MaxMeddling /\ meddling' = meddling + 1
Quietly == UNCHANGED meddling

At(c, step) == call[c].at = step
Goes(c, step) == call' = [call EXCEPT ![c].at = step]
Fails(c) == Goes(c, "cleanup")
\* The same, where other calls are told by their history that the name has changed.
Others(c, steps) == {o \in Mutations \ {c} : call[o].at \in steps}
Tell(calls, who) == [o \in Mutations |-> IF o \in who THEN [calls[o] EXCEPT !.late = TRUE] ELSE calls[o]]
LeafSteps   == {"commit", "publish", "unlink", "sync", "inspect", "cleanup", "done"}
FolderSteps == LeafSteps \cup {"check"}

-----------------------------------------------------------------------------
(* Before publication. *)

\* openAnchoredDirectory; files.write makes a missing directory, and its parent durable.
OpenFolder(c) ==
  /\ At(c, "open") /\ Quietly
  /\ \/ place # 0 /\ call' = [call EXCEPT ![c].at = "look", ![c].folder = place] /\ UNCHANGED <<place, leaf, onDisk>>
     \/ /\ place = 0 /\ call[c].kind = "edit" /\ Fails(c) /\ UNCHANGED <<place, leaf, onDisk>>
     \/ /\ place = 0 /\ call[c].kind = "write"
        /\ place' = MadeSoFar + 1
        /\ leaf' = [leaf EXCEPT ![place'] = None] /\ onDisk' = [onDisk EXCEPT ![place'] = None]
        /\ call' = [call EXCEPT ![c].at = "look", ![c].folder = place']
  /\ UNCHANGED inode

\* readRegularSnapshot looks at the name, ...
Look(c) ==
  /\ At(c, "look") /\ Quietly
  /\ LET found == leaf[call[c].folder]
     IN IF found = Odd \/ (found = None /\ call[c].kind = "edit") \/ (found # None /\ call[c].kind = "write")
        THEN Fails(c)
        ELSE call' = [call EXCEPT ![c].source = found, ![c].at = IF found = None THEN "prepare" ELSE "read"]
  /\ UNCHANGED <<place, leaf, onDisk, inode>>

\* ... and opens it: a text that stays the same from one status to the next.
Read(c) ==
  /\ At(c, "read") /\ Quietly
  /\ IF leaf[call[c].folder] = call[c].source
     THEN call' = [call EXCEPT ![c].at = "prepare", ![c].stamp = inode[call[c].source].stamp,
                               ![c].base = inode[call[c].source].text]
     ELSE Fails(c)
  /\ UNCHANGED <<place, leaf, onDisk, inode>>

NewText(c) == IF call[c].kind = "edit" THEN call[c].base \cup {c} ELSE {c}

\* createOwnedTemp: the whole text is written and flushed before the name is anything's.
OwnedTemp(c) == [text |-> NewText(c), stamp |-> 0, flushed |-> TRUE]
CreateTemp(c) ==
  /\ At(c, "prepare") /\ Quietly
  /\ inode' = [inode EXCEPT ![c] = OwnedTemp(c)]
  /\ call' = [call EXCEPT ![c].at = "verify", ![c].temp = "own"]
  /\ UNCHANGED <<place, leaf, onDisk>>

\* assertTempUnchanged and assertTempPathIdentity: the private name still leads to the file.
TempUnchanged(c) == call[c].temp = "own" /\ inode[c].stamp = 0

Verify(c) ==
  /\ At(c, "verify") /\ Quietly
  /\ IF TempUnchanged(c) THEN Goes(c, "folder") ELSE Fails(c)
  /\ UNCHANGED <<place, leaf, onDisk, inode>>

\* assertParentPathUnchanged, which is also how assertReplacementSourceUnchanged begins.
CheckFolder(c) ==
  /\ At(c, "folder") /\ Quietly
  /\ IF place = call[c].folder
     THEN call' = [call EXCEPT ![c].at = IF call[c].source = None THEN "commit" ELSE "check", ![c].late = FALSE]
     ELSE Fails(c)
  /\ UNCHANGED <<place, leaf, onDisk, inode>>

\* assertReplacementSourceUnchanged; as if the name alone were compared.
SameName(c) == leaf[call[c].folder] = call[c].source
SourceUnchanged(c) ==
  leaf[call[c].folder] = call[c].source /\ inode[call[c].source].stamp = call[c].stamp

CheckSource(c) ==
  /\ At(c, "check") /\ Quietly
  /\ IF SourceUnchanged(c) THEN Goes(c, "commit") ELSE Fails(c)
  /\ UNCHANGED <<place, leaf, onDisk, inode>>

CheckTemp(c) ==
  /\ At(c, "commit") /\ Quietly
  /\ IF TempUnchanged(c) THEN Goes(c, "publish") ELSE Fails(c)
  /\ UNCHANGED <<place, leaf, onDisk, inode>>

-----------------------------------------------------------------------------
(* Publication. *)

TextUnder(d) == IF leaf[d] \in Inodes THEN inode[leaf[d]].text ELSE {leaf[d]}

\* What the private name leads to comes under the name, in the directory the path leads to now.
Publishes(c, step, temp) ==
  /\ leaf' = [leaf EXCEPT ![place] = IF call[c].temp = "own" THEN c ELSE Odd]
  /\ inode' = [inode EXCEPT ![c].stamp = @ + 1]
  /\ call' = Tell([call EXCEPT ![c].at = step, ![c].temp = temp, ![c].published = TRUE,
                               ![c].late = FALSE, ![c].blind = call[c].late,
                               ![c].over = TextUnder(place)],
                  Others(c, LeafSteps))

\* rename replaces whatever is there.
Rename(c) ==
  /\ At(c, "publish") /\ call[c].source # None /\ Quietly
  /\ IF place = 0 \/ call[c].temp = "gone" THEN Fails(c) /\ UNCHANGED <<leaf, inode>>
     ELSE Publishes(c, "sync", None)
  /\ UNCHANGED <<place, onDisk>>

\* link replaces nothing.
MayLink(c) == place # 0 /\ call[c].temp # "gone" /\ leaf[place] = None
Link(c) ==
  /\ At(c, "publish") /\ call[c].source = None /\ Quietly
  /\ IF MayLink(c) THEN Publishes(c, "unlink", call[c].temp) ELSE Fails(c) /\ UNCHANGED <<leaf, inode>>
  /\ UNCHANGED <<place, onDisk>>

UnlinkTemp(c) ==
  /\ At(c, "unlink") /\ Quietly
  /\ IF call[c].temp = "gone" THEN Fails(c) /\ UNCHANGED inode
     ELSE /\ call' = [call EXCEPT ![c].at = "sync", ![c].temp = None]
          /\ inode' = IF call[c].temp = "own" THEN [inode EXCEPT ![c].stamp = @ + 1] ELSE inode
  /\ UNCHANGED <<place, leaf, onDisk>>

-----------------------------------------------------------------------------
(* After publication. *)

\* The directory the path leads to is flushed, and the one held open if it is another.
SyncFolders(c) ==
  /\ At(c, "sync") /\ Quietly
  /\ IF place = 0 THEN Fails(c) /\ UNCHANGED onDisk
     ELSE /\ onDisk' = [d \in Folders |-> IF d \in {place, call[c].folder} THEN leaf[d] ELSE onDisk[d]]
          /\ IF call[c].source # None /\ place # call[c].folder THEN Fails(c)
             ELSE call' = [call EXCEPT ![c].at = "inspect", ![c].seen = place]
  /\ UNCHANGED <<place, leaf, inode>>

\* assertPublishedFile: the name leads to the file, with its text.
Inspect(c) ==
  /\ At(c, "inspect") /\ Quietly
  /\ call' = [call EXCEPT ![c].at = "cleanup",
                          ![c].end = IF leaf[call[c].seen] = c /\ inode[c].text = NewText(c) THEN "ok" ELSE None]
  /\ UNCHANGED <<place, leaf, onDisk, inode>>

\* An error after publication is told apart from one before.
ErrorOf(c) == IF call[c].published THEN "committed" ELSE "failed"

\* The handles are closed and the private name is removed; should that fail, so does the call.
Cleanup(c) ==
  /\ At(c, "cleanup")
  /\ \/ Quietly /\ call' = [call EXCEPT ![c].at = "done", ![c].temp = None,
                                        ![c].end = IF @ = "ok" THEN "ok" ELSE ErrorOf(c)]
     \/ Meddle /\ call' = [call EXCEPT ![c].at = "done", ![c].end = ErrorOf(c)]
  /\ UNCHANGED <<place, leaf, onDisk, inode>>

\* A step fails, or the call finds that it was cancelled, or an edit does not fit what it read.
StepFails(c) ==
  /\ call[c].at \notin {"cleanup", "done", "dead"} /\ Meddle
  /\ Fails(c)
  /\ UNCHANGED <<place, leaf, onDisk, inode>>

-----------------------------------------------------------------------------
(* Other programs, whose own changes are durable at once. *)

Change == CHOOSE n \in Changes : \A i \in Inodes : n \notin inode[i].text

Written(file) == [file EXCEPT !.text = @ \cup {Change}, !.stamp = @ + 1]

WriteInPlace ==
  /\ place # 0 /\ leaf[place] \in Inodes /\ Meddle
  /\ inode' = [inode EXCEPT ![leaf[place]] = Written(@)]
  /\ call' = Tell(call, {c \in Mutations : call[c].at \in LeafSteps})
  /\ UNCHANGED <<place, leaf, onDisk>>

ReplaceFile ==
  /\ place # 0 /\ Meddle
  /\ \E what \in {None, Odd, Change} \ {leaf[place]} :
       leaf' = [leaf EXCEPT ![place] = what] /\ onDisk' = [onDisk EXCEPT ![place] = what]
  /\ inode' = [inode EXCEPT ![Change] = [text |-> {Change}, stamp |-> 0, flushed |-> TRUE]]
  /\ call' = Tell(call, {c \in Mutations : call[c].at \in LeafSteps})
  /\ UNCHANGED place

\* The directory is moved away, and perhaps another put in its place.
ReplaceFolder ==
  /\ place # 0 /\ Meddle
  /\ \/ place' = 0 /\ UNCHANGED <<leaf, onDisk, inode>>
     \/ /\ place' = MadeSoFar + 1
        /\ \E what \in {None, Change} :
             leaf' = [leaf EXCEPT ![place'] = what] /\ onDisk' = [onDisk EXCEPT ![place'] = what]
        /\ inode' = [inode EXCEPT ![Change] = [text |-> {Change}, stamp |-> 0, flushed |-> TRUE]]
  /\ call' = Tell(call, {c \in Mutations : call[c].at \in FolderSteps})

TamperWithTemp(c) ==
  /\ call[c].temp = "own" /\ Meddle
  /\ \/ /\ ~call[c].published   \* a linked file is the one under the name: WriteInPlace
        /\ inode' = [inode EXCEPT ![c] = Written(@)]
        /\ UNCHANGED call
     \/ \E state \in {"swapped", "gone"} : call' = [call EXCEPT ![c].temp = state] /\ UNCHANGED inode
  /\ UNCHANGED <<place, leaf, onDisk>>

\* What was not flushed may be on disk or not.
PowerLoss ==
  /\ Meddle
  /\ leaf' \in {l \in [Folders -> {leaf[d] : d \in Folders} \cup {onDisk[d] : d \in Folders}] :
                  \A d \in Folders : l[d] \in {leaf[d], onDisk[d]}}
  /\ onDisk' = leaf'
  /\ inode' = [i \in Inodes |-> IF inode[i].flushed THEN inode[i] ELSE [inode[i] EXCEPT !.text = {Torn}]]
  /\ call' = [c \in Mutations |-> IF At(c, "done") THEN call[c] ELSE [call[c] EXCEPT !.at = "dead"]]
  /\ UNCHANGED place

-----------------------------------------------------------------------------
NoFile == [text |-> {}, stamp |-> 0, flushed |-> TRUE]

FilesInit ==
  /\ place \in {0, 1}
  /\ \E there \in IF place = 0 THEN {Unmade} ELSE {None, Odd, Original} :
       leaf = [d \in Folders |-> IF d = 1 THEN there ELSE Unmade]
  /\ onDisk = leaf
  /\ inode = [i \in Inodes |-> IF i = Original THEN [NoFile EXCEPT !.text = {Original}] ELSE NoFile]
  /\ \E kind \in [Mutations -> {"write", "edit"}] : call = [c \in Mutations |-> Ready(kind[c])]
  /\ meddling = 0

CallStep(c) ==
  \/ OpenFolder(c) \/ Look(c) \/ Read(c) \/ CreateTemp(c) \/ Verify(c)
  \/ CheckFolder(c) \/ CheckSource(c) \/ CheckTemp(c) \/ Rename(c) \/ Link(c) \/ UnlinkTemp(c)
  \/ SyncFolders(c) \/ Inspect(c) \/ Cleanup(c) \/ StepFails(c)

FilesNext ==
  \/ \E c \in Mutations : CallStep(c) \/ TamperWithTemp(c)
  \/ WriteInPlace \/ ReplaceFile \/ ReplaceFolder \/ PowerLoss

FilesSpec == FilesInit /\ [][FilesNext]_fileVars

-----------------------------------------------------------------------------
(* Properties. *)

Done(c) == At(c, "done")

\* A call that says that nothing was committed has published nothing, and one that says
\* otherwise has: the fixed error of a failure after publication is never a wrong one.
OutcomesAreTrue ==
  \A c \in Mutations : Done(c) =>
    /\ call[c].end = "failed" => ~call[c].published /\ \A d \in Folders : leaf[d] # c
    /\ call[c].end \in {"ok", "committed"} => call[c].published

\* A write replaces nothing, and an edit no other text than the one it was made from, unless
\* another changed the name after the edit's last look at it.
NothingUnseenIsLost ==
  \A c \in Mutations : call[c].published =>
    IF call[c].kind = "write" THEN call[c].over = {None}
    ELSE call[c].blind \/ call[c].over = call[c].base

\* A call that succeeded has left the whole text under the name, for as long as no other
\* changes it and whenever the power goes; and nothing the harness puts there is ever half
\* a text.
PublishedIsWhole ==
  /\ \A c \in Mutations : Done(c) /\ call[c].end = "ok" /\ ~call[c].late =>
       place # 0 /\ leaf[place] = c /\ inode[c].text = NewText(c)
  /\ \A d \in Folders : leaf[d] \in Mutations => Torn \notin inode[leaf[d]].text

MutationsAreTrue == OutcomesAreTrue /\ NothingUnseenIsLost /\ PublishedIsWhole
=============================================================================
