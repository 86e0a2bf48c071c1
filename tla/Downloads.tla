------------------------------ MODULE Downloads ------------------------------
(***************************************************************************)
(* Saving a task's attachments into a directory of the user's              *)
(* (daemon/src/attachments/files.rs, and download in mod.rs): several      *)
(* requests at once, while the user puts files there and removes them.     *)
(* The bytes go to a .part file, which gets the attachment's name in one   *)
(* of three ways, or another number when the name is taken.                *)
(*                                                                         *)
(* The directory is open for as long as a request runs.  A .part file's    *)
(* name is new each time, so it is nobody else's.                          *)
(***************************************************************************)
EXTENDS Naturals, FiniteSets

CONSTANTS
  Saves,          \* requests to save attachments
  TuiSaves,       \* those the terminal sends, which opens what was saved
  Enclosed,       \* the task's attachments
  Uploading,      \* those of them that Graph hasn't got yet
  FileNames,
  Numbered(_, _), \* an attachment's name made safe, with a number; 0 is none
  LastNumber,     \* the last number tried
  MaxSpoils       \* bound: failures, stops, and what the user and the phone do

ASSUME DownloadsAssumption ==
  /\ TuiSaves \subseteq Saves /\ Uploading \subseteq Enclosed
  /\ {LastNumber, MaxSpoils} \subseteq Nat
  /\ \A i \in Enclosed, n \in 0 .. LastNumber : Numbered(i, n) \in FileNames
  /\ {"nobody", "user"} \cap Saves = {} /\ "none" \notin Enclosed

NoAttachment == "none"

\* What a name there is: nothing, a file of the user's, or what
\* a request saved there.
FreeName == [by |-> "nobody", item |-> NoAttachment, whole |-> TRUE]
Users == [by |-> "user", item |-> NoAttachment, whole |-> TRUE]

VARIABLES
  directory,  \* what each name in the directory is
  save,    \* each request: how far it is
  partFile, \* each request's .part file
  saved,   \* each request: the attachments saved so far, with their names
  opened,  \* what the terminal opened
  server,  \* the attachments Graph has
  theirs,  \* history: the names the user has a file of his own under
  replaced,    \* history: what was saved and then replaced or removed, by the user or by force
  spoils

fileVars == <<directory, save, partFile, saved, opened, server, theirs, replaced, spoils>>

AtItem(at, todo, item, force) ==
  [at |-> at, todo |-> todo, item |-> item, number |-> 0, way |-> "link", force |-> force]

DownloadsInit ==
  /\ directory = [f \in FileNames |-> FreeName] /\ save = [j \in Saves |-> AtItem("idle", {}, NoAttachment, FALSE)]
  /\ partFile = [j \in Saves |-> "none"] /\ saved = [j \in Saves |-> {}]
  /\ opened = [j \in Saves |-> FreeName] /\ server = Enclosed \ Uploading
  /\ theirs = {} /\ replaced = {} /\ spoils = 0

Spoil == spoils < MaxSpoils /\ spoils' = spoils + 1
Well == UNCHANGED spoils
Reach(j, at) == save' = [save EXCEPT ![j].at = at]

-----------------------------------------------------------------------------
(* The request.                                                            *)

\* The attachments saved, or all, from the cache or else from Graph.  The
\* terminal asks for one that is uploaded, and never by force.
AskSave(j) ==
  /\ save[j].at = "idle"
  /\ \E chosen \in SUBSET Enclosed, force \in BOOLEAN :
       /\ j \in TuiSaves => ~force /\ Cardinality(chosen) = 1 /\ chosen \cap Uploading = {}
       /\ \/ chosen # {} /\ chosen \cap Uploading = {} /\ Well
             /\ save' = [save EXCEPT ![j] = AtItem("open", chosen, NoAttachment, force)]
          \/ (chosen = {} \/ chosen \cap Uploading # {}) /\ Reach(j, "failed") /\ Well
          \/ Reach(j, "failed") /\ Spoil
  /\ UNCHANGED <<directory, partFile, saved, opened, server, theirs, replaced>>

OpenDir(j) ==
  /\ save[j].at = "open"
  /\ \/ Reach(j, "fetch") /\ Well
     \/ Reach(j, "failed") /\ Spoil
  /\ UNCHANGED <<directory, partFile, saved, opened, server, theirs, replaced>>

\* One that can't be fetched fails the request; those saved before it stay.
FetchNext(j, i) ==
  /\ save[j].at = "fetch" /\ i \in save[j].todo
  /\ \/ /\ i \in server /\ Well
        /\ save' = [save EXCEPT ![j] = AtItem("part", save[j].todo \ {i}, i, save[j].force)]
     \/ i \notin server /\ Reach(j, "failed") /\ Well
     \/ Reach(j, "failed") /\ Spoil
  /\ UNCHANGED <<directory, partFile, saved, opened, server, theirs, replaced>>

AnswerSave(j) ==
  /\ save[j].at = "fetch" /\ save[j].todo = {} /\ Reach(j, "done")
  /\ UNCHANGED <<directory, partFile, saved, opened, server, theirs, replaced, spoils>>

\* The terminal opens the file the answer names.
OpenSaved(j) ==
  /\ j \in TuiSaves /\ save[j].at = "done"
  /\ \E s \in saved[j] : opened' = [opened EXCEPT ![j] = directory[s[2]]]
  /\ Reach(j, "opened")
  /\ UNCHANGED <<directory, partFile, saved, server, theirs, replaced, spoils>>

-----------------------------------------------------------------------------
(* Writing one file.                                                       *)

WritePart(j) ==
  /\ save[j].at \in {"part", "fill"}
  /\ \/ save[j].at = "part" /\ partFile' = [partFile EXCEPT ![j] = "half"] /\ Reach(j, "fill") /\ Well
     \/ save[j].at = "fill" /\ partFile' = [partFile EXCEPT ![j] = "whole"] /\ Reach(j, "place") /\ Well
     \/ (partFile' = [partFile EXCEPT ![j] = "none"] \/ UNCHANGED partFile) /\ Reach(j, "failed") /\ Spoil
  /\ UNCHANGED <<directory, saved, opened, server, theirs, replaced>>

Candidate(j) == Numbered(save[j].item, IF save[j].force THEN 0 ELSE save[j].number)
Saved(j, full) == [by |-> j, item |-> save[j].item, whole |-> full]

\* What is lost with a name's file, when it was one that was saved.
LostWith(f) == IF directory[f].by \in Saves THEN {<<directory[f].by, directory[f].item, f>>} ELSE {}

\* With force: a rename, which replaces.
PlaceForced(j) ==
  /\ save[j].at = "place" /\ save[j].force
  /\ \/ /\ directory' = [directory EXCEPT ![Candidate(j)] = Saved(j, partFile[j] = "whole")]
        /\ replaced' = replaced \cup LostWith(Candidate(j))
        /\ partFile' = [partFile EXCEPT ![j] = "none"] /\ Reach(j, "named") /\ Well
     \/ Reach(j, "failing") /\ Spoil /\ UNCHANGED <<directory, replaced, partFile>>
  /\ UNCHANGED <<saved, opened, server, theirs>>

\* A name that's taken gets the next number.
NextNumber(j) ==
  /\ save[j].at = "place" /\ ~save[j].force /\ directory[Candidate(j)] # FreeName
  /\ IF save[j].number < LastNumber THEN save' = [save EXCEPT ![j].number = @ + 1] ELSE Reach(j, "failing")
  /\ UNCHANGED <<directory, partFile, saved, opened, server, theirs, replaced, spoils>>

\* The filesystem can't do it this way.
NextWay(j) ==
  /\ save[j].at = "place" /\ ~save[j].force
  /\ \/ save[j].way = "link" /\ save' = [save EXCEPT ![j].way = "rename"] /\ Well
     \/ save[j].way = "rename" /\ save' = [save EXCEPT ![j].way = "create"] /\ Well
     \/ save[j].way = "create" /\ Reach(j, "failing") /\ Spoil
  /\ UNCHANGED <<directory, partFile, saved, opened, server, theirs, replaced>>

\* Mutant: the fallback is a rename that replaces.
PlaceOver(j) ==
  /\ save[j].at = "place" /\ ~save[j].force
  /\ save[j].way # "rename" => directory[Candidate(j)] = FreeName
  /\ directory' = [directory EXCEPT ![Candidate(j)] = Saved(j, save[j].way # "create" /\ partFile[j] = "whole")]
  /\ partFile' = [partFile EXCEPT ![j] = IF save[j].way = "rename" THEN "none" ELSE @]
  /\ Reach(j, IF save[j].way = "create" THEN "copy" ELSE "named")
  /\ UNCHANGED <<saved, opened, server, theirs, replaced, spoils>>

\* A hard link, a rename that doesn't replace, or a new file, still empty:
\* each only under a name that's free.
PlaceFile(j) ==
  /\ save[j].at = "place" /\ ~save[j].force /\ directory[Candidate(j)] = FreeName
  /\ directory' = [directory EXCEPT ![Candidate(j)] = Saved(j, save[j].way # "create" /\ partFile[j] = "whole")]
  /\ partFile' = [partFile EXCEPT ![j] = IF save[j].way = "rename" THEN "none" ELSE @]
  /\ Reach(j, IF save[j].way = "create" THEN "copy" ELSE "named")
  /\ UNCHANGED <<saved, opened, server, theirs, replaced, spoils>>

\* The bytes again, into the new file, wherever its name is by now.
CopyBytes(j) ==
  /\ save[j].at = "copy"
  /\ \/ /\ directory' = [directory EXCEPT ![Candidate(j)] = IF @ = Saved(j, FALSE) THEN Saved(j, TRUE) ELSE @]
        /\ Reach(j, "named") /\ Well
     \/ Reach(j, "failing") /\ Spoil /\ UNCHANGED directory
  /\ UNCHANGED <<partFile, saved, opened, server, theirs, replaced>>

\* The .part file goes, if it can; then the next attachment, or the error.
RemovePart(j) ==
  /\ save[j].at \in {"named", "failing"}
  /\ \/ partFile' = [partFile EXCEPT ![j] = "none"] /\ Well
     \/ partFile[j] # "none" /\ UNCHANGED partFile /\ Spoil
  /\ IF save[j].at = "named"
       THEN saved' = [saved EXCEPT ![j] = @ \cup {<<save[j].item, Candidate(j)>>}] /\ Reach(j, "fetch")
       ELSE UNCHANGED saved /\ Reach(j, "failed")
  /\ UNCHANGED <<directory, opened, server, theirs, replaced>>

-----------------------------------------------------------------------------
(* The daemon stops, and the others who write there.                       *)

Ended == {"idle", "done", "opened", "failed", "stopped"}

StopSaving ==
  /\ save' = [j \in Saves |-> IF save[j].at \in Ended THEN save[j] ELSE [save[j] EXCEPT !.at = "stopped"]]
  /\ Spoil /\ UNCHANGED <<directory, partFile, saved, opened, server, theirs, replaced>>

UserPuts(f) ==
  /\ directory' = [directory EXCEPT ![f] = Users] /\ theirs' = theirs \cup {f} /\ replaced' = replaced \cup LostWith(f)
  /\ Spoil /\ UNCHANGED <<save, partFile, saved, opened, server>>

UserRemoves(f) ==
  /\ directory[f] # FreeName
  /\ directory' = [directory EXCEPT ![f] = FreeName] /\ theirs' = theirs \ {f} /\ replaced' = replaced \cup LostWith(f)
  /\ Spoil /\ UNCHANGED <<save, partFile, saved, opened, server>>

PhoneRemoves(i) ==
  /\ i \in server /\ server' = server \ {i}
  /\ Spoil /\ UNCHANGED <<directory, save, partFile, saved, opened, theirs, replaced>>

-----------------------------------------------------------------------------
WriteFile(j) ==
  WritePart(j) \/ PlaceForced(j) \/ NextNumber(j) \/ NextWay(j) \/ PlaceFile(j) \/ CopyBytes(j) \/ RemovePart(j)

DownloadsNext ==
  \/ \E j \in Saves : \/ AskSave(j) \/ OpenDir(j) \/ AnswerSave(j) \/ OpenSaved(j) \/ WriteFile(j)
                      \/ \E i \in Enclosed : FetchNext(j, i)
  \/ StopSaving
  \/ \E f \in FileNames : UserPuts(f) \/ UserRemoves(f)
  \/ \E i \in Enclosed : PhoneRemoves(i)

DownloadsSpec == DownloadsInit /\ [][DownloadsNext]_fileVars

-----------------------------------------------------------------------------
Places == {"open", "fetch", "part", "fill", "place", "copy", "named", "failing"} \cup Ended
InFolder == [by : Saves \cup {"nobody", "user"}, item : Enclosed \cup {NoAttachment}, whole : BOOLEAN]

DownloadsTypeOK ==
  /\ directory \in [FileNames -> InFolder]
  /\ save \in [Saves -> [at : Places, todo : SUBSET Enclosed, item : Enclosed \cup {NoAttachment},
                         number : 0 .. LastNumber, way : {"link", "rename", "create"}, force : BOOLEAN]]
  /\ partFile \in [Saves -> {"none", "half", "whole"}]
  /\ saved \in [Saves -> SUBSET (Enclosed \X FileNames)]
  /\ opened \in [Saves -> InFolder]
  /\ server \subseteq Enclosed /\ theirs \subseteq FileNames
  /\ replaced \subseteq Saves \X Enclosed \X FileNames
  /\ spoils \in 0 .. MaxSpoils

\* A file of the user's is replaced only by a request with --force.
\* (files.rs: "without force nothing is ever replaced".)
UsersKept ==
  \A f \in theirs : \/ directory[f] = Users
                    \/ directory[f].by \in Saves /\ save[directory[f].by].force

\* Each file an answer names is there with all its attachment's bytes,
\* until the user or a request with force takes its place; and what the
\* terminal opens is such a file.  (files.rs write_new, mod.rs download.)
AnswerHolds ==
  \A j \in Saves :
    /\ \A s \in saved[j] : \/ directory[s[2]] = [by |-> j, item |-> s[1], whole |-> TRUE]
                           \/ <<j, s[1], s[2]>> \in replaced
    /\ \/ opened[j] = FreeName
       \/ \E s \in saved[j] : \/ opened[j] = [by |-> j, item |-> s[1], whole |-> TRUE]
                              \/ <<j, s[1], s[2]>> \in replaced

\* A file that is there in part is being written, or its request failed or
\* was stopped.
HalfIsTold ==
  \A f \in FileNames :
    \/ directory[f].whole
    \/ /\ directory[f].by \in Saves
       /\ save[directory[f].by].at \in {"copy", "failing", "failed", "stopped"}

SavedTrue == UsersKept /\ AnswerHolds /\ HalfIsTold
=============================================================================
