--------------------------- MODULE PrepareSource ---------------------------
(***************************************************************************)
(* The preparation of a Jellyfin Web source tree                           *)
(* (scripts/prepare-jellyfin-web.mjs): the managed files are verified one  *)
(* by one, then replaced one by one; a failure restores what was replaced, *)
(* a kill, or a failure to remove the scratch directory, does not, and the *)
(* tool may be run again at any time.                                      *)
(*                                                                         *)
(* A content is its blob and its line ends: fingerprints see the blob only *)
(* (canonical), the comparison before a replacement sees both.  The tree's *)
(* owner may edit a managed file at any moment, also while the tool runs.  *)
(***************************************************************************)
EXTENDS Integers, Sequences, FiniteSets

CONSTANTS
    Managed,        \* the managed files, in the order of desired
    Upstream,       \* those with an upstream fingerprint; the others are owned
    Untouched,      \* the upstream files no patch changes
    Migrated,       \* those with previousOverlayHashes
    MaxEdited       \* bound: the files their owner changes during one run

Files == {Managed[i] : i \in DOMAIN Managed}

ASSUME ManagedAssumption ==
    /\ Managed \in Seq(Files)
    /\ \A i, j \in DOMAIN Managed : Managed[i] = Managed[j] => i = j
    /\ Upstream \subseteq Files
    /\ Untouched \subseteq Upstream
    /\ Migrated \subseteq Files
    /\ MaxEdited \in Nat

VARIABLES
    files,          \* the source tree
    pc,             \* where the tool stands
    next,           \* the index of the file the current loop is at
    originals,      \* the contents verified before the first write
    replacement,    \* what lies beside the target the loop came to last
    written,        \* the indices of the files replaced so far
    \* history, read by the properties only
    found,          \* the tree as the tool found it, file by file
    edited,         \* the files their owner has changed since
    damaged,        \* a rollback was cut short
    uncleaned       \* all files were replaced, and the clean-up failed

toolVars == <<pc, next, originals, replacement, written>>
historyVars == <<found, edited, damaged, uncleaned>>
vars == <<files, toolVars, historyVars>>

Absent == [blob |-> "absent", lf |-> TRUE]
Content(blob) == [blob |-> blob, lf |-> TRUE]

Contents ==
    [blob : {"pristine", "prepared"}, lf : BOOLEAN]
        \cup {Absent, Content("previous"), Content("unknown"), Content("truncated")}

Running == {"staging", "verifying", "replacing", "rollingBack"}
Ended == {"idle", "prepared", "failed", "killed"}

\* desired: an upstream file no patch touches stays as it is upstream.
Target(f) == Content(IF f \in Untouched THEN "pristine" ELSE "prepared")

\* What the owner may make of a file; any edit of theirs is "unknown".
OwnerContents(f) ==
    {Absent, Content("unknown")}
        \cup [blob : {Target(f).blob}, lf : BOOLEAN]
        \cup (IF f \in Upstream THEN [blob : {"pristine"}, lf : BOOLEAN] ELSE {})
        \cup (IF f \in Migrated THEN {Content("previous")} ELSE {})

\* A file may be absent only where the tool creates it, and present only with
\* the upstream, the desired or a previous overlay's fingerprint.
Acceptable(f, c) ==
    \/ c = Absent /\ f \notin Upstream
    \/ c.blob = "pristine" /\ f \in Upstream
    \/ c.blob = Target(f).blob
    \/ c.blob = "previous" /\ f \in Migrated

Init ==
    /\ files \in [Files -> Contents]
    /\ \A f \in Files : files[f] \in OwnerContents(f)
    /\ pc = "idle"
    /\ next = 1
    /\ originals = [f \in Files |-> Absent]
    /\ replacement = "none"
    /\ written = {}
    /\ found = files
    /\ edited = {}
    /\ damaged = FALSE
    /\ uncleaned = FALSE

-----------------------------------------------------------------------------
Begin ==
    /\ pc \in Ended
    /\ pc' = "staging"
    /\ next' = 1
    /\ written' = {}
    /\ originals' = [f \in Files |-> Absent]
    /\ replacement' = "none"
    /\ found' = files
    /\ edited' = {}
    /\ damaged' = FALSE
    /\ uncleaned' = FALSE
    /\ UNCHANGED files

\* The version, the commit, the fingerprints and the patches are checked in a
\* scratch directory.
Stage ==
    /\ pc = "staging"
    /\ pc' \in {"verifying", "failed"}
    /\ UNCHANGED <<files, next, originals, replacement, written, historyVars>>

\* Defect: a file that is there is not compared with anything.
VerifyPresence ==
    /\ pc = "verifying"
    /\ next =< Len(Managed)
    /\ \/ /\ files[Managed[next]] # Absent \/ Managed[next] \notin Upstream
          /\ originals' = [originals EXCEPT ![Managed[next]] = files[Managed[next]]]
          /\ next' = next + 1
          /\ UNCHANGED pc
       \/ /\ pc' = "failed"
          /\ UNCHANGED <<next, originals>>
    /\ UNCHANGED <<files, replacement, written, historyVars>>

\* Every file is checked, and kept for a rollback, before the first write.  It
\* is refused, or cannot be read.
Verify ==
    /\ pc = "verifying"
    /\ next =< Len(Managed)
    /\ \/ /\ Acceptable(Managed[next], files[Managed[next]])
          /\ originals' = [originals EXCEPT ![Managed[next]] = files[Managed[next]]]
          /\ next' = next + 1
          /\ UNCHANGED pc
       \/ /\ pc' = "failed"
          /\ UNCHANGED <<next, originals>>
    /\ UNCHANGED <<files, replacement, written, historyVars>>

Verified ==
    /\ pc = "verifying"
    /\ next > Len(Managed)
    /\ pc' = "replacing"
    /\ next' = 1
    /\ UNCHANGED <<files, originals, replacement, written, historyVars>>

\* Defect: a file is left alone when only its fingerprint is the desired one.
SkipSameFingerprint ==
    /\ pc = "replacing"
    /\ next =< Len(Managed)
    /\ originals[Managed[next]].blob = Target(Managed[next]).blob
    /\ next' = next + 1
    /\ UNCHANGED <<files, pc, originals, replacement, written, historyVars>>

\* A file that was found with the desired bytes is left alone.
Skip ==
    /\ pc = "replacing"
    /\ next =< Len(Managed)
    /\ originals[Managed[next]] = Target(Managed[next])
    /\ next' = next + 1
    /\ UNCHANGED <<files, pc, originals, replacement, written, historyVars>>

\* The loop is at a file that needs a new content, which it has not written.
Due ==
    /\ pc = "replacing"
    /\ next =< Len(Managed)
    /\ replacement = "none"
    /\ originals[Managed[next]] # Target(Managed[next])

\* Defect: the target itself is opened for the new content.
WriteInPlace ==
    /\ Due
    /\ replacement' = "whole"
    /\ files' = [files EXCEPT ![Managed[next]] = Content("truncated")]
    /\ UNCHANGED <<pc, next, originals, written, historyVars>>

\* The new content is written to a file of its own; if that fails part-way,
\* replacementCreated is still false and what was written stays.
WriteReplacement ==
    /\ Due
    /\ \/ replacement' = "whole" /\ UNCHANGED pc
       \/ replacement' \in {"none", "half"} /\ pc' = "rollingBack"
    /\ UNCHANGED <<files, next, originals, written, historyVars>>

\* Defect: only files that were there before are recorded for a rollback.
RenameUnrecorded ==
    /\ pc = "replacing"
    /\ replacement = "whole"
    /\ \/ /\ files' = [files EXCEPT ![Managed[next]] = Target(Managed[next])]
          /\ written' = IF originals[Managed[next]] = Absent THEN written
                        ELSE written \cup {next}
          /\ next' = next + 1
          /\ replacement' = "none"
          /\ pc' \in {pc, "rollingBack"}
       \/ /\ replacement' \in {"none", "whole"}
          /\ pc' = "rollingBack"
          /\ UNCHANGED <<files, next, written>>
    /\ UNCHANGED <<originals, historyVars>>

\* The new content is renamed over its target, which never leaves half a file,
\* and what lies beside it is removed.  Either may fail: the removal after the
\* file is replaced and recorded, or of a replacement that then stays.
Rename ==
    /\ pc = "replacing"
    /\ replacement = "whole"
    /\ \/ /\ files' = [files EXCEPT ![Managed[next]] = Target(Managed[next])]
          /\ written' = written \cup {next}
          /\ next' = next + 1
          /\ replacement' = "none"
          /\ pc' \in {pc, "rollingBack"}
       \/ /\ replacement' \in {"none", "whole"}
          /\ pc' = "rollingBack"
          /\ UNCHANGED <<files, next, written>>
    /\ UNCHANGED <<originals, historyVars>>

\* The scratch directory is removed after the last file; if that fails, the
\* preparation fails, and nothing is rolled back.
Finish ==
    /\ pc = "replacing"
    /\ next > Len(Managed)
    /\ \/ pc' = "prepared" /\ UNCHANGED uncleaned
       \/ pc' = "failed" /\ uncleaned' = TRUE
    /\ UNCHANGED <<files, next, originals, replacement, written, found, edited, damaged>>

\* The file replaced last of those that are not restored yet.
IsLast(i) == i \in written /\ \A j \in written : j =< i

\* The replaced files are restored, the last one first.  The original is
\* written in place: a restore that fails leaves the file or half of it, and
\* ends the rollback.
Restore ==
    /\ pc = "rollingBack"
    /\ \E i \in written :
          /\ IsLast(i)
          /\ files' = [files EXCEPT ![Managed[i]] = originals[Managed[i]]]
          /\ written' = written \ {i}
    /\ UNCHANGED <<pc, next, originals, replacement, historyVars>>

\* What is left of a file whose restore did not end.
HalfRestored(i) ==
    \/ UNCHANGED files
    \/ /\ originals[Managed[i]] # Absent
       /\ files' = [files EXCEPT ![Managed[i]] = Content("truncated")]

RestoreFails ==
    /\ pc = "rollingBack"
    /\ \E i \in written : IsLast(i) /\ HalfRestored(i)
    /\ pc' = "failed"
    /\ damaged' = TRUE
    /\ UNCHANGED <<next, originals, replacement, written, found, edited, uncleaned>>

RolledBack ==
    /\ pc = "rollingBack"
    /\ written = {}
    /\ pc' = "failed"
    /\ UNCHANGED <<files, next, originals, replacement, written, historyVars>>

-----------------------------------------------------------------------------
(* The environment. *)

\* The process is killed between two file operations, within the writing of a
\* replacement, or within a restore.
Kill ==
    /\ pc \in Running
    /\ pc' = "killed"
    /\ \/ UNCHANGED <<files, replacement>>
       \/ Due /\ replacement' = "half" /\ UNCHANGED files
       \/ /\ pc = "rollingBack"
          /\ \E i \in written : IsLast(i) /\ HalfRestored(i)
          /\ UNCHANGED replacement
    /\ UNCHANGED <<next, originals, written, historyVars>>

\* The tool has been started and has not come to file f.
Unverified(f) ==
    \/ pc = "staging"
    \/ pc = "verifying" /\ \E i \in DOMAIN Managed : Managed[i] = f /\ i >= next

\* The owner edits, restores or removes a managed file.  Until it is verified
\* the tool finds what they have made of it.
Edit(f, c) ==
    /\ files' = [files EXCEPT ![f] = c]
    /\ IF Unverified(f)
       THEN /\ found' = [found EXCEPT ![f] = c]
            /\ UNCHANGED edited
       ELSE /\ edited' = edited \cup {f}
            /\ Cardinality(edited') =< MaxEdited
            /\ UNCHANGED found
    /\ UNCHANGED <<toolVars, damaged, uncleaned>>

Next ==
    \/ Begin \/ Stage \/ Verify \/ Verified \/ Skip \/ WriteReplacement \/ Rename
    \/ Finish \/ Restore \/ RestoreFails \/ RolledBack \/ Kill
    \/ \E f \in Files : \E c \in OwnerContents(f) : Edit(f, c)

Spec == Init /\ [][Next]_vars

-----------------------------------------------------------------------------
(* Properties. *)

\* Every variable has its type, and only files already passed are replaced.
TypeOK ==
    /\ files \in [Files -> Contents]
    /\ pc \in Running \cup Ended
    /\ next \in 1..(Len(Managed) + 1)
    /\ originals \in [Files -> Contents]
    /\ replacement \in {"none", "half", "whole"}
    /\ written \subseteq 1..(next - 1)
    /\ found \in [Files -> Contents]
    /\ edited \subseteq Files
    /\ damaged \in BOOLEAN
    /\ uncleaned \in BOOLEAN

Kept == \A f \in Files \ edited : files[f] = found[f]

Prepared == \A f \in Files \ edited : files[f] = Target(f)

\* A preparation that reports a failure has changed no managed file: what it
\* replaced it has restored, what it created it has removed (the catch of
\* prepareSource).  It has changed all of them if it failed over nothing but its
\* scratch directory (the finally).  A replacement may stay beside the file it
\* failed over.
AllOrNothing ==
    pc = "failed" /\ ~ damaged => IF uncleaned THEN Prepared ELSE Kept

\* A preparation that reports success has given every managed file its
\* desired content, whatever the interrupted runs before it left behind, and has
\* left no replacement of its own.
SuccessIsComplete == pc = "prepared" => Prepared /\ replacement = "none"

\* A tree that holds an edit the tool does not know is left exactly as it is:
\* no file is written before the last one is verified.  The edit may be as late
\* as the verification of its file.
UnknownEditsSurvive ==
    (\E f \in Files \ edited : ~ Acceptable(f, found[f])) => Kept

\* The tool itself never makes a file it would refuse the next time, however
\* often it is killed: only a restore cut short can (rename over the target).
RerunIsAccepted ==
    [][\A f \in Files :
        Acceptable(f, files[f]) /\ ~ Acceptable(f, files'[f]) =>
            \/ \E c \in OwnerContents(f) : Edit(f, c)
            \/ pc = "rollingBack" /\ pc' \in {"failed", "killed"}]_vars

=============================================================================
