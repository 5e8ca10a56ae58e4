------------------------ MODULE PrepareSourceProofs ------------------------
(***************************************************************************)
(* Proofs about PrepareSource, for any list of managed files and any       *)
(* number of edits.                                                        *)
(*                                                                         *)
(* The inductive invariant says of each point of the tool what the tree,   *)
(* the originals and the files replaced have to do with the tree it found. *)
(***************************************************************************)
EXTENDS PrepareSource, TLAPS

USE DEF historyVars

\* Writing and rolling back are the points where the tree may differ from
\* what was found.
Writing == {"replacing", "rollingBack"}

\* Nothing is written before all is verified.
EarlyInv ==
    /\ pc \in {"staging", "verifying"} => written = {} /\ Kept
    /\ pc = "staging" => next = 1

\* File i has passed its verification.
Passed(i) == pc \in Writing \/ (pc = "verifying" /\ i < next)

\* What is kept for a rollback is acceptable, and is what was found.
OriginalsInv ==
    \A i \in DOMAIN Managed : Passed(i) =>
        /\ Acceptable(Managed[i], originals[Managed[i]])
        /\ Managed[i] \notin edited => originals[Managed[i]] = found[Managed[i]]

\* A file is replaced, or as it was found.
TreeInv ==
    pc \in Writing => \A i \in DOMAIN Managed : Managed[i] \notin edited =>
        files[Managed[i]] = IF i \in written THEN Target(Managed[i]) ELSE found[Managed[i]]

\* A file that was passed without a write needed none.
SkipInv ==
    pc = "replacing" => \A i \in DOMAIN Managed : i < next /\ i \notin written =>
        originals[Managed[i]] = Target(Managed[i])

\* A new content lies beside the file the loop is at, which needs it; what is
\* left of one is left by a failure or a kill.
ReplacementInv ==
    /\ pc \in {"staging", "verifying", "prepared"} => replacement = "none"
    /\ pc = "replacing" /\ replacement # "none" =>
          /\ replacement = "whole"
          /\ next =< Len(Managed)
          /\ originals[Managed[next]] # Target(Managed[next])

\* Only the end of a run fails over the scratch directory alone.
UncleanedInv == uncleaned => pc = "failed"

PhaseInv ==
    EarlyInv /\ OriginalsInv /\ TreeInv /\ SkipInv /\ ReplacementInv /\ UncleanedInv

IndInv == TypeOK /\ PhaseInv /\ AllOrNothing /\ SuccessIsComplete /\ UnknownEditsSurvive

-----------------------------------------------------------------------------
(* Lemmas about the constants.                                             *)

LEMMA ManagedTyped ==
  /\ Len(Managed) \in Nat
  /\ DOMAIN Managed = 1..Len(Managed)
  /\ \A i \in DOMAIN Managed : Managed[i] \in Files
  BY ManagedAssumption

LEMMA FirstTyped == 1 \in 1..(Len(Managed) + 1) /\ [f \in Files |-> Absent] \in [Files -> Contents]
  BY ManagedTyped DEF Contents

LEMMA EveryFileIsManaged == \A f \in Files : \E i \in DOMAIN Managed : Managed[i] = f
  BY DEF Files

LEMMA TargetAccepted ==
  ASSUME NEW f
  PROVE  Target(f) \in Contents /\ Acceptable(f, Target(f)) /\ Target(f) # Absent
  BY DEF Target, Content, Contents, Acceptable, Absent

LEMMA OwnerTyped ==
  ASSUME NEW f, NEW c \in OwnerContents(f)
  PROVE  c \in Contents
  BY DEF OwnerContents, Contents, Target, Content, Absent

LEMMA ContentTyped == Absent \in Contents /\ Content("truncated") \in Contents
  BY DEF Contents, Content, Absent

\* A tree whose every file was verified held no unknown edit.
LEMMA AllAcceptable ==
  ASSUME OriginalsInv, pc \in Writing
  PROVE  \A f \in Files \ edited : Acceptable(f, found[f])
  BY EveryFileIsManaged DEF OriginalsInv, Passed

-----------------------------------------------------------------------------
(* The initial state and the steps before the first write.                 *)

LEMMA InitInd == Init => IndInv
<1> SUFFICES ASSUME Init PROVE IndInv
  OBVIOUS
<1>1. TypeOK
  BY FirstTyped DEF Init, TypeOK, Ended
<1>2. Kept
  BY DEF Init, Kept
<1> QED
  BY <1>1, <1>2 DEF Init, IndInv, PhaseInv, EarlyInv, OriginalsInv, Passed, TreeInv, SkipInv,
      ReplacementInv, UncleanedInv, Writing, AllOrNothing, SuccessIsComplete, UnknownEditsSurvive

LEMMA BeginInd == IndInv /\ Begin => IndInv'
<1> SUFFICES ASSUME IndInv, Begin PROVE IndInv'
  OBVIOUS
<1>1. TypeOK'
  BY FirstTyped DEF IndInv, Begin, TypeOK, Running
<1>2. Kept'
  BY DEF Begin, Kept
<1> QED
  BY <1>1, <1>2 DEF Begin, IndInv, PhaseInv, EarlyInv, OriginalsInv, Passed, TreeInv, SkipInv,
      ReplacementInv, UncleanedInv, Writing, AllOrNothing, SuccessIsComplete, UnknownEditsSurvive, TypeOK, Ended

\* A step that leaves the tree and its history alone keeps what Kept says.
LEMMA KeptStable ==
  ASSUME UNCHANGED <<files, found, edited>>
  PROVE  Kept' = Kept /\ UnknownEditsSurvive' = UnknownEditsSurvive
  BY DEF Kept, UnknownEditsSurvive

LEMMA StageInd == IndInv /\ Stage => IndInv'
<1> SUFFICES ASSUME IndInv, Stage PROVE IndInv'
  OBVIOUS
<1>1. TypeOK'
  BY ManagedTyped DEF IndInv, Stage, TypeOK, Running, Ended
<1>2. Kept' /\ UnknownEditsSurvive'
  BY KeptStable DEF IndInv, PhaseInv, EarlyInv, Stage
<1>3. next' = 1 /\ \A i \in DOMAIN Managed : ~ (i < next')
  BY ManagedTyped DEF IndInv, PhaseInv, EarlyInv, Stage
<1> QED
  BY <1>1, <1>2, <1>3 DEF Stage, IndInv, PhaseInv, EarlyInv, OriginalsInv, Passed, TreeInv, SkipInv,
      ReplacementInv, UncleanedInv, Writing, AllOrNothing, SuccessIsComplete, TypeOK

LEMMA VerifyInd == IndInv /\ Verify => IndInv'
<1> SUFFICES ASSUME IndInv, Verify PROVE IndInv'
  OBVIOUS
<1> DEFINE f == Managed[next]
<1>1. next \in DOMAIN Managed /\ next + 1 \in 1..(Len(Managed) + 1) /\ f \in Files
  BY ManagedTyped DEF IndInv, TypeOK, Verify
<1>2. written = {} /\ Kept /\ pc = "verifying"
  BY DEF IndInv, PhaseInv, EarlyInv, Verify
<1>3. Kept' /\ UnknownEditsSurvive'
  BY <1>2, KeptStable DEF IndInv, Verify
<1>4. CASE /\ Acceptable(f, files[f])
           /\ originals' = [originals EXCEPT ![f] = files[f]]
           /\ next' = next + 1
           /\ UNCHANGED pc
  <2>1. /\ originals' = [originals EXCEPT ![f] = files[f]]
        /\ next' = next + 1
        /\ UNCHANGED <<pc, files, replacement, written, historyVars>>
    BY <1>4 DEF Verify
  <2>2. TypeOK'
    BY <1>1, <1>2, <2>1 DEF IndInv, TypeOK
  <2>3. ASSUME NEW i \in DOMAIN Managed, i < next'
        PROVE  /\ Acceptable(Managed[i], originals'[Managed[i]])
               /\ Managed[i] \notin edited => originals'[Managed[i]] = found[Managed[i]]
    <3>1. CASE Managed[i] = f
      BY <1>1, <1>2, <1>4, <2>1, <3>1 DEF IndInv, TypeOK, Kept
    <3>2. CASE Managed[i] # f
      <4>1. originals'[Managed[i]] = originals[Managed[i]]
        BY <2>1, <3>2, ManagedTyped DEF IndInv, TypeOK
      <4>2. i # next
        BY <3>2
      <4>3. i < next
        BY <1>1, <2>1, <2>3, <4>2, ManagedTyped
      <4> QED
        BY <1>2, <4>1, <4>3 DEF IndInv, PhaseInv, OriginalsInv, Passed
    <3> QED
      BY <3>1, <3>2
  <2>4. OriginalsInv'
    BY <1>2, <2>1, <2>3 DEF OriginalsInv, Passed, Writing, Acceptable, Absent, Target, Content
  <2> QED
    BY <1>2, <1>3, <2>1, <2>2, <2>4 DEF IndInv, PhaseInv, EarlyInv, TreeInv, SkipInv,
        ReplacementInv, UncleanedInv, Writing,
        AllOrNothing, SuccessIsComplete
<1>5. CASE pc' = "failed" /\ UNCHANGED <<next, originals>>
  <2>1. /\ pc' = "failed"
        /\ UNCHANGED <<next, originals, files, replacement, written, historyVars>>
    BY <1>5 DEF Verify
  <2>2. TypeOK'
    BY <2>1 DEF IndInv, TypeOK, Ended
  <2> QED
    BY <1>2, <1>3, <2>1, <2>2 DEF IndInv, PhaseInv, EarlyInv, OriginalsInv, Passed, TreeInv, SkipInv,
        ReplacementInv, UncleanedInv, Writing, AllOrNothing, SuccessIsComplete
<1> QED
  BY <1>4, <1>5 DEF Verify

LEMMA VerifiedInd == IndInv /\ Verified => IndInv'
<1> SUFFICES ASSUME IndInv, Verified PROVE IndInv'
  OBVIOUS
<1>1. TypeOK'
  BY FirstTyped DEF IndInv, PhaseInv, EarlyInv, Verified, TypeOK, Running
<1>2. written = {} /\ Kept /\ Kept' /\ UnknownEditsSurvive'
  BY KeptStable DEF IndInv, PhaseInv, EarlyInv, Verified
<1>3. \A i \in DOMAIN Managed : Passed(i) /\ ~ (i < next')
  BY ManagedTyped DEF Verified, Passed, IndInv, TypeOK
<1>4. OriginalsInv'
  BY <1>3 DEF IndInv, PhaseInv, OriginalsInv, Verified
<1>5. TreeInv'
  BY <1>2, ManagedTyped DEF TreeInv, Kept, Verified
<1> QED
  BY <1>1, <1>2, <1>3, <1>4, <1>5 DEF IndInv, PhaseInv, EarlyInv, SkipInv, ReplacementInv, UncleanedInv,
      AllOrNothing, SuccessIsComplete, Verified

-----------------------------------------------------------------------------
(* Writing. *)

\* While files are written, no property speaks of the tree itself.
LEMMA WritingInd ==
  ASSUME IndInv, pc \in Writing, pc' \in Writing, TypeOK', TreeInv', SkipInv', ReplacementInv',
         UNCHANGED <<originals, found, edited, uncleaned>>
  PROVE  IndInv'
<1>1. OriginalsInv'
  BY DEF IndInv, PhaseInv, OriginalsInv, Passed, Acceptable
<1>2. UnknownEditsSurvive'
  BY AllAcceptable DEF IndInv, PhaseInv, UnknownEditsSurvive
<1> QED
  BY <1>1, <1>2 DEF IndInv, PhaseInv, EarlyInv, UncleanedInv, AllOrNothing,
      SuccessIsComplete, Writing

LEMMA SkipInd == IndInv /\ Skip => IndInv'
<1> SUFFICES ASSUME IndInv, Skip PROVE IndInv'
  OBVIOUS
<1>1. next' = next + 1 /\ next \in 1..Len(Managed) /\ next' \in 1..(Len(Managed) + 1)
  BY ManagedTyped DEF IndInv, TypeOK, Skip
<1>2. TypeOK'
  BY <1>1 DEF IndInv, TypeOK, Skip
<1>3. TreeInv'
  BY DEF IndInv, PhaseInv, TreeInv, Skip, Writing
<1>4. SkipInv'
  <2> SUFFICES ASSUME NEW i \in DOMAIN Managed, i < next', i \notin written
               PROVE  originals[Managed[i]] = Target(Managed[i])
    BY DEF SkipInv, Skip
  <2>1. i < next \/ i = next
    BY <1>1, ManagedTyped
  <2> QED
    BY <2>1 DEF IndInv, PhaseInv, SkipInv, Skip
<1>5. ReplacementInv'
  BY DEF IndInv, PhaseInv, ReplacementInv, Skip
<1> QED
  BY <1>2, <1>3, <1>4, <1>5, WritingInd DEF Skip, Writing

LEMMA WriteReplacementInd == IndInv /\ WriteReplacement => IndInv'
<1> SUFFICES ASSUME IndInv, WriteReplacement PROVE IndInv'
  OBVIOUS
<1>1. TypeOK'
  BY DEF IndInv, TypeOK, WriteReplacement, Due, Running
<1>2. TreeInv' /\ SkipInv' /\ ReplacementInv'
  BY DEF IndInv, PhaseInv, TreeInv, SkipInv, ReplacementInv, WriteReplacement, Due, Writing
<1> QED
  BY <1>1, <1>2, WritingInd DEF WriteReplacement, Due, Writing

LEMMA RenameInd == IndInv /\ Rename => IndInv'
<1> SUFFICES ASSUME IndInv, Rename PROVE IndInv'
  OBVIOUS
<1>1. next \in DOMAIN Managed /\ next + 1 \in 1..(Len(Managed) + 1) /\ Managed[next] \in Files
  BY ManagedTyped DEF IndInv, PhaseInv, ReplacementInv, TypeOK, Rename
<1>2. CASE /\ files' = [files EXCEPT ![Managed[next]] = Target(Managed[next])]
           /\ written' = written \cup {next}
           /\ next' = next + 1
           /\ replacement' = "none"
           /\ pc' \in {pc, "rollingBack"}
  <2>1. written' \subseteq 1..(next' - 1)
    <3>1. written \subseteq 1..(next - 1) /\ next \in Nat /\ next >= 1
      BY <1>1, ManagedTyped DEF IndInv, TypeOK
    <3>2. next' - 1 = next /\ next \in 1..next
      BY <1>2, <3>1
    <3>3. 1..(next - 1) \subseteq 1..next
      BY <3>1
    <3> QED
      BY <1>2, <3>1, <3>2, <3>3
  <2>2. files' \in [Files -> Contents]
    BY <1>1, <1>2, TargetAccepted DEF IndInv, TypeOK
  <2>3. TypeOK'
    BY <1>1, <1>2, <2>1, <2>2 DEF IndInv, TypeOK, Rename, Running
  <2>4. TreeInv'
    <3> SUFFICES ASSUME NEW i \in DOMAIN Managed, Managed[i] \notin edited
                 PROVE  files'[Managed[i]] =
                            IF i \in written' THEN Target(Managed[i]) ELSE found[Managed[i]]
      BY <1>2 DEF TreeInv, Rename
    <3>1. CASE i = next
      BY <1>1, <1>2, <3>1 DEF IndInv, TypeOK
    <3>2. CASE i # next
      <4>1. Managed[i] # Managed[next] /\ Managed[i] \in Files
        BY <1>1, <3>2, ManagedAssumption, ManagedTyped
      <4>2. files'[Managed[i]] = files[Managed[i]]
        BY <1>2, <4>1 DEF IndInv, TypeOK
      <4> QED
        BY <1>2, <3>2, <4>2 DEF IndInv, PhaseInv, TreeInv, Writing, Rename
    <3> QED
      BY <3>1, <3>2
  <2>5. SkipInv'
    <3> SUFFICES ASSUME NEW i \in DOMAIN Managed, i < next', i \notin written'
                 PROVE  originals[Managed[i]] = Target(Managed[i])
      BY DEF SkipInv, Rename
    <3>1. i < next /\ i \notin written
      BY <1>1, <1>2, ManagedTyped
    <3> QED
      BY <3>1 DEF IndInv, PhaseInv, SkipInv, Rename
  <2> QED
    BY <1>2, <2>3, <2>4, <2>5, WritingInd DEF Rename, ReplacementInv, Writing
<1>3. CASE /\ replacement' \in {"none", "whole"}
           /\ pc' = "rollingBack"
           /\ UNCHANGED <<files, next, written>>
  <2>1. TypeOK'
    BY <1>3 DEF IndInv, TypeOK, Rename, Running
  <2>2. TreeInv' /\ SkipInv'
    BY <1>3 DEF IndInv, PhaseInv, TreeInv, SkipInv, Rename, Writing
  <2> QED
    BY <1>3, <2>1, <2>2, WritingInd DEF Rename, ReplacementInv, Writing
<1> QED
  BY <1>2, <1>3 DEF Rename

LEMMA FinishInd == IndInv /\ Finish => IndInv'
<1> SUFFICES ASSUME IndInv, Finish PROVE IndInv'
  OBVIOUS
<1>1. TypeOK'
  BY DEF IndInv, TypeOK, Finish, Ended
<1>2. ASSUME NEW i \in DOMAIN Managed, Managed[i] \notin edited
      PROVE  files[Managed[i]] = Target(Managed[i])
  <2>1. CASE i \in written
    BY <1>2, <2>1 DEF IndInv, PhaseInv, TreeInv, Finish, Writing
  <2>2. CASE i \notin written
    <3>1. i < next
      BY ManagedTyped DEF IndInv, TypeOK, Finish
    <3>2. originals[Managed[i]] = Target(Managed[i])
      BY <2>2, <3>1 DEF IndInv, PhaseInv, SkipInv, Finish
    <3>3. originals[Managed[i]] = found[Managed[i]] /\ files[Managed[i]] = found[Managed[i]]
      BY <1>2, <2>2 DEF IndInv, PhaseInv, OriginalsInv, Passed, TreeInv, Finish, Writing
    <3> QED
      BY <3>2, <3>3
  <2> QED
    BY <2>1, <2>2
<1>3. replacement = "none"
  BY ManagedTyped DEF IndInv, TypeOK, PhaseInv, ReplacementInv, Finish
<1>4. Prepared'
  BY <1>2, EveryFileIsManaged DEF Prepared, Finish, Target
<1>5. UnknownEditsSurvive'
  BY KeptStable DEF IndInv, Finish
<1> QED
  BY <1>1, <1>3, <1>4, <1>5 DEF Finish, IndInv, PhaseInv, EarlyInv, OriginalsInv, Passed,
      TreeInv, SkipInv, ReplacementInv, UncleanedInv, Writing, AllOrNothing, SuccessIsComplete

-----------------------------------------------------------------------------
(* Rolling back, and being killed.                                         *)

LEMMA RestoreInd == IndInv /\ Restore => IndInv'
<1> SUFFICES ASSUME IndInv, Restore PROVE IndInv'
  OBVIOUS
<1>1. PICK i \in written :
        /\ files' = [files EXCEPT ![Managed[i]] = originals[Managed[i]]]
        /\ written' = written \ {i}
  BY DEF Restore
<1>2. i \in DOMAIN Managed /\ Managed[i] \in Files
  BY ManagedTyped DEF IndInv, TypeOK
<1>3. originals[Managed[i]] \in Contents
  BY <1>2 DEF IndInv, TypeOK
<1>4. TypeOK'
  BY <1>1, <1>2, <1>3 DEF IndInv, TypeOK, Restore
<1>5. TreeInv'
  <2> SUFFICES ASSUME NEW j \in DOMAIN Managed, Managed[j] \notin edited
               PROVE  files'[Managed[j]] =
                          IF j \in written' THEN Target(Managed[j]) ELSE found[Managed[j]]
    BY DEF TreeInv, Restore
  <2>1. CASE j = i
    <3>1. files'[Managed[j]] = originals[Managed[j]] /\ j \notin written'
      BY <1>1, <1>2, <2>1 DEF IndInv, TypeOK
    <3> QED
      BY <3>1 DEF IndInv, PhaseInv, OriginalsInv, Passed, Restore, Writing
  <2>2. CASE j # i
    <3>1. Managed[j] # Managed[i] /\ Managed[j] \in Files
      BY <1>2, <2>2, ManagedAssumption, ManagedTyped
    <3>2. files'[Managed[j]] = files[Managed[j]]
      BY <1>1, <3>1 DEF IndInv, TypeOK
    <3> QED
      BY <1>1, <2>2, <3>2 DEF IndInv, PhaseInv, TreeInv, Restore, Writing
  <2> QED
    BY <2>1, <2>2
<1>6. SkipInv' /\ ReplacementInv'
  BY DEF IndInv, PhaseInv, SkipInv, ReplacementInv, Restore
<1> QED
  BY <1>4, <1>5, <1>6, WritingInd DEF Restore, Writing

LEMMA HalfRestoredTyped ==
  ASSUME TypeOK, NEW i \in written, HalfRestored(i)
  PROVE  files' \in [Files -> Contents]
<1>1. i \in DOMAIN Managed /\ Managed[i] \in Files
  BY ManagedTyped DEF TypeOK
<1> QED
  BY <1>1, ContentTyped DEF TypeOK, HalfRestored

LEMMA RestoreFailsInd == IndInv /\ RestoreFails => IndInv'
<1> SUFFICES ASSUME IndInv, RestoreFails PROVE IndInv'
  OBVIOUS
<1>1. files' \in [Files -> Contents]
  BY HalfRestoredTyped DEF RestoreFails, IndInv
<1>2. TypeOK'
  BY <1>1 DEF IndInv, TypeOK, RestoreFails, Ended
<1>3. UnknownEditsSurvive'
  BY AllAcceptable DEF IndInv, PhaseInv, UnknownEditsSurvive, RestoreFails, Writing
<1> QED
  BY <1>2, <1>3 DEF RestoreFails, IndInv, PhaseInv, EarlyInv, OriginalsInv, Passed, TreeInv,
      SkipInv, ReplacementInv, UncleanedInv, Writing, AllOrNothing, SuccessIsComplete

LEMMA RolledBackInd == IndInv /\ RolledBack => IndInv'
<1> SUFFICES ASSUME IndInv, RolledBack PROVE IndInv'
  OBVIOUS
<1>1. TypeOK'
  BY DEF IndInv, TypeOK, RolledBack, Ended
<1>2. Kept'
  <2> SUFFICES ASSUME NEW f \in Files \ edited PROVE files[f] = found[f]
    BY DEF Kept, RolledBack
  <2>1. PICK i \in DOMAIN Managed : Managed[i] = f
    BY EveryFileIsManaged
  <2> QED
    BY <2>1 DEF IndInv, PhaseInv, TreeInv, RolledBack, Writing
<1> QED
  BY <1>1, <1>2 DEF RolledBack, IndInv, PhaseInv, EarlyInv, OriginalsInv, Passed, TreeInv,
      SkipInv, ReplacementInv, UncleanedInv, Writing, AllOrNothing, SuccessIsComplete, UnknownEditsSurvive

LEMMA KillInd == IndInv /\ Kill => IndInv'
<1> SUFFICES ASSUME IndInv, Kill PROVE IndInv'
  OBVIOUS
<1>1. files' \in [Files -> Contents]
  BY HalfRestoredTyped DEF Kill, IndInv, TypeOK
<1>2. TypeOK'
  BY <1>1 DEF IndInv, TypeOK, Kill, Due, Ended
<1>3. UnknownEditsSurvive'
  <2>1. CASE UNCHANGED files
    BY <2>1, KeptStable DEF IndInv, Kill
  <2>2. CASE pc = "rollingBack"
    BY <2>2, AllAcceptable DEF IndInv, PhaseInv, UnknownEditsSurvive, Kill, Writing
  <2> QED
    BY <2>1, <2>2 DEF Kill
<1>4. UncleanedInv'
  BY DEF IndInv, PhaseInv, UncleanedInv, Kill, Running
<1> QED
  BY <1>2, <1>3, <1>4 DEF Kill, IndInv, PhaseInv, EarlyInv, OriginalsInv, Passed, TreeInv, SkipInv,
      ReplacementInv, Writing, AllOrNothing, SuccessIsComplete

LEMMA EditInd ==
  ASSUME IndInv, NEW f \in Files, NEW c \in OwnerContents(f), Edit(f, c)
  PROVE  IndInv'
<1>1. c \in Contents
  BY OwnerTyped
<1>2. TypeOK'
  BY <1>1 DEF IndInv, TypeOK, Edit, toolVars
<1>3. CASE Unverified(f)
  <2>1. found' = [found EXCEPT ![f] = c] /\ UNCHANGED <<edited, toolVars, damaged, uncleaned>>
    BY <1>3 DEF Edit
  <2>2. pc \in {"staging", "verifying"} /\ Kept
    BY <1>3 DEF Unverified, IndInv, PhaseInv, EarlyInv
  <2>3. Kept'
    BY <2>1, <2>2 DEF Kept, IndInv, TypeOK, Edit
  <2>4. ASSUME NEW i \in DOMAIN Managed, Passed(i)
        PROVE  Managed[i] \in Files /\ Managed[i] # f
    BY <1>3, <2>2, <2>4, ManagedAssumption, ManagedTyped
       DEF Unverified, Passed, Writing, IndInv, TypeOK
  <2>5. \A i \in DOMAIN Managed : Passed(i) => found'[Managed[i]] = found[Managed[i]]
    BY <2>1, <2>4 DEF IndInv, TypeOK
  <2>6. OriginalsInv'
    BY <2>1, <2>5 DEF IndInv, PhaseInv, OriginalsInv, Passed, Acceptable, toolVars
  <2> QED
    BY <1>2, <2>1, <2>2, <2>3, <2>6 DEF IndInv, PhaseInv, EarlyInv, TreeInv, SkipInv,
        ReplacementInv, UncleanedInv, Writing, AllOrNothing, SuccessIsComplete,
        UnknownEditsSurvive, toolVars
<1>4. CASE ~ Unverified(f)
  <2>1. edited' = edited \cup {f} /\ UNCHANGED <<found, toolVars, damaged, uncleaned>>
    BY <1>4 DEF Edit
  <2>2. \A g \in Files \ edited' : g \in Files \ edited /\ files'[g] = files[g]
    BY <2>1 DEF IndInv, TypeOK, Edit
  <2>3. (Kept => Kept') /\ (Prepared => Prepared')
    BY <2>1, <2>2 DEF Kept, Prepared, Target
  <2>4. EarlyInv' /\ AllOrNothing' /\ UncleanedInv'
    BY <2>1, <2>3 DEF IndInv, PhaseInv, EarlyInv, AllOrNothing, UncleanedInv, toolVars
  <2>5. OriginalsInv' /\ SkipInv' /\ ReplacementInv'
    BY <2>1, <2>2, ManagedTyped DEF IndInv, PhaseInv, OriginalsInv, Passed, SkipInv,
        ReplacementInv, toolVars
  <2>6. TreeInv'
    BY <2>1, <2>2, ManagedTyped DEF IndInv, PhaseInv, TreeInv, toolVars
  <2>7. SuccessIsComplete' /\ UnknownEditsSurvive'
    BY <2>1, <2>2, <2>3 DEF IndInv, SuccessIsComplete, UnknownEditsSurvive, toolVars
  <2> QED
    BY <1>2, <2>4, <2>5, <2>6, <2>7 DEF IndInv, PhaseInv
<1> QED
  BY <1>3, <1>4

LEMMA StutterInd == IndInv /\ UNCHANGED vars => IndInv'
  BY DEF vars, toolVars, IndInv, TypeOK, PhaseInv, EarlyInv, OriginalsInv, Passed, TreeInv,
      SkipInv, ReplacementInv, UncleanedInv, AllOrNothing, SuccessIsComplete,
      UnknownEditsSurvive, Kept, Prepared

LEMMA StepInd == IndInv /\ [Next]_vars => IndInv'
<1> SUFFICES ASSUME IndInv, [Next]_vars PROVE IndInv'
  OBVIOUS
<1>1. ASSUME NEW f \in Files, NEW c \in OwnerContents(f), Edit(f, c)
      PROVE  IndInv'
  BY <1>1, EditInd
<1> QED
  BY <1>1, BeginInd, StageInd, VerifyInd, VerifiedInd, SkipInd, WriteReplacementInd, RenameInd,
     FinishInd, RestoreInd, RestoreFailsInd, RolledBackInd, KillInd, StutterInd DEF Next

LEMMA Inductive == Spec => []IndInv
<1>1. Init => IndInv
  BY InitInd
<1>2. IndInv /\ [Next]_vars => IndInv'
  BY StepInd
<1> QED
  BY <1>1, <1>2, PTL DEF Spec

-----------------------------------------------------------------------------
(* The theorems. *)

\* Every variable keeps its type, and only files the loop has passed count as
\* replaced.
THEOREM TypeCorrect == Spec => []TypeOK
<1>1. IndInv => TypeOK
  BY DEF IndInv
<1> QED
  BY <1>1, Inductive, PTL

\* A preparation that fails, and whose rollback was not cut short, has left
\* every file as it found it; but if all it failed over was the removal of its
\* scratch directory, it has given every file its desired content.
THEOREM FailureIsAllOrNothing == Spec => []AllOrNothing
<1>1. IndInv => AllOrNothing
  BY DEF IndInv
<1> QED
  BY <1>1, Inductive, PTL

\* A preparation that succeeds has given every file its desired content, and
\* left no replacement beside one.
THEOREM SuccessSafe == Spec => []SuccessIsComplete
<1>1. IndInv => SuccessIsComplete
  BY DEF IndInv
<1> QED
  BY <1>1, Inductive, PTL

\* A tree with an unknown edit is left exactly as it was found.
THEOREM EditsSafe == Spec => []UnknownEditsSurvive
<1>1. IndInv => UnknownEditsSurvive
  BY DEF IndInv
<1> QED
  BY <1>1, Inductive, PTL

\* The tool never makes a file it would refuse, but in a restore cut short.
THEOREM RerunSafe == Spec => RerunIsAccepted
<1> DEFINE Allowed(f) ==
        \/ \E c \in OwnerContents(f) : Edit(f, c)
        \/ pc = "rollingBack" /\ pc' \in {"failed", "killed"}
           Step == \A f \in Files :
        Acceptable(f, files[f]) /\ ~ Acceptable(f, files'[f]) => Allowed(f)
<1>1. ASSUME IndInv, [Next]_vars PROVE Step
  <2> SUFFICES ASSUME NEW f \in Files, Acceptable(f, files[f]), ~ Acceptable(f, files'[f])
               PROVE  Allowed(f)
    OBVIOUS
  <2>1. files' # files
    OBVIOUS
  <2>2. CASE Rename
    <3>1. files' = [files EXCEPT ![Managed[next]] = Target(Managed[next])]
      BY <2>1, <2>2 DEF Rename
    <3>2. files'[f] = files[f] \/ files'[f] = Target(f)
      BY <1>1, <3>1 DEF IndInv, TypeOK
    <3> QED
      BY <3>2, TargetAccepted
  <2>3. CASE Restore
    <3>1. PICK i \in written : files' = [files EXCEPT ![Managed[i]] = originals[Managed[i]]]
      BY <2>3 DEF Restore
    <3>2. i \in DOMAIN Managed
      BY <1>1, ManagedTyped DEF IndInv, TypeOK
    <3>3. Acceptable(Managed[i], originals[Managed[i]])
      BY <1>1, <2>3, <3>2 DEF IndInv, PhaseInv, OriginalsInv, Passed, Restore, Writing
    <3>4. files'[f] = files[f] \/ (f = Managed[i] /\ files'[f] = originals[f])
      BY <1>1, <3>1 DEF IndInv, TypeOK
    <3> QED
      BY <3>3, <3>4
  <2>4. CASE RestoreFails \/ Kill
    BY <2>1, <2>4 DEF RestoreFails, Kill
  <2>5. ASSUME NEW g \in Files, NEW c \in OwnerContents(g), Edit(g, c)
        PROVE  Allowed(f)
    <3>1. f = g
      BY <1>1, <2>5 DEF Edit, IndInv, TypeOK
    <3> QED
      BY <2>5, <3>1
  <2>6. ASSUME UNCHANGED files PROVE FALSE
    BY <2>1, <2>6
  <2> QED
    BY <1>1, <2>2, <2>3, <2>4, <2>5, <2>6 DEF Next, Begin, Stage, Verify, Verified, Skip,
       WriteReplacement, Finish, RolledBack, vars
<1>2. IndInv /\ [Next]_vars => Step
  BY <1>1
<1> HIDE DEF Step
<1>3. Spec => [][Step]_vars
  BY <1>2, Inductive, PTL DEF Spec
<1> QED
  BY <1>3 DEF RerunIsAccepted, Step

=============================================================================
