--------------------------- MODULE TaskAgentsProofs ---------------------------
(***************************************************************************)
(* Theorems about TaskAgents, for any tasks, files and slots.              *)
(***************************************************************************)
EXTENDS TaskAgents, Integers, SequenceTheorems, FiniteSetTheorems, TLAPS

SlotsTypeOK ==
    /\ taskQueue \in Seq(Tasks)
    /\ activeTaskCount \in 0..MaxConcurrentTasks
    /\ phase \in [Tasks -> Phases]

\* What the steps keep of the slots.
SlotsInv == SlotsTypeOK /\ SlotsMatchTasks

RunningTasks == {t \in Tasks : phase[t] \in Running}

-----------------------------------------------------------------------------
(* The slots.                                                              *)

\* No task waits while a slot is free, so a task that ends lets in one at most.
LEMMA OneIsAdmitted ==
    ASSUME SlotsInv
    PROVE  FreeSlots = IF taskQueue = <<>> THEN 0 ELSE 1
<1> USE DEF SlotsInv, SlotsTypeOK, SlotsMatchTasks
<1>1. Len(taskQueue) \in Nat /\ (taskQueue = <<>> <=> Len(taskQueue) = 0)
  BY EmptySeq, LenProperties
<1> QED
  BY <1>1, SlotsAssumption DEF FreeSlots

\* The first waiting task is the one let in, and is not waiting any more.
LEMMA HeadIsAdmitted ==
    ASSUME SlotsInv, taskQueue # <<>>
    PROVE  /\ Admitted(1) = {taskQueue[1]}
           /\ taskQueue[1] \in Tasks
           /\ phase[taskQueue[1]] = "queued"
<1> USE DEF SlotsInv, SlotsTypeOK, SlotsMatchTasks
<1>1. Len(taskQueue) \in Nat \ {0}
  BY EmptySeq, LenProperties
<1>2. 1 \in DOMAIN taskQueue /\ taskQueue[1] \in Tasks
  BY <1>1, LenProperties
<1>3. phase[taskQueue[1]] = "queued"
  BY <1>2 DEF ToSet
<1>4. /\ SubSeq(taskQueue, 1, 1) \in Seq(Tasks)
      /\ Len(SubSeq(taskQueue, 1, 1)) = 1
      /\ SubSeq(taskQueue, 1, 1)[1] = taskQueue[1]
  BY <1>2, SubSeqProperties
<1>5. DOMAIN SubSeq(taskQueue, 1, 1) = {1}
  BY <1>4, LenProperties
<1>6. ToSet(SubSeq(taskQueue, 1, 1)) = {taskQueue[1]}
  BY <1>4, <1>5 DEF ToSet
<1> QED
  BY <1>2, <1>3, <1>6 DEF Admitted

\* What is left of a list when its first element is taken.
LEMMA WithoutFirst ==
    ASSUME NEW s \in Seq(Tasks), Len(s) # 0
    PROVE  /\ SubSeq(s, 2, Len(s)) \in Seq(Tasks)
           /\ Len(SubSeq(s, 2, Len(s))) = Len(s) - 1
           /\ \A i \in 1..Len(s) - 1 : SubSeq(s, 2, Len(s))[i] = s[i + 1]
<1> DEFINE n == Len(s)
<1>1. n \in Nat \ {0} /\ \A i \in 2..n : s[i] \in Tasks
  BY LenProperties
<1> HIDE DEF n
<1>2. /\ SubSeq(s, 2, n) \in Seq(Tasks)
      /\ Len(SubSeq(s, 2, n)) = IF 2 <= n THEN n - 2 + 1 ELSE 0
      /\ \A i \in 1..n - 2 + 1 : SubSeq(s, 2, n)[i] = s[2 + i - 1]
  <2>1. 2 \in Int /\ n \in Int
    BY <1>1
  <2> QED
    BY <1>1, <2>1, SubSeqProperties
<1>3. n - 2 + 1 = n - 1 /\ \A i \in 1..n - 1 : 2 + i - 1 = i + 1
  BY <1>1
<1>4. (IF 2 <= n THEN n - 2 + 1 ELSE 0) = n - 1
  BY <1>1
<1>5. \A i \in 1..n - 1 : SubSeq(s, 2, n)[i] = s[i + 1]
  BY <1>2, <1>3
<1> QED
  BY <1>2, <1>4, <1>5 DEF n

\* A task that ends with nobody waiting frees its slot.
LEMMA AnswerFreesSlot ==
    ASSUME SlotsInv, taskQueue = <<>>,
           NEW t \in Tasks, phase[t] \in Running, NEW result, Answer(t, result)
    PROVE  SlotsInv'
<1> USE SlotsAssumption DEF SlotsInv, SlotsTypeOK
<1>1. FreeSlots = 0
  BY OneIsAdmitted
<1>2. SubSeq(taskQueue, 1, 0) = <<>>
  BY EmptySeq, SubSeqEmpty
<1>3. Admitted(0) = {}
  BY <1>2 DEF Admitted, ToSet
<1>4. phase' = [u \in Tasks |-> IF u = t THEN "answered" ELSE phase[u]]
  BY <1>1, <1>3 DEF Answer
<1>5. RunningTasks' = RunningTasks \ {t} /\ t \in RunningTasks
  BY <1>4 DEF RunningTasks, Running
<1>6. IsFiniteSet(RunningTasks)
  BY FS_Subset DEF RunningTasks
<1>7. activeTaskCount = Cardinality(RunningTasks) /\ activeTaskCount' = activeTaskCount - 1
  BY <1>1 DEF SlotsMatchTasks, RunningTasks, Answer
<1>8. activeTaskCount' = Cardinality(RunningTasks')
  BY <1>5, <1>6, <1>7, FS_RemoveElement
<1>9. Cardinality(RunningTasks') \in Nat
  BY <1>5, <1>6, FS_RemoveElement, FS_CardinalityType
<1>10. taskQueue' = <<>>
  BY <1>1, EmptySeq, SubSeqEmpty DEF Answer
<1>11. SlotsTypeOK'
  BY <1>4, <1>7, <1>8, <1>9, <1>10 DEF Phases
<1>12. \A u \in Tasks : phase[u] # "queued"
  BY DEF SlotsMatchTasks, ToSet
<1>13. {u \in Tasks : phase'[u] = "queued"} = {}
  BY <1>4, <1>12
<1> QED
  BY <1>8, <1>10, <1>11, <1>13 DEF SlotsMatchTasks, RunningTasks, ToSet

\* A task that ends while others wait passes its slot on to the first of them.
LEMMA AnswerPassesSlot ==
    ASSUME SlotsInv, taskQueue # <<>>,
           NEW t \in Tasks, phase[t] \in Running, NEW result, Answer(t, result)
    PROVE  SlotsInv'
<1> USE SlotsAssumption DEF SlotsInv, SlotsTypeOK
<1> DEFINE h == taskQueue[1]
<1>1. FreeSlots = 1
  BY OneIsAdmitted
<1>2. h \in Tasks /\ phase[h] = "queued" /\ Admitted(1) = {h}
  BY HeadIsAdmitted
<1>3. h # t
  BY <1>2 DEF Running
<1>4. phase' = [u \in Tasks |-> IF u = t THEN "answered" ELSE IF u = h THEN "starting" ELSE phase[u]]
  BY <1>1, <1>2 DEF Answer
<1>5. RunningTasks' = (RunningTasks \ {t}) \union {h} /\ t \in RunningTasks /\ h \notin RunningTasks
  BY <1>2, <1>3, <1>4 DEF RunningTasks, Running
<1>6. IsFiniteSet(RunningTasks) /\ IsFiniteSet(RunningTasks \ {t})
  BY FS_Subset DEF RunningTasks
<1>7. /\ activeTaskCount = Cardinality(RunningTasks)
      /\ activeTaskCount = MaxConcurrentTasks
      /\ activeTaskCount' = activeTaskCount
  BY <1>1 DEF SlotsMatchTasks, RunningTasks, Answer
<1>8. Cardinality(RunningTasks \ {t}) = Cardinality(RunningTasks) - 1
  BY <1>5, <1>6, FS_RemoveElement
<1>9. Cardinality(RunningTasks') = Cardinality(RunningTasks \ {t}) + 1
  BY <1>5, <1>6, FS_AddElement
<1>10. activeTaskCount' = Cardinality(RunningTasks')
  BY <1>7, <1>8, <1>9
<1>11. Len(taskQueue) \in Nat \ {0}
  BY EmptySeq, LenProperties
<1>12. taskQueue' = SubSeq(taskQueue, 2, Len(taskQueue))
  BY <1>1 DEF Answer
<1>13. /\ taskQueue' \in Seq(Tasks)
       /\ Len(taskQueue') = Len(taskQueue) - 1
       /\ \A i \in 1..Len(taskQueue) - 1 : taskQueue'[i] = taskQueue[i + 1]
  BY <1>11, <1>12, WithoutFirst
<1>14. DOMAIN taskQueue' = 1..Len(taskQueue) - 1 /\ DOMAIN taskQueue = 1..Len(taskQueue)
  BY <1>13, LenProperties
<1>15. ToSet(taskQueue') = ToSet(taskQueue) \ {h}
  <2>1. ASSUME NEW u \in ToSet(taskQueue') PROVE u \in ToSet(taskQueue) \ {h}
    <3>1. PICK i \in 1..Len(taskQueue) - 1 : u = taskQueue'[i]
      BY <1>14 DEF ToSet
    <3>2. u = taskQueue[i + 1] /\ i + 1 \in 1..Len(taskQueue) /\ i + 1 # 1 /\ 1 \in 1..Len(taskQueue)
      BY <1>11, <1>13, <3>1
    <3> QED
      BY <1>14, <3>2 DEF SlotsMatchTasks, ToSet
  <2>2. ASSUME NEW u \in ToSet(taskQueue) \ {h} PROVE u \in ToSet(taskQueue')
    <3>1. PICK i \in 1..Len(taskQueue) : u = taskQueue[i]
      BY <1>14 DEF ToSet
    <3>2. i - 1 \in 1..Len(taskQueue) - 1 /\ (i - 1) + 1 = i
      BY <1>11, <2>2, <3>1
    <3>3. taskQueue'[i - 1] = u
      BY <1>13, <3>1, <3>2
    <3> QED
      BY <1>14, <3>2, <3>3 DEF ToSet
  <2> QED
    BY <2>1, <2>2
<1>16. ToSet(taskQueue') = {u \in Tasks : phase'[u] = "queued"}
  <2>1. t \notin ToSet(taskQueue)
    BY DEF SlotsMatchTasks, Running
  <2> QED
    BY <1>2, <1>4, <1>15, <2>1 DEF SlotsMatchTasks
<1>17. \A i, j \in DOMAIN taskQueue' : taskQueue'[i] = taskQueue'[j] => i = j
  <2> SUFFICES ASSUME NEW i \in 1..Len(taskQueue) - 1, NEW j \in 1..Len(taskQueue) - 1,
                      taskQueue'[i] = taskQueue'[j]
               PROVE  i = j
    BY <1>14
  <2>1. taskQueue[i + 1] = taskQueue[j + 1] /\ i + 1 \in 1..Len(taskQueue) /\ j + 1 \in 1..Len(taskQueue)
    BY <1>11, <1>13
  <2>2. i + 1 = j + 1
    BY <1>14, <2>1 DEF SlotsMatchTasks
  <2> QED
    BY <2>2
<1>18. SlotsTypeOK'
  BY <1>4, <1>7, <1>13 DEF Phases, Running
<1> QED
  BY <1>7, <1>10, <1>16, <1>17, <1>18 DEF SlotsMatchTasks, RunningTasks

\* However a task ends, the slots agree with the tasks.
LEMMA AnswerStep ==
    ASSUME SlotsInv, NEW t \in Tasks, phase[t] \in Running, NEW result, Answer(t, result)
    PROVE  SlotsInv'
BY AnswerFreesSlot, AnswerPassesSlot

\* A message is started in a free slot or waits for one.
LEMMA DelegateStep ==
    ASSUME SlotsInv, NEW t \in Tasks, Delegate(t)
    PROVE  SlotsInv'
<1> USE SlotsAssumption DEF SlotsInv, SlotsTypeOK
<1>1. IsFiniteSet(RunningTasks) /\ activeTaskCount = Cardinality(RunningTasks)
  BY FS_Subset DEF RunningTasks, SlotsMatchTasks
<1>2. phase[t] = "none" /\ t \notin RunningTasks /\ t \notin ToSet(taskQueue)
  BY DEF Delegate, RunningTasks, Running, SlotsMatchTasks
<1>3. CASE Full
  <2>1. /\ taskQueue' = Append(taskQueue, t)
        /\ phase' = [phase EXCEPT ![t] = "queued"]
        /\ activeTaskCount' = activeTaskCount
    BY <1>3 DEF Delegate
  <2>2. activeTaskCount = MaxConcurrentTasks
    BY <1>3 DEF Full
  <2>3. RunningTasks' = RunningTasks
    BY <1>2, <2>1 DEF RunningTasks, Running
  <2>4. /\ taskQueue' \in Seq(Tasks)
        /\ Len(taskQueue') = Len(taskQueue) + 1
        /\ \A i \in 1..Len(taskQueue) : taskQueue'[i] = taskQueue[i]
        /\ taskQueue'[Len(taskQueue) + 1] = t
        /\ Len(taskQueue) \in Nat
    BY <2>1, AppendProperties, LenProperties
  <2>5. /\ DOMAIN taskQueue' = 1..Len(taskQueue) + 1
        /\ DOMAIN taskQueue = 1..Len(taskQueue)
    BY <2>4, LenProperties
  <2>6. ToSet(taskQueue') = ToSet(taskQueue) \union {t}
    BY <2>4, <2>5 DEF ToSet
  <2>7. ToSet(taskQueue') = {u \in Tasks : phase'[u] = "queued"}
    BY <2>1, <2>6 DEF SlotsMatchTasks
  <2>8. \A i \in 1..Len(taskQueue) : taskQueue[i] # t
    BY <1>2, <2>5 DEF ToSet
  <2>9. \A i, j \in DOMAIN taskQueue' : taskQueue'[i] = taskQueue'[j] => i = j
    BY <2>4, <2>5, <2>8 DEF SlotsMatchTasks
  <2>10. SlotsTypeOK'
    BY <2>1, <2>4 DEF Phases
  <2> QED
    BY <1>1, <2>1, <2>2, <2>3, <2>7, <2>9, <2>10 DEF SlotsMatchTasks, RunningTasks
<1>4. CASE ~Full
  <2>1. /\ taskQueue' = taskQueue
        /\ phase' = [phase EXCEPT ![t] = "starting"]
        /\ activeTaskCount' = activeTaskCount + 1
    BY <1>4 DEF Delegate
  <2>2. activeTaskCount < MaxConcurrentTasks
    BY <1>4 DEF Full
  <2>3. taskQueue = <<>>
    BY <2>2 DEF SlotsMatchTasks
  <2>4. RunningTasks' = RunningTasks \union {t}
    BY <2>1 DEF RunningTasks, Running
  <2>5. activeTaskCount' = Cardinality(RunningTasks')
    BY <1>1, <1>2, <2>1, <2>4, FS_AddElement
  <2>6. SlotsTypeOK'
    BY <2>1, <2>2 DEF Phases, Running
  <2>7. {u \in Tasks : phase'[u] = "queued"} = {u \in Tasks : phase[u] = "queued"}
    BY <1>2, <2>1
  <2> QED
    BY <2>1, <2>3, <2>5, <2>6, <2>7 DEF SlotsMatchTasks, RunningTasks
<1> QED
  BY <1>3, <1>4

\* A task that goes on to its next request keeps its slot.
LEMMA GoesOnStep ==
    ASSUME SlotsInv, NEW t \in Tasks, NEW next \in Running, phase[t] \in Running,
           phase' = [phase EXCEPT ![t] = next], UNCHANGED <<taskQueue, activeTaskCount>>
    PROVE  SlotsInv'
<1> USE DEF SlotsInv, SlotsTypeOK
<1>1. SlotsTypeOK'
  BY DEF Phases
<1>2. {u \in Tasks : phase'[u] \in Running} = {u \in Tasks : phase[u] \in Running}
  OBVIOUS
<1>3. {u \in Tasks : phase'[u] = "queued"} = {u \in Tasks : phase[u] = "queued"}
  BY DEF Running
<1> QED
  BY <1>1, <1>2, <1>3 DEF SlotsMatchTasks

\* A step that leaves queue, counter and phases alone.
LEMMA SlotsUntouched ==
    ASSUME SlotsInv, UNCHANGED <<taskQueue, activeTaskCount, phase>>
    PROVE  SlotsInv'
BY DEF SlotsInv, SlotsTypeOK, SlotsMatchTasks

-----------------------------------------------------------------------------
(* What else the steps keep: the branches, and what a task knows of them.   *)

WorkTypeOK ==
    /\ claim \in [Tasks -> Claims]
    /\ idOf \in [Tasks -> 0..MaxWindow]
    /\ main \in [Files -> Versions]
    /\ branches \in [BridgeBranches \union FixBranches -> [Files -> Contents] \union {None}]
    /\ pulls \subseteq BridgeBranches \union FixBranches
    /\ read \in [Tasks -> [Files -> Versions \union {None}]]
    /\ edits \in [Tasks -> SUBSET Files]
    /\ todo \in [Tasks -> SUBSET Files]

\* A task that works has its id and made no claim yet; one that commits has its
\* branch, and to a fix branch it commits files it has read.
Sound(t) ==
    /\ phase[t] \in Running \ {"starting"} => idOf[t] # 0
    /\ phase[t] # "answered" => claim[t] = "none"
    /\ phase[t] \in {"committing", "fixing"} => branches[BranchOf(t)] \in [Files -> Contents]
    /\ phase[t] = "fixing" => \A f \in todo[t] : read[t][f] # None

WorkIsSound == \A t \in Tasks : Sound(t)

TaskInv == SlotsInv /\ WorkTypeOK /\ WorkIsSound

\* A branch that exists is not deleted, nor undone if it is the bridge's.
Kept(b) ==
    branches[b] \in [Files -> Contents] =>
       /\ branches'[b] \in [Files -> Contents]
       /\ b \in BridgeBranches => \A f \in Files :
             /\ branches'[b][f].version >= branches[b][f].version
             /\ branches[b][f].by \subseteq branches'[b][f].by

BranchesKept == \A b \in BridgeBranches \union FixBranches : Kept(b)

\* Whom a task lets in was waiting.
LEMMA AdmittedWaited ==
    ASSUME SlotsInv, NEW u \in Admitted(FreeSlots)
    PROVE  u \in Tasks /\ phase[u] = "queued"
<1>1. CASE taskQueue = <<>>
  BY <1>1, OneIsAdmitted, EmptySeq, SubSeqEmpty DEF Admitted, ToSet
<1>2. CASE taskQueue # <<>>
  BY <1>2, OneIsAdmitted, HeadIsAdmitted
<1> QED
  BY <1>1, <1>2

\* The branch of a task at work is one of the two kinds, by its phase.
LEMMA BranchOfTask ==
    ASSUME TaskInv, NEW t \in Tasks
    PROVE  /\ phase[t] \in {"branching", "committing", "opening"} =>
                 /\ BranchOf(t) = [kind |-> "codespar", of |-> idOf[t]]
                 /\ BranchOf(t) \in BridgeBranches
           /\ phase[t] \in {"rereading", "fixing", "proposing"} =>
                 /\ BranchOf(t) = [kind |-> "fix", of |-> t]
                 /\ BranchOf(t) \in FixBranches \ BridgeBranches
<1>1. CASE phase[t] \in {"branching", "committing", "opening"}
  <2>1. idOf[t] \in 1..MaxWindow /\ claim[t] = "none"
    BY <1>1, BoundsAssumption DEF TaskInv, WorkTypeOK, WorkIsSound, Sound, Running
  <2>2. BranchOf(t) = [kind |-> "codespar", of |-> idOf[t]]
    BY <1>1, <2>1 DEF BranchOf
  <2> QED
    BY <1>1, <2>1, <2>2 DEF BridgeBranches
<1>2. CASE phase[t] \in {"rereading", "fixing", "proposing"}
  <2>1. BranchOf(t) = [kind |-> "fix", of |-> t]
    BY <1>2 DEF BranchOf
  <2>2. BranchOf(t) \in FixBranches
    BY <2>1 DEF FixBranches
  <2>3. \A b \in BridgeBranches : b.kind = "codespar"
    BY DEF BridgeBranches
  <2>4. BranchOf(t).kind = "fix"
    BY <2>1
  <2>5. BranchOf(t) \notin BridgeBranches
    BY <2>3, <2>4
  <2> QED
    BY <1>2, <2>1, <2>2, <2>5
<1> QED
  BY <1>1, <1>2

\* Branches as they are, and those with one more, are kept.
LEMMA SameBranchesKept ==
    ASSUME TaskInv, UNCHANGED branches
    PROVE  BranchesKept
<1> SUFFICES ASSUME NEW b \in BridgeBranches \union FixBranches, branches[b] \in [Files -> Contents]
             PROVE  /\ branches[b] \in [Files -> Contents]
                    /\ \A f \in Files : branches[b][f].version >= branches[b][f].version
  BY DEF BranchesKept, Kept
<1> QED
  BY BoundsAssumption DEF Contents, Versions

\* A branch made from the default branch is one more, or was there already.
LEMMA NewBranchKept ==
    ASSUME TaskInv, NEW n \in BridgeBranches \union FixBranches, branches' = Branched(n)
    PROVE  /\ BranchesKept
           /\ branches' \in [BridgeBranches \union FixBranches -> [Files -> Contents] \union {None}]
           /\ branches'[n] \in [Files -> Contents]
<1>1. [f \in Files |-> Pristine(main[f])] \in [Files -> Contents]
  BY DEF TaskInv, WorkTypeOK, Pristine, Contents
<1>2. /\ branches' \in [BridgeBranches \union FixBranches -> [Files -> Contents] \union {None}]
      /\ branches'[n] \in [Files -> Contents]
  BY <1>1 DEF TaskInv, WorkTypeOK, Branched
<1>3. \A b \in BridgeBranches \union FixBranches : branches[b] # None => branches'[b] = branches[b]
  BY DEF TaskInv, WorkTypeOK, Branched
<1>4. None \notin [Files -> Contents]
  BY NoneAssumption
<1>5. \A c \in Contents : c.version >= c.version
  BY BoundsAssumption DEF Contents, Versions
<1>6. BranchesKept
  BY <1>3, <1>4, <1>5 DEF BranchesKept, Kept
<1> QED
  BY <1>2, <1>6

\* A commit puts the task's edits onto the version its sha stands for.
LEMMA PutKept ==
    ASSUME TaskInv, NEW t \in Tasks, NEW f \in todo[t],
           phase[t] \in {"committing", "fixing"}, Put(t, f)
    PROVE  /\ BranchesKept
           /\ branches' \in [BridgeBranches \union FixBranches -> [Files -> Contents] \union {None}]
<1> DEFINE n == BranchOf(t)
<1>1. CASE UNCHANGED branches
  BY <1>1, SameBranchesKept DEF TaskInv, WorkTypeOK
<1>2. CASE /\ ShaSent(t, f) = branches[n][f]
           /\ branches' = [branches EXCEPT ![n][f] = [version |-> read[t][f], by |-> {t}]]
  <2>1. f \in Files /\ read[t][f] \in Versions \union {None}
    BY DEF TaskInv, WorkTypeOK
  <2>2. n \in BridgeBranches \union FixBranches /\ branches[n] \in [Files -> Contents]
    BY BranchOfTask DEF TaskInv, WorkIsSound, Sound
  <2>3. branches[n][f] \in Contents /\ branches[n][f] # None
    BY <2>1, <2>2, NoneAssumption
  <2>4. read[t][f] \in Versions
    <3>1. CASE phase[t] = "fixing"
      BY <2>1, <3>1 DEF TaskInv, WorkIsSound, Sound
    <3>2. CASE phase[t] # "fixing"
      BY <1>2, <2>1, <2>3, <3>2 DEF ShaSent
    <3> QED
      BY <3>1, <3>2
  <2> DEFINE new == [version |-> read[t][f], by |-> {t}]
  <2>5. new \in Contents
    BY <2>4 DEF Contents
  <2>6. branches'[n] = [branches[n] EXCEPT ![f] = new]
    BY <1>2, <2>2 DEF TaskInv, WorkTypeOK
  <2>7. branches'[n] \in [Files -> Contents]
    BY <2>2, <2>5, <2>6
  <2>8. \A b \in BridgeBranches \union FixBranches : b # n => branches'[b] = branches[b]
    BY <1>2, <2>2 DEF TaskInv, WorkTypeOK
  <2>9. branches' = [branches EXCEPT ![n] = [branches[n] EXCEPT ![f] = new]]
    BY <1>2, <2>2 DEF TaskInv, WorkTypeOK
  <2>10. branches' \in [BridgeBranches \union FixBranches -> [Files -> Contents] \union {None}]
    <3>1. [branches[n] EXCEPT ![f] = new] \in [Files -> Contents]
      BY <2>6, <2>7
    <3> HIDE DEF new, n
    <3> QED
      BY <2>2, <2>9, <3>1 DEF TaskInv, WorkTypeOK
  <2>11. n \in BridgeBranches => branches[n][f].version = read[t][f] /\ branches[n][f].by = {}
    <3>1. n \in BridgeBranches => phase[t] # "fixing"
      BY BranchOfTask
    <3>2. phase[t] # "fixing" => branches[n][f] = Pristine(read[t][f])
      BY <1>2, <2>3 DEF ShaSent
    <3> QED
      BY <3>1, <3>2 DEF Pristine
  <2>12. \A c \in Contents : c.version >= c.version
    BY BoundsAssumption DEF Contents, Versions
  <2>13. Kept(n)
    <3>1. \A g \in Files : branches'[n][g] = IF g = f THEN new ELSE branches[n][g]
      BY <2>2, <2>6
    <3>2. n \in BridgeBranches =>
             branches'[n][f].version >= branches[n][f].version /\ branches[n][f].by = {}
      BY <2>1, <2>5, <2>11, <2>12, <3>1
    <3>3. \A g \in Files : g # f => branches'[n][g] = branches[n][g] /\ branches[n][g] \in Contents
      BY <2>2, <3>1
    <3> HIDE DEF n, new
    <3> QED
      BY <2>7, <2>12, <3>2, <3>3 DEF Kept
  <2>14. \A b \in BridgeBranches \union FixBranches : b # n => Kept(b)
    <3> SUFFICES ASSUME NEW b \in BridgeBranches \union FixBranches, b # n,
                        branches[b] \in [Files -> Contents]
                 PROVE  Kept(b)
      BY DEF Kept
    <3>1. branches'[b] = branches[b]
      BY <2>8
    <3> HIDE DEF n, new
    <3> QED
      BY <2>12, <3>1 DEF Kept
  <2> QED
    BY <2>10, <2>13, <2>14 DEF BranchesKept
<1> QED
  BY <1>1, <1>2 DEF Put

-----------------------------------------------------------------------------
(* The steps.                                                              *)

\* What a task leaves alone of the others.
OthersUntouched(t) ==
    \A u \in Tasks \ {t} :
       /\ phase'[u] = phase[u] \/ (phase[u] = "queued" /\ phase'[u] = "starting")
       /\ claim'[u] = claim[u] /\ idOf'[u] = idOf[u]
       /\ read'[u] = read[u] /\ todo'[u] = todo[u]

\* A step of one task leaves what the others rely on.
LEMMA OthersStaySound ==
    ASSUME TaskInv, BranchesKept, NEW t \in Tasks, OthersUntouched(t),
           NEW u \in Tasks, u # t
    PROVE  Sound(u)'
<1>1. Sound(u) /\ phase[u] \in Phases
  BY DEF TaskInv, WorkIsSound, SlotsInv, SlotsTypeOK
<1>2. CASE phase'[u] = phase[u]
  <2>1. BranchOf(u)' = BranchOf(u)
    BY <1>2 DEF OthersUntouched, BranchOf
  <2>2. phase[u] \in {"committing", "fixing"} => branches'[BranchOf(u)] \in [Files -> Contents]
    <3> SUFFICES ASSUME phase[u] \in {"committing", "fixing"}
                 PROVE  branches'[BranchOf(u)] \in [Files -> Contents]
      OBVIOUS
    <3>1. BranchOf(u) \in BridgeBranches \union FixBranches
      BY BranchOfTask
    <3>2. branches[BranchOf(u)] \in [Files -> Contents]
      BY <1>1 DEF Sound
    <3> QED
      BY <3>1, <3>2 DEF BranchesKept, Kept
  <2> QED
    BY <1>1, <1>2, <2>1, <2>2 DEF OthersUntouched, Sound
<1>3. CASE phase[u] = "queued" /\ phase'[u] = "starting"
  BY <1>1, <1>3 DEF OthersUntouched, Sound
<1> QED
  BY <1>2, <1>3 DEF OthersUntouched

\* A task that is answered has nothing left to rely on.
LEMMA AnswerKeeps ==
    ASSUME TaskInv, BranchesKept, NEW t \in Tasks, phase[t] \in Running,
           NEW result \in Claims, Answer(t, result), UNCHANGED <<idOf, main>>,
           branches' \in [BridgeBranches \union FixBranches -> [Files -> Contents] \union {None}],
           pulls' \subseteq BridgeBranches \union FixBranches,
           edits' \in [Tasks -> SUBSET Files]
    PROVE  TaskInv'
<1>1. SlotsInv'
  BY AnswerStep DEF TaskInv
<1>2. WorkTypeOK'
  <2>1. claim' \in [Tasks -> Claims] /\ todo' \in [Tasks -> SUBSET Files]
    BY DEF TaskInv, WorkTypeOK, Answer
  <2>2. read' \in [Tasks -> [Files -> Versions \union {None}]]
    BY DEF TaskInv, WorkTypeOK, Answer, Unread
  <2> QED
    BY <2>1, <2>2 DEF TaskInv, WorkTypeOK
<1>3. phase'[t] = "answered"
  BY DEF Answer
<1>4. OthersUntouched(t)
  <2> SUFFICES ASSUME NEW u \in Tasks, u # t
               PROVE  /\ phase'[u] = phase[u] \/ (phase[u] = "queued" /\ phase'[u] = "starting")
                      /\ claim'[u] = claim[u] /\ idOf'[u] = idOf[u]
                      /\ read'[u] = read[u] /\ todo'[u] = todo[u]
    BY DEF OthersUntouched
  <2>1. phase'[u] = IF u \in Admitted(FreeSlots) THEN "starting" ELSE phase[u]
    BY DEF Answer
  <2>2. u \in Admitted(FreeSlots) => phase[u] = "queued"
    BY AdmittedWaited DEF TaskInv
  <2>3. /\ claim'[u] = claim[u] /\ idOf'[u] = idOf[u]
        /\ read'[u] = read[u] /\ todo'[u] = todo[u]
    BY DEF TaskInv, WorkTypeOK, Answer
  <2> QED
    BY <2>1, <2>2, <2>3
<1>5. Sound(t)'
  BY <1>3 DEF Sound, Running
<1> QED
  BY <1>1, <1>2, <1>4, <1>5, OthersStaySound DEF TaskInv, WorkIsSound

\* A task that goes on, with its own part shown apart.
LEMMA GoesOnKeeps ==
    ASSUME TaskInv, BranchesKept, NEW t \in Tasks, phase[t] \in Running, NEW next \in Running,
           phase' = [phase EXCEPT ![t] = next],
           UNCHANGED <<taskQueue, activeTaskCount, claim>>,
           \A u \in Tasks \ {t} : idOf'[u] = idOf[u] /\ read'[u] = read[u] /\ todo'[u] = todo[u],
           WorkTypeOK', Sound(t)'
    PROVE  TaskInv'
<1>1. SlotsInv'
  BY GoesOnStep DEF TaskInv
<1>2. OthersUntouched(t)
  BY DEF OthersUntouched, TaskInv, SlotsInv, SlotsTypeOK
<1> QED
  BY <1>1, <1>2, OthersStaySound DEF TaskInv, WorkIsSound

\* Every step of a task keeps the invariant and the branches.
LEMMA DelegateKeeps ==
    ASSUME TaskInv, NEW t \in Tasks, Delegate(t)
    PROVE  TaskInv' /\ BranchesKept
<1>1. BranchesKept
  BY SameBranchesKept DEF Delegate, repoVars
<1>2. SlotsInv'
  BY DelegateStep DEF TaskInv
<1>3. WorkTypeOK'
  BY DEF TaskInv, WorkTypeOK, Delegate, repoVars, workVars
<1>4. OthersUntouched(t)
  BY DEF OthersUntouched, TaskInv, SlotsInv, SlotsTypeOK, Delegate, repoVars, workVars
<1>5. phase'[t] \in {"queued", "starting"}
  BY DEF TaskInv, SlotsInv, SlotsTypeOK, Delegate
<1>6. claim'[t] = "none"
  BY DEF TaskInv, WorkIsSound, Sound, Delegate
<1>7. Sound(t)'
  BY <1>5, <1>6 DEF Sound, Running
<1> QED
  BY <1>1, <1>2, <1>3, <1>4, <1>7, OthersStaySound DEF TaskInv, WorkIsSound

\* The id a task gets stays with it.
LEMMA BeginKeeps ==
    ASSUME TaskInv, NEW t \in Tasks, Begin(t)
    PROVE  TaskInv' /\ BranchesKept
<1>1. PICK window \in 1..MaxWindow : idOf' = [idOf EXCEPT ![t] = window]
  BY DEF Begin
<1>2. BranchesKept
  BY SameBranchesKept DEF Begin, repoVars
<1>3. WorkTypeOK'
  BY <1>1, BoundsAssumption DEF TaskInv, WorkTypeOK, Begin, repoVars, workVars
<1>4. phase' = [phase EXCEPT ![t] = "looking"] /\ phase[t] = "starting"
  BY DEF Begin
<1>5. claim' = claim /\ claim[t] = "none" /\ idOf'[t] # 0 /\ phase'[t] = "looking"
  BY <1>1, <1>4, BoundsAssumption
     DEF TaskInv, WorkTypeOK, WorkIsSound, Sound, SlotsInv, SlotsTypeOK, Begin
<1>6. Sound(t)'
  BY <1>5 DEF Sound
<1>7. \A u \in Tasks \ {t} : idOf'[u] = idOf[u] /\ read'[u] = read[u] /\ todo'[u] = todo[u]
  BY <1>1 DEF TaskInv, WorkTypeOK, Begin, workVars
<1> QED
  BY <1>2, <1>3, <1>4, <1>6, <1>7, GoesOnKeeps DEF Begin, Running

\* A task that has looked up its repository goes one of two ways.
LEMMA RouteKeeps ==
    ASSUME TaskInv, NEW t \in Tasks, Route(t)
    PROVE  TaskInv' /\ BranchesKept
<1>1. PICK route \in {"reading", "plain"} : phase' = [phase EXCEPT ![t] = route]
  BY DEF Route
<1>2. BranchesKept
  BY SameBranchesKept DEF Route, repoVars
<1>3. WorkTypeOK'
  BY DEF TaskInv, WorkTypeOK, Route, repoVars, workVars
<1>4. phase[t] = "looking" /\ phase'[t] \in {"reading", "plain"}
  BY <1>1 DEF Route, TaskInv, SlotsInv, SlotsTypeOK
<1>5. claim'[t] = "none" /\ idOf'[t] # 0
  BY <1>4 DEF TaskInv, WorkIsSound, Sound, Route, Running
<1>6. Sound(t)'
  BY <1>4, <1>5 DEF Sound
<1> QED
  BY <1>1, <1>2, <1>3, <1>4, <1>6, GoesOnKeeps DEF Route, Running, workVars

\* The ends without a new branch or pull request.
LEMMA EndKeeps ==
    ASSUME TaskInv, NEW t \in Tasks, Execute(t) \/ Throws(t) \/ FixThrows(t) \/ OpenPR(t) \/ Propose(t)
    PROVE  TaskInv' /\ BranchesKept
<1> DEFINE Kinds == BridgeBranches \union FixBranches
<1>1. branches' = branches /\ edits' = edits /\ UNCHANGED <<idOf, main>>
  BY DEF Execute, Throws, FixThrows, OpenPR, Propose, repoVars
<1>2. BranchesKept
  BY <1>1, SameBranchesKept
<1>3. phase[t] \in Running
  BY DEF Execute, Throws, FixThrows, OpenPR, Propose, Running
<1>4. \E result \in Claims : Answer(t, result)
  BY DEF Execute, Throws, FixThrows, OpenPR, Propose, Claims
<1>5. pulls' \subseteq Kinds
  <2>1. pulls \subseteq Kinds
    BY DEF TaskInv, WorkTypeOK
  <2>2. CASE OpenPR(t)
    <3>1. BranchOf(t) \in Kinds
      BY <2>2, BranchOfTask DEF OpenPR
    <3> QED
      BY <2>1, <2>2, <3>1 DEF OpenPR
  <2>3. CASE Propose(t)
    <3>1. BranchOf(t) \in Kinds
      BY <2>3, BranchOfTask DEF Propose
    <3> QED
      BY <2>1, <2>3, <3>1 DEF Propose
  <2>4. CASE Execute(t) \/ Throws(t) \/ FixThrows(t)
    BY <2>1, <2>4 DEF Execute, Throws, FixThrows, repoVars
  <2> QED
    BY <2>2, <2>3, <2>4
<1>6. branches' \in [Kinds -> [Files -> Contents] \union {None}] /\ edits' \in [Tasks -> SUBSET Files]
  BY <1>1 DEF TaskInv, WorkTypeOK
<1> QED
  BY <1>1, <1>2, <1>3, <1>4, <1>5, <1>6, AnswerKeeps

\* What a task reads is a version of the default branch.
LEMMA ReadFileKeeps ==
    ASSUME TaskInv, NEW t \in Tasks, NEW f \in Files, ReadFile(t, f)
    PROVE  TaskInv' /\ BranchesKept
<1>1. BranchesKept
  BY SameBranchesKept DEF ReadFile, repoVars
<1>2. SlotsInv'
  BY SlotsUntouched DEF TaskInv, ReadFile, slotVars
<1>3. read' = [read EXCEPT ![t][f] = main[f]] /\ main[f] \in Versions
  BY DEF TaskInv, WorkTypeOK, ReadFile
<1>4. read' \in [Tasks -> [Files -> Versions \union {None}]]
  BY <1>3 DEF TaskInv, WorkTypeOK
<1>5. WorkTypeOK'
  BY <1>4 DEF TaskInv, WorkTypeOK, ReadFile, slotVars, repoVars
<1>6. OthersUntouched(t)
  BY <1>3 DEF OthersUntouched, TaskInv, WorkTypeOK, ReadFile, slotVars
<1>7. phase'[t] \in {"reading", "rereading"} /\ phase'[t] = phase[t] /\ claim'[t] = claim[t] /\ idOf'[t] = idOf[t]
  BY DEF ReadFile, slotVars
<1>8. Sound(t)'
  BY <1>7 DEF TaskInv, WorkIsSound, Sound
<1> QED
  BY <1>1, <1>2, <1>5, <1>6, <1>8, OthersStaySound DEF TaskInv, WorkIsSound

\* Pushes of others make what was read older, nothing else.
LEMMA PushKeeps ==
    ASSUME TaskInv, NEW f \in Files, Push(f)
    PROVE  TaskInv' /\ BranchesKept
<1>1. BranchesKept
  BY SameBranchesKept DEF Push
<1>2. SlotsInv'
  BY SlotsUntouched DEF TaskInv, Push, slotVars
<1>3. main' \in [Files -> Versions]
  <2>1. main[f] + 1 \in Versions
    BY BoundsAssumption DEF TaskInv, WorkTypeOK, Push, Versions
  <2> QED
    BY <2>1 DEF TaskInv, WorkTypeOK, Push
<1>4. WorkTypeOK'
  BY <1>3 DEF TaskInv, WorkTypeOK, Push, slotVars, workVars
<1>5. \A u \in Tasks : BranchOf(u)' = BranchOf(u)
  BY DEF BranchOf, Push, slotVars
<1>6. WorkIsSound'
  BY <1>5 DEF TaskInv, WorkIsSound, Sound, Push, slotVars, workVars
<1> QED
  BY <1>1, <1>2, <1>4, <1>6 DEF TaskInv

\* Whatever Claude answers, the task goes on to a branch, reads again or ends.
LEMMA GenerateKeeps ==
    ASSUME TaskInv, NEW t \in Tasks, Generate(t)
    PROVE  TaskInv' /\ BranchesKept
<1>1. BranchesKept /\ UNCHANGED <<idOf, main, branches, pulls>> /\ phase[t] = "reading"
  BY SameBranchesKept DEF Generate, repoVars
<1>2. PICK named \in SUBSET Files, whole \in BOOLEAN :
         LET changed == IF whole THEN named ELSE {f \in named : read[t][f] # None} IN
         /\ edits' = [edits EXCEPT ![t] = IF changed = {} THEN named ELSE changed]
         /\ \/ /\ changed # {}
               /\ phase' = [phase EXCEPT ![t] = "branching"]
               /\ todo' = [todo EXCEPT ![t] = changed]
               /\ UNCHANGED <<taskQueue, activeTaskCount, claim, read>>
            \/ /\ changed = {} /\ named # {}
               /\ phase' = [phase EXCEPT ![t] = "rereading"]
               /\ read' = [read EXCEPT ![t] = Unread]
               /\ UNCHANGED <<taskQueue, activeTaskCount, claim, todo>>
            \/ named = {} /\ Answer(t, "advice")
  BY DEF Generate
<1> DEFINE changed == IF whole THEN named ELSE {f \in named : read[t][f] # None}
<1>3. changed \in SUBSET Files
  OBVIOUS
<1>4. edits' \in [Tasks -> SUBSET Files]
  BY <1>2, <1>3 DEF TaskInv, WorkTypeOK
<1>5. claim[t] = "none" /\ idOf[t] # 0
  BY <1>1 DEF TaskInv, WorkIsSound, Sound, Running
<1>6. CASE /\ phase' = [phase EXCEPT ![t] = "branching"]
           /\ todo' = [todo EXCEPT ![t] = changed]
           /\ UNCHANGED <<taskQueue, activeTaskCount, claim, read>>
  <2>1. WorkTypeOK'
    BY <1>1, <1>3, <1>4, <1>6 DEF TaskInv, WorkTypeOK
  <2>2. phase'[t] = "branching"
    BY <1>6 DEF TaskInv, SlotsInv, SlotsTypeOK
  <2>3. Sound(t)'
    BY <1>1, <1>5, <1>6, <2>2 DEF Sound
  <2>4. \A u \in Tasks \ {t} : idOf'[u] = idOf[u] /\ read'[u] = read[u] /\ todo'[u] = todo[u]
    BY <1>1, <1>6 DEF TaskInv, WorkTypeOK
  <2> QED
    BY <1>1, <1>6, <2>1, <2>3, <2>4, GoesOnKeeps DEF Running
<1>7. CASE /\ phase' = [phase EXCEPT ![t] = "rereading"]
           /\ read' = [read EXCEPT ![t] = Unread]
           /\ UNCHANGED <<taskQueue, activeTaskCount, claim, todo>>
  <2>1. WorkTypeOK'
    BY <1>1, <1>4, <1>7 DEF TaskInv, WorkTypeOK, Unread
  <2>2. phase'[t] = "rereading"
    BY <1>7 DEF TaskInv, SlotsInv, SlotsTypeOK
  <2>3. Sound(t)'
    BY <1>1, <1>5, <1>7, <2>2 DEF Sound
  <2>4. \A u \in Tasks \ {t} : idOf'[u] = idOf[u] /\ read'[u] = read[u] /\ todo'[u] = todo[u]
    BY <1>1, <1>7 DEF TaskInv, WorkTypeOK
  <2> QED
    BY <1>1, <1>7, <2>1, <2>3, <2>4, GoesOnKeeps DEF Running
<1>8. CASE Answer(t, "advice")
  <2>1. /\ branches' \in [BridgeBranches \union FixBranches -> [Files -> Contents] \union {None}]
        /\ pulls' \subseteq BridgeBranches \union FixBranches
    BY <1>1 DEF TaskInv, WorkTypeOK
  <2> QED
    BY <1>1, <1>4, <1>8, <2>1, AnswerKeeps DEF Running, Claims
<1> QED
  BY <1>2, <1>6, <1>7, <1>8

\* A task comes to commit only when its branch exists.
LEMMA CreateBranchKeeps ==
    ASSUME TaskInv, NEW t \in Tasks, CreateBranch(t)
    PROVE  TaskInv' /\ BranchesKept
<1>1. /\ phase[t] = "branching" /\ UNCHANGED <<idOf, main, pulls, edits>>
      /\ claim[t] = "none" /\ idOf[t] # 0
  BY DEF CreateBranch, TaskInv, WorkIsSound, Sound, Running
<1>2. CASE /\ branches' = Branched(BranchOf(t))
           /\ phase' = [phase EXCEPT ![t] = "committing"]
           /\ UNCHANGED <<taskQueue, activeTaskCount, claim, read, todo>>
  <2>1. BranchOf(t) \in BridgeBranches /\ BranchOf(t) = [kind |-> "codespar", of |-> idOf[t]]
    BY <1>1, BranchOfTask
  <2>2. /\ BranchesKept
        /\ branches' \in [BridgeBranches \union FixBranches -> [Files -> Contents] \union {None}]
        /\ branches'[BranchOf(t)] \in [Files -> Contents]
    BY <1>2, <2>1, NewBranchKept
  <2>3. WorkTypeOK'
    BY <1>1, <1>2, <2>2 DEF TaskInv, WorkTypeOK
  <2>4. phase'[t] = "committing"
    BY <1>2 DEF TaskInv, SlotsInv, SlotsTypeOK
  <2>5. BranchOf(t)' = BranchOf(t)
    BY <1>1, <1>2, <2>1, <2>4 DEF BranchOf
  <2>6. Sound(t)'
    BY <1>1, <1>2, <2>2, <2>4, <2>5 DEF Sound
  <2> QED
    BY <1>1, <1>2, <2>2, <2>3, <2>6, GoesOnKeeps DEF Running
<1>3. CASE Answer(t, "failed") /\ UNCHANGED branches
  <2>1. /\ branches' \in [BridgeBranches \union FixBranches -> [Files -> Contents] \union {None}]
        /\ pulls' \subseteq BridgeBranches \union FixBranches
        /\ edits' \in [Tasks -> SUBSET Files]
    BY <1>1, <1>3 DEF TaskInv, WorkTypeOK
  <2> QED
    BY <1>1, <1>3, <2>1, SameBranchesKept, AnswerKeeps DEF Running, Claims
<1> QED
  BY <1>2, <1>3 DEF CreateBranch

\* A fix branch gets changes of files that were found.
LEMMA PatchKeeps ==
    ASSUME TaskInv, NEW t \in Tasks, PatchOriginals(t)
    PROVE  TaskInv' /\ BranchesKept
<1> DEFINE patched == {f \in edits[t] : read[t][f] # None}
<1>1. /\ phase[t] = "rereading" /\ UNCHANGED <<idOf, main, pulls>>
      /\ claim[t] = "none" /\ idOf[t] # 0 /\ patched \in SUBSET Files
  BY DEF PatchOriginals, TaskInv, WorkTypeOK, WorkIsSound, Sound, Running
<1>2. CASE /\ branches' = Branched(BranchOf(t))
           /\ phase' = [phase EXCEPT ![t] = "fixing"]
           /\ edits' = [edits EXCEPT ![t] = patched]
           /\ todo' = [todo EXCEPT ![t] = patched]
           /\ UNCHANGED <<taskQueue, activeTaskCount, claim, read>>
  <2>1. BranchOf(t) \in FixBranches /\ BranchOf(t) = [kind |-> "fix", of |-> t]
    BY <1>1, BranchOfTask
  <2>2. /\ BranchesKept
        /\ branches' \in [BridgeBranches \union FixBranches -> [Files -> Contents] \union {None}]
        /\ branches'[BranchOf(t)] \in [Files -> Contents]
    BY <1>2, <2>1, NewBranchKept
  <2>3. WorkTypeOK'
    BY <1>1, <1>2, <2>2 DEF TaskInv, WorkTypeOK
  <2>4. phase'[t] = "fixing" /\ todo'[t] = patched
    BY <1>2 DEF TaskInv, SlotsInv, SlotsTypeOK, WorkTypeOK
  <2>5. BranchOf(t)' = BranchOf(t)
    BY <2>1, <2>4 DEF BranchOf
  <2>6. Sound(t)'
    BY <1>1, <1>2, <2>2, <2>4, <2>5 DEF Sound
  <2>7. \A u \in Tasks \ {t} : idOf'[u] = idOf[u] /\ read'[u] = read[u] /\ todo'[u] = todo[u]
    BY <1>1, <1>2 DEF TaskInv, WorkTypeOK
  <2> QED
    BY <1>1, <1>2, <2>2, <2>3, <2>6, <2>7, GoesOnKeeps DEF Running
<1>3. CASE Answer(t, "advice") /\ UNCHANGED <<branches, edits>>
  <2>1. /\ branches' \in [BridgeBranches \union FixBranches -> [Files -> Contents] \union {None}]
        /\ pulls' \subseteq BridgeBranches \union FixBranches
        /\ edits' \in [Tasks -> SUBSET Files]
    BY <1>1, <1>3 DEF TaskInv, WorkTypeOK
  <2> QED
    BY <1>1, <1>3, <2>1, SameBranchesKept, AnswerKeeps DEF Running, Claims
<1> QED
  BY <1>2, <1>3 DEF PatchOriginals

\* A commit, accepted or refused, leaves one file less to send.
LEMMA CommitKeeps ==
    ASSUME TaskInv, NEW t \in Tasks, NEW f \in Files, Commit(t, f)
    PROVE  TaskInv' /\ BranchesKept
<1>1. /\ phase[t] \in {"committing", "fixing"} /\ f \in todo[t]
      /\ UNCHANGED <<taskQueue, activeTaskCount, claim, idOf, main, pulls, read, edits>>
      /\ todo' = [todo EXCEPT ![t] = @ \ {f}]
      /\ claim[t] = "none" /\ idOf[t] # 0
  BY DEF Commit, TaskInv, WorkIsSound, Sound, Running
<1>2. /\ BranchesKept
      /\ branches' \in [BridgeBranches \union FixBranches -> [Files -> Contents] \union {None}]
  BY <1>1, PutKept DEF Commit
<1>3. WorkTypeOK'
  BY <1>1, <1>2 DEF TaskInv, WorkTypeOK
<1>4. PICK next \in {"committing", "fixing", "opening", "proposing"} :
         /\ phase' = [phase EXCEPT ![t] = next]
         /\ next \in {"committing", "fixing"} => next = phase[t]
  <2> DEFINE next == IF todo'[t] # {} THEN phase[t]
                     ELSE IF phase[t] = "fixing" THEN "proposing" ELSE "opening"
  <2>1. phase' = [phase EXCEPT ![t] = next]
    BY DEF Commit, TaskInv, SlotsInv, SlotsTypeOK
  <2>2. next \in {"committing", "fixing", "opening", "proposing"}
    BY <1>1
  <2>3. next \in {"committing", "fixing"} => next = phase[t]
    OBVIOUS
  <2> QED
    BY <2>1, <2>2, <2>3
<1>5. phase'[t] = next
  BY <1>4 DEF TaskInv, SlotsInv, SlotsTypeOK
<1>6. next \in {"committing", "fixing"} => branches'[BranchOf(t)'] \in [Files -> Contents]
  <2> SUFFICES ASSUME next \in {"committing", "fixing"}
               PROVE  branches'[BranchOf(t)'] \in [Files -> Contents]
    OBVIOUS
  <2>1. BranchOf(t)' = BranchOf(t)
    BY <1>1, <1>4, <1>5 DEF BranchOf
  <2>2. BranchOf(t) \in BridgeBranches \union FixBranches
    BY <1>1, BranchOfTask
  <2>3. branches[BranchOf(t)] \in [Files -> Contents]
    BY <1>1 DEF TaskInv, WorkIsSound, Sound
  <2> QED
    BY <1>2, <2>1, <2>2, <2>3 DEF BranchesKept, Kept
<1>7. next = "fixing" => \A g \in todo'[t] : read'[t][g] # None
  BY <1>1, <1>4 DEF TaskInv, WorkTypeOK, WorkIsSound, Sound
<1>8. Sound(t)'
  BY <1>1, <1>5, <1>6, <1>7 DEF Sound
<1>9. \A u \in Tasks \ {t} : idOf'[u] = idOf[u] /\ read'[u] = read[u] /\ todo'[u] = todo[u]
  BY <1>1 DEF TaskInv, WorkTypeOK
<1> QED
  BY <1>1, <1>2, <1>3, <1>4, <1>8, <1>9, GoesOnKeeps DEF Running

-----------------------------------------------------------------------------

\* The invariant is inductive, and no step undoes a branch.
LEMMA StepKeeps == TaskInv /\ [TasksNext]_taskVars => TaskInv' /\ BranchesKept
<1> SUFFICES ASSUME TaskInv, [TasksNext]_taskVars PROVE TaskInv' /\ BranchesKept
  OBVIOUS
<1>1. ASSUME NEW t \in Tasks, Delegate(t) PROVE TaskInv' /\ BranchesKept
  BY <1>1, DelegateKeeps
<1>2. ASSUME NEW t \in Tasks, Work(t) PROVE TaskInv' /\ BranchesKept
  <2>1. CASE Execute(t) \/ Throws(t) \/ FixThrows(t) \/ OpenPR(t) \/ Propose(t)
    BY <2>1, EndKeeps
  <2>2. CASE Begin(t) \/ Route(t)
    BY <2>2, BeginKeeps, RouteKeeps
  <2>3. ASSUME NEW f \in Files, ReadFile(t, f) \/ Commit(t, f) PROVE TaskInv' /\ BranchesKept
    BY <2>3, ReadFileKeeps, CommitKeeps
  <2>4. CASE Generate(t) \/ CreateBranch(t) \/ PatchOriginals(t)
    BY <2>4, GenerateKeeps, CreateBranchKeeps, PatchKeeps
  <2> QED
    BY <1>2, <2>1, <2>2, <2>3, <2>4 DEF Work
<1>3. ASSUME NEW f \in Files, Push(f) PROVE TaskInv' /\ BranchesKept
  BY <1>3, PushKeeps
<1>4. CASE UNCHANGED taskVars
  <2>1. UNCHANGED <<taskQueue, activeTaskCount, phase, claim, idOf, main, branches, pulls, read, edits, todo>>
    BY <1>4 DEF taskVars, slotVars, repoVars, workVars
  <2>2. \A t \in Tasks : BranchOf(t)' = BranchOf(t)
    BY <2>1 DEF BranchOf
  <2>3. SlotsInv' /\ BranchesKept
    BY <2>1, SlotsUntouched, SameBranchesKept DEF TaskInv
  <2>4. WorkTypeOK'
    BY <2>1 DEF TaskInv, WorkTypeOK
  <2>5. WorkIsSound'
    BY <2>1, <2>2 DEF TaskInv, WorkIsSound, Sound
  <2> QED
    BY <2>3, <2>4, <2>5 DEF TaskInv
<1> QED
  BY <1>1, <1>2, <1>3, <1>4 DEF TasksNext

\* It holds before the first task.
LEMMA InitKeeps == TasksInit => TaskInv
<1> SUFFICES ASSUME TasksInit PROVE TaskInv
  OBVIOUS
<1>1. SlotsTypeOK
  BY SlotsAssumption, EmptySeq DEF TasksInit, SlotsTypeOK, Phases
<1>2. SlotsMatchTasks
  <2>1. {t \in Tasks : phase[t] \in Running} = {} /\ {t \in Tasks : phase[t] = "queued"} = {}
    BY DEF TasksInit, Running
  <2>2. taskQueue = <<>> /\ DOMAIN taskQueue = {} /\ activeTaskCount = 0
    BY DEF TasksInit
  <2>3. ToSet(taskQueue) = {}
    BY <2>2 DEF ToSet
  <2>4. Cardinality({}) = 0
    BY FS_EmptySet
  <2> QED
    BY <2>1, <2>2, <2>3, <2>4 DEF SlotsMatchTasks
<1>3. WorkTypeOK
  BY BoundsAssumption DEF TasksInit, WorkTypeOK, Claims, Versions, Unread
<1>4. WorkIsSound
  BY DEF TasksInit, WorkIsSound, Sound, Running
<1> QED
  BY <1>1, <1>2, <1>3, <1>4 DEF TaskInv, SlotsInv

\* What the tasks rely on holds throughout.
THEOREM TasksInvariant == TasksSpec => []TaskInv
<1>1. TaskInv /\ [TasksNext]_taskVars => TaskInv'
  BY StepKeeps
<1> QED
  BY InitKeeps, <1>1, PTL DEF TasksSpec

\* Whatever tasks there are and however each ends, the counter of slots, the
\* waiting list and the tasks agree, and none waits while a slot is free.
THEOREM SlotsAreExact == TasksSpec => []SlotsMatchTasks
<1>1. TaskInv => SlotsMatchTasks
  BY DEF TaskInv, SlotsInv
<1> QED
  BY <1>1, TasksInvariant, PTL

\* Every variable of the tasks keeps its type.
THEOREM TasksTypeCorrect == TasksSpec => []TasksTypeOK
<1>1. TaskInv => TasksTypeOK
  BY DEF TaskInv, SlotsInv, SlotsTypeOK, WorkTypeOK, TasksTypeOK
<1> QED
  BY <1>1, TasksInvariant, PTL

\* On a branch of executeWithRepo no commit takes back a push or another task's
\* edits, however many tasks share the branch.
THEOREM CommitsAreSafe == TasksSpec => CommitsUndoNothing
<1>1. TaskInv /\ [TasksNext]_taskVars =>
        [\A b \in BridgeBranches, f \in Files : branches[b] # None =>
            /\ branches'[b][f].version >= branches[b][f].version
            /\ branches[b][f].by \subseteq branches'[b][f].by]_taskVars
  <2> SUFFICES ASSUME TaskInv, [TasksNext]_taskVars,
                      NEW b \in BridgeBranches, NEW f \in Files, branches[b] # None
               PROVE  /\ branches'[b][f].version >= branches[b][f].version
                      /\ branches[b][f].by \subseteq branches'[b][f].by
    OBVIOUS
  <2>1. branches[b] \in [Files -> Contents]
    BY DEF TaskInv, WorkTypeOK
  <2> QED
    BY <2>1, StepKeeps DEF BranchesKept, Kept
<1> QED
  BY <1>1, TasksInvariant, PTL DEF TasksSpec, CommitsUndoNothing
=============================================================================
