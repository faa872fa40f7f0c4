----------------------- MODULE JsonStateStore_proofs -----------------------
(***************************************************************************)
(* What holds of JsonStateStore for any number of writers, and what holds  *)
(* of it when there is one.                                                *)
(***************************************************************************)
EXTENDS JsonStateStore, SequenceTheorems, FiniteSetTheorems, TLAPS

-----------------------------------------------------------------------------
(* Texts.                                                                  *)

LEMMA SizeIsNatural == ASSUME NEW state PROVE Size(state) \in Nat
<1>1. IsFiniteSet({s \in Slots : state[s] # None})
  BY SlotsAssumption, FS_Subset
<1>2. QED  BY <1>1, FS_CardinalityType DEF Size

LEMMA EmptyText == <<>> \in Seq(StoreState) /\ Len(<<>>) = 0
  BY EmptySeq

LEMMA TextProperties ==
    ASSUME NEW state \in StoreState
    PROVE  /\ Text(state) \in Seq(StoreState)
           /\ Len(Text(state)) = Size(state)
           /\ \A i \in 1 .. Size(state) : Text(state)[i] = state
<1>1. Size(state) \in Nat  BY SizeIsNatural
<1>2. Text(state) \in [1 .. Size(state) -> StoreState]  BY DEF Text
<1>3. QED  BY <1>1, <1>2, SeqDef, LenProperties DEF Text

LEMMA PartType ==
    ASSUME NEW state \in StoreState, NEW n \in Nat
    PROVE  Part(state, n) \in Seq(StoreState)
  BY SeqDef DEF Part

\* A state with an entry has a text, which parses, as that state.
LEMMA TextParses ==
    ASSUME NEW state \in StoreState, NEW s \in Slots, state[s] # None
    PROVE  /\ Len(Text(state)) > 0
           /\ Text(state)[1] = state
           /\ Parses(Text(state))
<1> DEFINE saved == {x \in Slots : state[x] # None}
<1>1. IsFiniteSet(saved)  BY SlotsAssumption, FS_Subset
<1>2. Cardinality(saved) \in Nat /\ Cardinality(saved) # 0
  <2>1. saved # {}  OBVIOUS
  <2> HIDE DEF saved
  <2>2. QED  BY <1>1, <2>1, FS_CardinalityType, FS_EmptySet
<1>3. Size(state) \in Nat /\ Size(state) > 0
  <2>1. Size(state) = Cardinality(saved)  BY DEF Size
  <2> HIDE DEF saved
  <2>2. QED  BY <1>2, <2>1
<1>4. Len(Text(state)) = Size(state) /\ Text(state)[1] = state
  BY <1>3, TextProperties
<1>5. QED  BY <1>3, <1>4 DEF Parses

LEMMA OverwriteProperties ==
    ASSUME NEW text \in Seq(StoreState), NEW new \in Seq(StoreState)
    PROVE  /\ Overwrite(text, new) \in Seq(StoreState)
           /\ text # <<>> => Overwrite(text, new) # <<>>
           /\ text = <<>> => Overwrite(text, new) = new
<1> DEFINE n == IF Len(new) >= Len(text) THEN Len(new) ELSE Len(text)
<1>1. /\ Len(text) \in Nat /\ Len(new) \in Nat
      /\ \A i \in 1 .. Len(text) : text[i] \in StoreState
      /\ \A i \in 1 .. Len(new) : new[i] \in StoreState
  BY ElementOfSeq, LenProperties
<1>2. n \in Nat /\ n >= Len(text)  BY <1>1
<1>3. Overwrite(text, new) = [i \in 1 .. n |-> IF i <= Len(new) THEN new[i]
                                                               ELSE text[i]]
  BY DEF Overwrite
<1>4. \A i \in 1 .. n : (IF i <= Len(new) THEN new[i] ELSE text[i]) \in StoreState
  BY <1>1
<1> HIDE DEF n
<1>5. Overwrite(text, new) \in [1 .. n -> StoreState]  BY <1>3, <1>4
<1>6. /\ Overwrite(text, new) \in Seq(StoreState)
      /\ Len(Overwrite(text, new)) = n
  BY <1>2, <1>5, SeqDef, LenProperties
<1>7. ASSUME text # <<>> PROVE Overwrite(text, new) # <<>>
  <2>1. Len(text) # 0  BY <1>7, EmptySeq
  <2>2. QED  BY <1>1, <1>2, <1>6, <2>1, EmptyText
<1>8. ASSUME text = <<>> PROVE Overwrite(text, new) = new
  <2>1. n = Len(new)  BY <1>1, <1>8, EmptyText DEF n
  <2>2. QED  BY <1>1, <1>3, <2>1, SeqDef, LenProperties
<1>9. QED  BY <1>6, <1>7, <1>8

LEMMA LoadType == ASSUME TypeOK PROVE Load \in StoreState
<1>1. NothingSaved \in StoreState  BY DEF NothingSaved, StoreState
<1>2. CASE names.path # None /\ Parses(files[names.path])
  <2>1. names.path \in Inodes  BY <1>2 DEF TypeOK
  <2>2. files[names.path] \in Seq(StoreState)  BY <2>1 DEF TypeOK
  <2>3. Len(files[names.path]) > 0  BY <1>2 DEF Parses
  <2>4. files[names.path][1] \in StoreState
    BY <2>2, <2>3, ElementOfSeq, LenProperties
  <2>5. QED  BY <1>2, <2>4 DEF Load
<1>3. QED  BY <1>1, <1>2 DEF Load

\* What load() returns depends on the file that path names alone.
LEMMA LoadUnchanged ==
    ASSUME names'.path = names.path,
           names.path # None => files'[names.path] = files[names.path]
    PROVE  Load' = Load
  BY DEF Load

-----------------------------------------------------------------------------
(* Any number of writers.                                                  *)

LEMMA IdleType == Idle \in Saver /\ NothingSaved \in StoreState
<1>1. NothingSaved \in StoreState  BY DEF NothingSaved, StoreState
<1>2. QED  BY <1>1 DEF Idle, Saver

LEMMA StepTypes ==
    ASSUME TypeOK, NEW t \in Threads, NEW changes \in Saver, Step(t, changes)
    PROVE  saver' \in [Threads -> Saver]
  BY DEF TypeOK, Step

LEMMA TypeInductive == TypeOK /\ [Next]_vars => TypeOK'
<1> SUFFICES ASSUME TypeOK, [Next]_vars PROVE TypeOK'
  OBVIOUS
<1>1. ASSUME NEW t \in Threads, NEW slot \in Slots, NEW value \in Values,
             Call(t, slot, value)
      PROVE  TypeOK'
  <2>1. [Idle EXCEPT !.pc = "load", !.slot = slot, !.value = value] \in Saver
    BY IdleType DEF Idle, Saver
  <2>2. QED  BY <1>1, <2>1, StepTypes DEF Call, TypeOK
<1>2. ASSUME NEW t \in Threads, LoadAndChange(t) PROVE TypeOK'
  <2>1. saver[t] \in Saver  BY DEF TypeOK
  <2>2. [Load EXCEPT ![saver[t].slot] = saver[t].value] \in StoreState
    BY <2>1, LoadType DEF Saver, StoreState
  <2>3. [saver[t] EXCEPT !.pc = "open",
            !.state = [Load EXCEPT ![saver[t].slot] = saver[t].value]]
          \in Saver
    BY <2>1, <2>2 DEF Saver
  <2>4. QED  BY <1>2, <2>3, StepTypes DEF LoadAndChange, TypeOK
<1>2a. ASSUME NEW t \in Threads, LoadFails(t) PROVE TypeOK'
  <2> DEFINE state == [NothingSaved EXCEPT ![saver[t].slot] = saver[t].value]
  <2>1. saver[t] \in Saver  BY DEF TypeOK
  <2>2. state \in StoreState
    BY <2>1 DEF Saver, StoreState, NothingSaved
  <2>3. [saver[t] EXCEPT !.pc = "open", !.blind = TRUE, !.state = state]
          \in Saver
    BY <2>1, <2>2 DEF Saver
  <2>4. QED  BY <1>2a, <2>3, StepTypes DEF LoadFails, TypeOK
<1>3. ASSUME NEW t \in Threads, OpenTmp(t) PROVE TypeOK'
  <2>1. PICK i \in IF names.tmp = None THEN Unused ELSE {names.tmp} :
           /\ names' = [names EXCEPT !.tmp = i]
           /\ files' = [files EXCEPT ![i] = <<>>]
           /\ Step(t, [saver[t] EXCEPT !.pc = "write", !.fd = i])
    BY <1>3 DEF OpenTmp
  <2>2. i \in Inodes  BY DEF Unused, TypeOK
  <2>3. saver[t] \in Saver  BY DEF TypeOK
  <2>4. [saver[t] EXCEPT !.pc = "write", !.fd = i] \in Saver
    BY <2>2, <2>3 DEF Saver
  <2>5. saver' \in [Threads -> Saver]  BY <2>1, <2>4, StepTypes
  <2>6. files' \in [Inodes -> Seq(StoreState)]
    BY <2>1, EmptyText DEF TypeOK
  <2>7. QED  BY <1>3, <2>1, <2>2, <2>5, <2>6 DEF OpenTmp, TypeOK
<1>4. ASSUME NEW t \in Threads, WriteTmp(t) PROVE TypeOK'
  <2> DEFINE new == Text(saver[t].state)
  <2>1. saver[t] \in Saver  BY DEF TypeOK
  <2>2. new \in Seq(StoreState)
    BY <2>1, TextProperties DEF Saver
  <2> HIDE DEF new
  <2>3. ASSUME NEW i \in Inodes
        PROVE  Overwrite(files[i], new) \in Seq(StoreState)
    BY <2>2, OverwriteProperties DEF TypeOK
  <2>4. files' = [files EXCEPT ![saver[t].fd] = Overwrite(@, new)]
    BY <1>4 DEF WriteTmp, new
  <2>5. files' \in [Inodes -> Seq(StoreState)]
    BY <2>3, <2>4 DEF TypeOK
  <2>6. [saver[t] EXCEPT !.pc = "replace", !.fd = None] \in Saver
    BY <2>1 DEF Saver
  <2>7. QED  BY <1>4, <2>5, <2>6, StepTypes DEF WriteTmp, TypeOK
<1>5. ASSUME NEW t \in Threads, Replace(t) PROVE TypeOK'
  <2>1. saver[t] \in Saver  BY DEF TypeOK
  <2>2. returned' \in StoreState
    BY <1>5, <2>1, IdleType DEF Replace, TypeOK, StoreState, Saver
  <2>3. QED  BY <1>5, <2>2, IdleType, StepTypes DEF Replace, TypeOK
<1>6. ASSUME NEW t \in Threads, SaveFails(t) PROVE TypeOK'
  BY <1>6, IdleType, StepTypes DEF SaveFails, TypeOK
<1>7. ASSUME NEW t \in Threads, NEW n \in 0 .. Cardinality(Slots),
             WriteFails(t, n)
      PROVE  TypeOK'
  <2> DEFINE part == Part(saver[t].state, n)
  <2>1. n \in Nat  BY SlotsAssumption, FS_CardinalityType
  <2>2. part \in Seq(StoreState)
    BY <2>1, PartType DEF Saver, TypeOK
  <2> HIDE DEF part
  <2>3. files' = [files EXCEPT ![saver[t].fd] = Overwrite(@, part)]
    BY <1>7 DEF WriteFails, part
  <2>4. files' \in [Inodes -> Seq(StoreState)]
    BY <2>2, <2>3, OverwriteProperties DEF TypeOK
  <2>5. QED  BY <1>7, <2>4, IdleType, StepTypes DEF WriteFails, TypeOK
<1>8. CASE CrashRestart
  BY <1>8, IdleType DEF CrashRestart, TypeOK
<1>9. CASE UNCHANGED vars
  BY <1>9 DEF vars, TypeOK
<1>10. QED
  BY <1>1, <1>2, <1>2a, <1>3, <1>4, <1>5, <1>6, <1>7, <1>8, <1>9
     DEF Next, Continue

\* Type correctness.
THEOREM TypeCorrect == Spec => []TypeOK
<1>1. Init => TypeOK
  BY IdleType, EmptyText DEF Init, TypeOK
<1>2. QED  BY <1>1, TypeInductive, PTL DEF Spec

LEMMA NamesInductive == TypeOK /\ NamesDiffer /\ [Next]_vars => NamesDiffer'
<1> SUFFICES ASSUME TypeOK, NamesDiffer, [Next]_vars PROVE NamesDiffer'
  OBVIOUS
<1>1. ASSUME NEW t \in Threads, OpenTmp(t) PROVE NamesDiffer'
  BY <1>1 DEF OpenTmp, Unused, NamesDiffer, TypeOK
<1>2. ASSUME NEW t \in Threads, Replace(t) PROVE NamesDiffer'
  BY <1>2 DEF Replace, NamesDiffer, TypeOK
<1>3. CASE UNCHANGED names
  BY <1>3 DEF NamesDiffer
<1>4. QED
  BY <1>1, <1>2, <1>3 DEF Next, Continue, Call, LoadAndChange, LoadFails,
                          WriteTmp, SaveFails, WriteFails, CrashRestart, vars

\* However many handlers save at once, no step truncates the file that <path>
\* names: a temporary file is opened under a name that is not a name of it.
THEOREM NeverTruncated == Spec => LiveFileIsNotEmptied
<1>1. ASSUME TypeOK, NamesDiffer, [Next]_vars
      PROVE  [\A i \in Inodes : i = names.path /\ files[i] # <<>>
                                  => files'[i] # <<>>]_vars
  <2> SUFFICES ASSUME Next, NEW i \in Inodes, i = names.path, files[i] # <<>>
               PROVE  files'[i] # <<>>
    BY <1>1
  <2>1. ASSUME NEW t \in Threads, OpenTmp(t) PROVE files'[i] = files[i]
    BY <1>1, <2>1 DEF OpenTmp, Unused, NamesDiffer, TypeOK
  <2>2. ASSUME NEW t \in Threads, WriteTmp(t) PROVE files'[i] # <<>>
    <3> DEFINE new == Text(saver[t].state)
    <3>1. new \in Seq(StoreState)
      BY <1>1, TextProperties DEF Saver, TypeOK
    <3> HIDE DEF new
    <3>2. Overwrite(files[i], new) # <<>>
      BY <1>1, <3>1, OverwriteProperties DEF TypeOK
    <3>3. files' = [files EXCEPT ![saver[t].fd] = Overwrite(@, new)]
      BY <2>2 DEF WriteTmp, new
    <3>4. QED  BY <1>1, <3>2, <3>3 DEF TypeOK
  <2>3. ASSUME NEW t \in Threads, NEW n \in 0 .. Cardinality(Slots),
               WriteFails(t, n)
        PROVE  files'[i] # <<>>
    <3> DEFINE part == Part(saver[t].state, n)
    <3>1. n \in Nat  BY SlotsAssumption, FS_CardinalityType
    <3>2. part \in Seq(StoreState)
      BY <1>1, <3>1, PartType DEF Saver, TypeOK
    <3> HIDE DEF part
    <3>3. Overwrite(files[i], part) # <<>>
      BY <1>1, <3>2, OverwriteProperties DEF TypeOK
    <3>4. files' = [files EXCEPT ![saver[t].fd] = Overwrite(@, part)]
      BY <2>3 DEF WriteFails, part
    <3>5. QED  BY <1>1, <3>3, <3>4 DEF TypeOK
  <2>4. CASE UNCHANGED files
    BY <2>4
  <2>5. QED
    BY <2>1, <2>2, <2>3, <2>4 DEF Next, Continue, Call, LoadAndChange, LoadFails,
                                  Replace, SaveFails, CrashRestart
<1>2. Init => TypeOK /\ NamesDiffer
  BY IdleType, EmptyText DEF Init, TypeOK, NamesDiffer
<1>3. QED
  BY <1>1, <1>2, TypeInductive, NamesInductive, PTL
     DEF Spec, LiveFileIsNotEmptied

-----------------------------------------------------------------------------
(* One writer.                                                             *)

OneWriter == \A t, u \in Threads : t = u

\* The inductive invariant of a single writer.
Tidy == /\ NamesDiffer
        /\ FileParses
        /\ \A t \in Threads : Undisturbed(t)
        /\ ReturnedIsKept

\* The writer's step, when it leaves the file and its state alone.
LEMMA StepTidies ==
    ASSUME OneWriter, TypeOK, Tidy, NEW t \in Threads, NEW changes \in Saver,
           Step(t, changes), Undisturbed(t)', NamesDiffer',
           Load' = Load, FileParses', returned' = returned
    PROVE  Tidy'
<1>1. \A u \in Threads : Undisturbed(u)'
  BY DEF OneWriter
<1>2. ReturnedIsKept'
  BY DEF Tidy, ReturnedIsKept
<1>3. QED  BY <1>1, <1>2 DEF Tidy

LEMMA TidyInductive ==
    ASSUME OneWriter, TypeOK, Tidy, Next
    PROVE  Tidy' /\ Atomic!Next
<1>0. TypeOK' /\ NamesDiffer'
  BY TypeInductive, NamesInductive DEF Tidy
<1>1. ASSUME NEW t \in Threads, NEW slot \in Slots, NEW value \in Values,
             Call(t, slot, value)
      PROVE  Tidy' /\ Load' = Load
  <2> DEFINE next == [Idle EXCEPT !.pc = "load", !.slot = slot, !.value = value]
  <2>1. next \in Saver /\ Step(t, next)
    BY <1>1, IdleType DEF Idle, Saver, Call
  <2>2. Load' = Load /\ FileParses'
    BY <1>1, LoadUnchanged DEF Call, Tidy, FileParses
  <2>3. saver'[t] = next
    BY <1>1, <2>1 DEF Step, TypeOK
  <2>4. /\ next.pc = "load" /\ next.slot = slot /\ next.value = value
        /\ ~next.blind
    BY DEF Idle
  <2>5. slot # None /\ value # None
    BY NoneAssumption
  <2>6. Undisturbed(t)'
    BY <2>3, <2>4, <2>5 DEF Undisturbed
  <2>7. QED  BY <1>0, <1>1, <2>1, <2>2, <2>6, StepTidies DEF Call
<1>2. ASSUME NEW t \in Threads, LoadAndChange(t)
      PROVE  Tidy' /\ Load' = Load
  <2> DEFINE state == [Load EXCEPT ![saver[t].slot] = saver[t].value]
             next  == [saver[t] EXCEPT !.pc = "open", !.state = state]
  <2>1. saver[t] \in Saver  BY DEF TypeOK
  <2>2. state \in StoreState
    BY <2>1, LoadType DEF Saver, StoreState
  <2>3. next \in Saver /\ Step(t, next)
    BY <1>2, <2>1, <2>2 DEF Saver, LoadAndChange
  <2>4. Load' = Load /\ FileParses'
    BY <1>2, LoadUnchanged DEF LoadAndChange, Tidy, FileParses
  <2>5. saver'[t] = next
    BY <1>2, <2>3 DEF Step, TypeOK
  <2>6. /\ next.pc = "open" /\ next.state = state
        /\ next.slot = saver[t].slot /\ next.value = saver[t].value
    BY <2>1 DEF Saver
  <2>7. saver[t].slot # None /\ saver[t].value # None /\ ~next.blind
    BY <1>2, <2>1 DEF Tidy, Undisturbed, LoadAndChange, Saver
  <2> HIDE DEF next
  <2>8. Undisturbed(t)'
    BY <2>4, <2>5, <2>6, <2>7 DEF Undisturbed, Basis
  <2>9. QED  BY <1>0, <1>2, <2>3, <2>4, <2>8, StepTidies DEF LoadAndChange
<1>2a. ASSUME NEW t \in Threads, LoadFails(t)
       PROVE  Tidy' /\ Load' = Load
  <2> DEFINE state == [NothingSaved EXCEPT ![saver[t].slot] = saver[t].value]
             next  == [saver[t] EXCEPT !.pc = "open", !.blind = TRUE,
                                       !.state = state]
  <2>1. saver[t] \in Saver  BY DEF TypeOK
  <2>2. state \in StoreState
    BY <2>1 DEF Saver, StoreState, NothingSaved
  <2>3. next \in Saver /\ Step(t, next)
    BY <1>2a, <2>1, <2>2 DEF Saver, LoadFails
  <2>4. Load' = Load /\ FileParses'
    BY <1>2a, LoadUnchanged DEF LoadFails, Tidy, FileParses
  <2>5. saver'[t] = next
    BY <1>2a, <2>3 DEF Step, TypeOK
  <2>6. /\ next.pc = "open" /\ next.state = state /\ next.blind
        /\ next.slot = saver[t].slot /\ next.value = saver[t].value
    BY <2>1 DEF Saver
  <2>7. saver[t].slot # None /\ saver[t].value # None
    BY <1>2a DEF Tidy, Undisturbed, LoadFails
  <2> HIDE DEF next
  <2>8. Undisturbed(t)'
    BY <2>5, <2>6, <2>7 DEF Undisturbed, Basis
  <2>9. QED  BY <1>0, <1>2a, <2>3, <2>4, <2>8, StepTidies DEF LoadFails
<1>3. ASSUME NEW t \in Threads, OpenTmp(t)
      PROVE  Tidy' /\ Load' = Load
  <2>1. PICK i \in IF names.tmp = None THEN Unused ELSE {names.tmp} :
           /\ names' = [names EXCEPT !.tmp = i]
           /\ files' = [files EXCEPT ![i] = <<>>]
           /\ Step(t, [saver[t] EXCEPT !.pc = "write", !.fd = i])
    BY <1>3 DEF OpenTmp
  <2> DEFINE next == [saver[t] EXCEPT !.pc = "write", !.fd = i]
  <2>2. i \in Inodes /\ i # names.path
    BY DEF Unused, TypeOK, Tidy, NamesDiffer
  <2>3. saver[t] \in Saver  BY DEF TypeOK
  <2>4. next \in Saver /\ Step(t, next)
    BY <2>1, <2>2, <2>3 DEF Saver
  <2>5. /\ names'.path = names.path /\ names'.tmp = i
        /\ files'[i] = <<>>
        /\ names.path # None => files'[names.path] = files[names.path]
    BY <2>1, <2>2 DEF TypeOK
  <2>6. Load' = Load /\ FileParses'
    BY <2>5, LoadUnchanged DEF Tidy, FileParses
  <2>7. saver'[t] = next
    BY <2>4 DEF Step, TypeOK
  <2>8. /\ next.pc = "write" /\ next.fd = i /\ next.state = saver[t].state
        /\ next.slot = saver[t].slot /\ next.value = saver[t].value
        /\ next.blind = saver[t].blind
    BY <2>3 DEF Saver
  <2>9. /\ saver[t].slot # None /\ saver[t].value # None
        /\ saver[t].state = [Basis(t) EXCEPT ![saver[t].slot] = saver[t].value]
    BY <1>3 DEF Tidy, Undisturbed, OpenTmp
  <2>10. i # None
    BY <2>2, NoneAssumption
  <2> HIDE DEF next
  <2>11. Undisturbed(t)'
    BY <2>5, <2>6, <2>7, <2>8, <2>9, <2>10 DEF Undisturbed, Basis
  <2>12. QED  BY <1>0, <1>3, <2>4, <2>6, <2>11, StepTidies DEF OpenTmp
<1>4. ASSUME NEW t \in Threads, WriteTmp(t)
      PROVE  Tidy' /\ Load' = Load
  <2> DEFINE new  == Text(saver[t].state)
             next == [saver[t] EXCEPT !.pc = "replace", !.fd = None]
  <2>1. saver[t] \in Saver  BY DEF TypeOK
  <2>2. next \in Saver /\ Step(t, next)
    BY <1>4, <2>1 DEF Saver, WriteTmp
  <2>3. /\ saver[t].slot # None /\ saver[t].value # None
        /\ saver[t].state = [Basis(t) EXCEPT ![saver[t].slot] = saver[t].value]
        /\ names.tmp # None /\ saver[t].fd = names.tmp
        /\ files[names.tmp] = <<>>
    BY <1>4 DEF Tidy, Undisturbed, WriteTmp
  <2>4. Overwrite(files[names.tmp], new) = new
    BY <2>1, <2>3, TextProperties, OverwriteProperties, EmptyText DEF Saver
  <2>5. files' = [files EXCEPT ![names.tmp] = new]
    BY <1>4, <2>3, <2>4 DEF WriteTmp
  <2>6. names.tmp \in Inodes /\ names.tmp # names.path /\ names' = names
    BY <1>4, <2>3 DEF TypeOK, Tidy, NamesDiffer, WriteTmp
  <2>7. /\ files'[names.tmp] = new
        /\ names.path # None => files'[names.path] = files[names.path]
    BY <2>5, <2>6 DEF TypeOK
  <2>8. Load' = Load /\ FileParses'
    BY <2>6, <2>7, LoadUnchanged DEF Tidy, FileParses
  <2>9. saver'[t] = next
    BY <2>2 DEF Step, TypeOK
  <2>10. /\ next.pc = "replace" /\ next.state = saver[t].state
         /\ next.slot = saver[t].slot /\ next.value = saver[t].value
         /\ next.blind = saver[t].blind
    BY <2>1 DEF Saver
  <2> HIDE DEF next
  <2>11. Undisturbed(t)'
    BY <2>3, <2>6, <2>7, <2>8, <2>9, <2>10
       DEF Undisturbed, Basis, Text, Size
  <2>12. QED  BY <1>0, <1>4, <2>2, <2>8, <2>11, StepTidies DEF WriteTmp
<1>5. ASSUME NEW t \in Threads, Replace(t)
      PROVE  Tidy' /\ Atomic!Next
  <2> DEFINE slot  == saver[t].slot
             value == saver[t].value
             state == saver[t].state
             blind == saver[t].blind
  <2>1. /\ saver[t] \in Saver
        /\ slot # None /\ value # None
        /\ state = [Basis(t) EXCEPT ![slot] = value]
        /\ names.tmp # None
        /\ files[names.tmp] = Text(state)
    BY <1>5 DEF Tidy, Undisturbed, Replace, TypeOK
  <2>2. /\ slot \in Slots /\ value \in Values /\ state \in StoreState
        /\ blind \in BOOLEAN
        /\ Basis(t) = IF blind THEN NothingSaved ELSE Load
    BY <2>1 DEF Saver, Basis
  <2>3. state[slot] # None
    BY <2>1, <2>2, LoadType, IdleType DEF StoreState
  <2>4. /\ returned' = [IF blind THEN NothingSaved ELSE returned
                           EXCEPT ![slot] = value]
        /\ saver'[t] = Idle
    BY <1>5 DEF Replace, Step, TypeOK
  <2>5. /\ (\E u \in Threads : saver[u].blind) <=> blind
        /\ ~ \E u \in Threads : saver'[u].blind
        /\ \A u \in Threads : saver'[u] = Idle
    BY <2>4 DEF OneWriter, Idle
  <2> HIDE DEF slot, value, state, blind
  <2>6. Len(Text(state)) > 0 /\ Text(state)[1] = state /\ Parses(Text(state))
    BY <2>2, <2>3, TextParses
  <2>7. names'.path = names.tmp /\ files' = files /\ names.tmp \in Inodes
    BY <1>5, <2>1 DEF Replace, TypeOK
  <2>8. FileParses'
    <3>1. files'[names'.path] = Text(state)  BY <2>1, <2>7
    <3>2. Parses(files'[names'.path])        BY <2>6, <3>1
    <3>3. QED  BY <3>2 DEF FileParses
  <2>9. Load' = state
    <3>1. Load' = files[names.tmp][1]
      BY <2>1, <2>7, <2>8 DEF Load, FileParses
    <3>2. QED  BY <2>1, <2>6, <3>1
  <2>10. ASSUME blind PROVE ReturnedIsKept' /\ Atomic!Next
    <3>1. /\ Load' = [NothingSaved EXCEPT ![slot] = value]
          /\ returned' = Load'
      BY <2>1, <2>2, <2>4, <2>9, <2>10
    <3>2. ReturnedIsKept'
      BY <3>1 DEF ReturnedIsKept
    <3>3. Load' = [s \in Slots |-> IF s = slot THEN value ELSE None]
      BY <3>1 DEF NothingSaved
    <3>4. \E s \in Slots, v \in Values : Atomic!SaveBlind(s, v)
      BY <2>2, <2>5, <2>10, <3>3 DEF Atomic!SaveBlind
    <3>5. QED  BY <3>2, <3>4 DEF Atomic!Next
  <2>11. ASSUME ~blind PROVE ReturnedIsKept' /\ Atomic!Next
    <3>1. /\ Load' = [Load EXCEPT ![slot] = value]
          /\ returned' = [returned EXCEPT ![slot] = value]
      BY <2>1, <2>2, <2>4, <2>9, <2>11
    <3>2. ReturnedIsKept'
      BY <2>2, <3>1, LoadType DEF ReturnedIsKept, Tidy, TypeOK, StoreState
    <3>3. Atomic!Save(slot, value)
      BY <2>5, <2>11, <3>1 DEF Atomic!Save
    <3>4. QED  BY <2>2, <3>2, <3>3 DEF Atomic!Next
  <2>12. ReturnedIsKept' /\ Atomic!Next
    BY <2>10, <2>11
  <2>13. \A u \in Threads : Undisturbed(u)'
    BY <2>5 DEF Undisturbed, Idle
  <2>14. QED  BY <1>0, <2>8, <2>12, <2>13 DEF Tidy
<1>6. ASSUME NEW t \in Threads, SaveFails(t)
      PROVE  Tidy' /\ Load' = Load
  <2>1. Load' = Load /\ FileParses'
    BY <1>6, LoadUnchanged DEF SaveFails, Tidy, FileParses
  <2>2. saver'[t] = Idle
    BY <1>6 DEF SaveFails, Step, TypeOK
  <2>3. Undisturbed(t)'
    BY <2>2 DEF Undisturbed, Idle
  <2>4. QED  BY <1>0, <1>6, <2>1, <2>3, IdleType, StepTidies DEF SaveFails
<1>7. ASSUME NEW t \in Threads, NEW n \in 0 .. Cardinality(Slots),
             WriteFails(t, n)
      PROVE  Tidy' /\ Load' = Load
  <2>1. names.tmp # names.path /\ saver[t].fd = names.tmp /\ names' = names
    BY <1>7 DEF Tidy, NamesDiffer, Undisturbed, WriteFails
  <2>2. names.path # None => files'[names.path] = files[names.path]
    BY <1>7, <2>1 DEF TypeOK, WriteFails
  <2>3. Load' = Load /\ FileParses'
    BY <2>1, <2>2, LoadUnchanged DEF Tidy, FileParses
  <2>4. saver'[t] = Idle
    BY <1>7 DEF WriteFails, Step, TypeOK
  <2>5. Undisturbed(t)'
    BY <2>4 DEF Undisturbed, Idle
  <2>6. QED  BY <1>0, <1>7, <2>3, <2>5, IdleType, StepTidies DEF WriteFails
<1>8. ASSUME CrashRestart PROVE Tidy' /\ Load' = Load
  <2>1. Load' = Load /\ FileParses'
    BY <1>8, LoadUnchanged DEF CrashRestart, Tidy, FileParses
  <2>2. \A t \in Threads : saver'[t] = Idle
    BY <1>8 DEF CrashRestart
  <2>3. \A t \in Threads : Undisturbed(t)'
    BY <2>2 DEF Undisturbed, Idle
  <2>4. ReturnedIsKept'
    BY <1>8, <2>1 DEF CrashRestart, Tidy, ReturnedIsKept
  <2>5. QED  BY <1>0, <2>1, <2>3, <2>4 DEF Tidy
<1>9. ASSUME Load' = Load PROVE Atomic!Next
  BY <1>9 DEF Atomic!Next, Atomic!ReadFails, Atomic!GiveUp
<1>10. QED
  BY <1>1, <1>2, <1>2a, <1>3, <1>4, <1>5, <1>6, <1>7, <1>8, <1>9
     DEF Next, Continue

LEMMA TidyStutters ==
    ASSUME Tidy, UNCHANGED vars
    PROVE  Tidy' /\ UNCHANGED Atomic!vars
<1>1. Load' = Load /\ saver' = saver
  BY DEF vars, Load, Parses, Text, Size
<1>2. Tidy'
  BY <1>1 DEF vars, Tidy, NamesDiffer, FileParses, Undisturbed, Basis,
              ReturnedIsKept, Parses, Text, Size
<1>3. QED  BY <1>1, <1>2 DEF Atomic!vars

LEMMA TidyInitially == Init => TypeOK /\ Tidy /\ Load = NothingSaved
  BY IdleType, EmptyText
     DEF Init, TypeOK, Tidy, NamesDiffer, FileParses, Undisturbed, Idle,
         ReturnedIsKept, NothingSaved, Load

\* One writer never leaves a file that does not parse, wherever it dies.
THEOREM OneWriterFileParses == OneWriter => (Spec => []FileParses)
<1> SUFFICES ASSUME OneWriter PROVE Spec => []FileParses
  OBVIOUS
<1>1. TypeOK /\ Tidy /\ [Next]_vars => TypeOK' /\ Tidy'
  BY TypeInductive, TidyInductive, TidyStutters
<1>2. Tidy => FileParses  BY DEF Tidy
<1>3. QED  BY <1>1, <1>2, TidyInitially, PTL DEF Spec

\* What a save of one writer left in the file when it returned stays there
\* until its slot is saved again, or a save that could not read the file
\* replaces it.
THEOREM OneWriterKeeps == OneWriter => (Spec => []ReturnedIsKept)
<1> SUFFICES ASSUME OneWriter PROVE Spec => []ReturnedIsKept
  OBVIOUS
<1>1. TypeOK /\ Tidy /\ [Next]_vars => TypeOK' /\ Tidy'
  BY TypeInductive, TidyInductive, TidyStutters
<1>2. Tidy => ReturnedIsKept  BY DEF Tidy
<1>3. QED  BY <1>1, <1>2, TidyInitially, PTL DEF Spec

\* One writer's load, change, write and rename implement one atomic save: of
\* one slot with the others kept, or, if this very load met a read error, of
\* one slot alone.
THEOREM OneWriterIsAtomic == OneWriter => (Spec => AtomicSaves)
<1> SUFFICES ASSUME OneWriter PROVE Spec => AtomicSaves
  OBVIOUS
<1>1. TypeOK /\ Tidy /\ [Next]_vars
          => TypeOK' /\ Tidy' /\ [Atomic!Next]_(Atomic!vars)
  BY TypeInductive, TidyInductive, TidyStutters
<1>2. Init => Atomic!Init
  BY TidyInitially DEF Init, Idle, Atomic!Init, NothingSaved
<1>3. QED
  BY <1>1, <1>2, TidyInitially, PTL DEF Spec, AtomicSaves, Atomic!Spec

=============================================================================
