--------------------------- MODULE JsonStateStore ---------------------------
(***************************************************************************)
(* How JsonStateStore (injectivelens/persistence.py) saves the state: load *)
(* the file, change one entry, write the whole state to <path>.tmp, rename *)
(* it over the file.  The handler threads of the server do this without a  *)
(* lock, and they share the name of the temporary file.                    *)
(*                                                                         *)
(* An entry of the state is a slot with a value: latestAssessment, or one  *)
(* key of proofRecords.  A file's text is as long as the state has entries;*)
(* each place of it belongs to the state whose text was written there.     *)
(* A file that is there and good may still fail to be read: load() takes an *)
(* OSError for an empty state, and the save goes on from that.              *)
(***************************************************************************)
EXTENDS Naturals, Sequences, FiniteSets

CONSTANTS
    Threads,   \* handler threads that save
    Slots,     \* entries of the state
    Values,    \* what an entry may hold
    Inodes,    \* files of the file system, whatever their names
    None       \* a missing entry, a missing file, Python's None

ASSUME NoneAssumption == None \notin Values \cup Inodes \cup Slots

ASSUME SlotsAssumption == IsFiniteSet(Slots)

VARIABLES
    files,     \* the text of each inode
    names,     \* which inode <path> and <path>.tmp name, if any
    saver,     \* the local state of each thread
    returned   \* history: the value of each slot in the last save of it that
               \* returned, unless a save that could not read the file has
               \* returned since

vars == <<files, names, saver, returned>>

StoreState == [Slots -> Values \cup {None}]

NothingSaved == [s \in Slots |-> None]

Size(state) == Cardinality({s \in Slots : state[s] # None})

Saver == [pc : {"idle", "load", "open", "write", "replace"},
          slot : Slots \cup {None}, value : Values \cup {None},
          state : StoreState, blind : BOOLEAN, fd : Inodes \cup {None}]

Idle == [pc |-> "idle", slot |-> None, value |-> None, state |-> NothingSaved,
         blind |-> FALSE, fd |-> None]

TypeOK ==
    /\ files \in [Inodes -> Seq(StoreState)]
    /\ names \in [path : Inodes \cup {None}, tmp : Inodes \cup {None}]
    /\ saver \in [Threads -> Saver]
    /\ returned \in StoreState

-----------------------------------------------------------------------------
\* json.dumps, and what n places of it are when the rest is not written.
Text(state) == [i \in 1 .. Size(state) |-> state]

Part(state, n) == [i \in 1 .. n |-> state]

\* A text that is the text of one state.
Parses(text) == Len(text) > 0 /\ text = Text(text[1])

\* load, when it can read: no file, or one that does not parse, is an empty
\* state.
Load == IF names.path # None /\ Parses(files[names.path])
        THEN files[names.path][1]
        ELSE NothingSaved

\* A write at the start of a file leaves what is beyond it.
Overwrite(text, new) ==
    [i \in 1 .. (IF Len(new) >= Len(text) THEN Len(new) ELSE Len(text)) |->
        IF i <= Len(new) THEN new[i] ELSE text[i]]

Unused == {i \in Inodes : /\ i \notin {names.path, names.tmp}
                          /\ \A t \in Threads : saver[t].fd # i}

Step(t, changes) == saver' = [saver EXCEPT ![t] = changes]

-----------------------------------------------------------------------------
Init ==
    /\ files = [i \in Inodes |-> <<>>]
    /\ names = [path |-> None, tmp |-> None]
    /\ saver = [t \in Threads |-> Idle]
    /\ returned = NothingSaved

\* save_latest_assessment, save_proof_record
Call(t, slot, value) ==
    /\ saver[t].pc = "idle"
    /\ Step(t, [Idle EXCEPT !.pc = "load", !.slot = slot, !.value = value])
    /\ UNCHANGED <<files, names, returned>>

\* Broken: stores the key for the value.
LoadAndKey(t) ==
    /\ saver[t].pc = "load"
    /\ Step(t, [saver[t] EXCEPT !.pc = "open",
                   !.state = [Load EXCEPT ![saver[t].slot] = saver[t].slot]])
    /\ UNCHANGED <<files, names, returned>>

\* Broken: starts from an empty state.
ChangeOnly(t) ==
    /\ saver[t].pc = "load"
    /\ Step(t, [saver[t] EXCEPT !.pc = "open",
                   !.state = [NothingSaved EXCEPT
                                  ![saver[t].slot] = saver[t].value]])
    /\ UNCHANGED <<files, names, returned>>

LoadAndChange(t) ==
    /\ saver[t].pc = "load"
    /\ Step(t, [saver[t] EXCEPT !.pc = "open",
                   !.state = [Load EXCEPT ![saver[t].slot] = saver[t].value]])
    /\ UNCHANGED <<files, names, returned>>

\* The file is there and cannot be read (descriptors or permissions are
\* missing, the disk errs): load returns an empty state.
LoadFails(t) ==
    /\ saver[t].pc = "load"
    /\ names.path # None
    /\ Step(t, [saver[t] EXCEPT !.pc = "open", !.blind = TRUE,
                   !.state = [NothingSaved EXCEPT
                                  ![saver[t].slot] = saver[t].value]])
    /\ UNCHANGED <<files, names, returned>>

\* Broken: writes the file in place.
OpenPath(t) ==
    /\ saver[t].pc = "open"
    /\ \E i \in IF names.path = None THEN Unused ELSE {names.path} :
          /\ names' = [names EXCEPT !.tmp = i]
          /\ files' = [files EXCEPT ![i] = <<>>]
          /\ Step(t, [saver[t] EXCEPT !.pc = "write", !.fd = i])
    /\ UNCHANGED returned

\* write_text opens the temporary file, which creates or truncates it ...
OpenTmp(t) ==
    /\ saver[t].pc = "open"
    /\ \E i \in IF names.tmp = None THEN Unused ELSE {names.tmp} :
          /\ names' = [names EXCEPT !.tmp = i]
          /\ files' = [files EXCEPT ![i] = <<>>]
          /\ Step(t, [saver[t] EXCEPT !.pc = "write", !.fd = i])
    /\ UNCHANGED returned

\* ... writes through its descriptor and closes it.
WriteTmp(t) ==
    /\ saver[t].pc = "write"
    /\ files' = [files EXCEPT ![saver[t].fd]
                                = Overwrite(@, Text(saver[t].state))]
    /\ Step(t, [saver[t] EXCEPT !.pc = "replace", !.fd = None])
    /\ UNCHANGED <<names, returned>>

\* Path.replace renames whatever <path>.tmp names by now.
Replace(t) ==
    /\ saver[t].pc = "replace"
    /\ names.tmp # None
    /\ names' = [path |-> names.tmp, tmp |-> None]
    /\ returned' = [IF saver[t].blind THEN NothingSaved ELSE returned
                       EXCEPT ![saver[t].slot] = saver[t].value]
    /\ Step(t, Idle)
    /\ UNCHANGED files

\* An OSError ends the save, and the handler with it: a full disk, or, from
\* replace, a temporary file that another thread has renamed.
SaveFails(t) ==
    /\ saver[t].pc \in {"open", "replace"}
    /\ Step(t, Idle)
    /\ UNCHANGED <<files, names, returned>>

\* A write that ends early, by an error or with the process, leaves a part of
\* its text.
WriteFails(t, n) ==
    /\ saver[t].pc = "write"
    /\ n < Size(saver[t].state)
    /\ files' = [files EXCEPT ![saver[t].fd]
                                = Overwrite(@, Part(saver[t].state, n))]
    /\ Step(t, Idle)
    /\ UNCHANGED <<names, returned>>

\* The process dies and starts again; the file system stays.
CrashRestart ==
    /\ saver' = [t \in Threads |-> Idle]
    /\ UNCHANGED <<files, names, returned>>

Continue(t) == \/ LoadAndChange(t)
               \/ LoadFails(t)
               \/ OpenTmp(t)
               \/ WriteTmp(t)
               \/ Replace(t)

Next == \/ \E t \in Threads :
              \/ \E slot \in Slots, value \in Values : Call(t, slot, value)
              \/ Continue(t)
              \/ SaveFails(t)
              \/ \E n \in 0 .. Cardinality(Slots) : WriteFails(t, n)
        \/ CrashRestart

Spec == Init /\ [][Next]_vars

-----------------------------------------------------------------------------
(* What the proofs need besides TypeOK (JsonStateStore_proofs).            *)

\* The two names are never names of one file.
NamesDiffer == names.tmp # None => names.tmp # names.path

\* What a save starts from.
Basis(t) == IF saver[t].blind THEN NothingSaved ELSE Load

\* How far a save that nobody interferes with has come.
Undisturbed(t) ==
    /\ saver[t].pc # "idle" => saver[t].slot # None /\ saver[t].value # None
    /\ saver[t].pc \in {"idle", "load"} => ~saver[t].blind
    /\ saver[t].pc \in {"open", "write", "replace"} =>
          saver[t].state = [Basis(t) EXCEPT ![saver[t].slot] = saver[t].value]
    /\ saver[t].pc = "write" =>
          /\ names.tmp # None
          /\ saver[t].fd = names.tmp
          /\ files[names.tmp] = <<>>
    /\ saver[t].pc = "replace" =>
          /\ names.tmp # None
          /\ files[names.tmp] = Text(saver[t].state)

-----------------------------------------------------------------------------
(* Properties.                                                             *)

\* What load() returns changes one slot at a time, by a save, and never by a
\* crash or a failed write: the file is never half written.  A save whose own
\* read of the file failed drops every other slot, whole again, and no other
\* save ever does (module AtomicStore).
Atomic == INSTANCE AtomicStore WITH
    contents <- Load,
    blind <- \E t \in Threads : saver[t].blind

AtomicSaves == Atomic!Spec

\* A save that returned is in the file from then on, through crashes, failed
\* saves and saves of other slots, until the next save of its slot returns.
\* One thing takes it away sooner: a save of another slot that could not read
\* the file and replaced it all the same.
ReturnedIsKept == \A s \in Slots : returned[s] # None => Load[s] = returned[s]

\* However many handlers save at once, the file that <path> names is never
\* truncated in place: what is lost is lost by a rename.
LiveFileIsNotEmptied ==
    [][\A i \in Inodes : i = names.path /\ files[i] # <<>>
                             => files'[i] # <<>>]_vars

\* The state file parses whenever there is one: what was saved survives the
\* restart of the server (README, docs/day7).
FileParses == names.path # None => Parses(files[names.path])
=============================================================================
