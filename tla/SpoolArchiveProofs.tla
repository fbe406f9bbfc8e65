------------------------- MODULE SpoolArchiveProofs -------------------------
(***************************************************************************)
(* No evidence is lost between the spool and its archives, and what prune  *)
(* reports is so, for any number of artifacts, archives and commands       *)
(* running side by side.  Then the other commands of the administrator: a  *)
(* deployment command that succeeds has brought files and services         *)
(* together, and one fault is rolled back.                                 *)
(***************************************************************************)
EXTENDS MCAdministration, Integers, FiniteSetTheorems, SequenceTheorems, WellFoundedInduction,
    TLAPS

\* What a prune has verified stays in its archive until the command ends: only
\* a power loss takes an archive away, and it takes the commands too.
PruneBacked ==
    \A d \in Admins : op[d].stage \in Removing =>
        /\ op[d].path \in Paths
        /\ NamesIn(op[d].todo \cup op[d].done)
               \subseteq NamesIn(archive[op[d].path].entries)

\* The inductive invariant: both facts together.
EvidenceInv == PruneBacked /\ EvidenceKept

----------------------------------------------------------------------------
LEMMA IdleType == Idle \in Command
BY DEF Idle, Command, Stages

LEMMA NoArchiveType == NoArchive \in Manifest
BY DEF NoArchive, Manifest

LEMMA FirstIn == ASSUME NEW E PROVE First(E) \subseteq E
BY DEF First

LEMMA InitType == Init => TypeOK
<1> SUFFICES ASSUME Init PROVE TypeOK
  OBVIOUS
<1>1. file \in [Names -> FileRecord] BY DEF Init, FileRecord
<1>2. archive \in [Paths -> Manifest] BY NoArchiveType DEF Init
<1>3. op \in [Admins -> Command] BY IdleType DEF Init
<1> QED BY <1>1, <1>2, <1>3 DEF Init, TypeOK, Published

\* Putting a well-formed command in the table keeps the table well-formed.
LEMMA CommandStep ==
    ASSUME TypeOK, NEW d \in Admins, NEW c \in Command, Becomes(d, c)
    PROVE  op' \in [Admins -> Command]
BY DEF TypeOK, Becomes

LEMMA LeaveStep ==
    ASSUME TypeOK, NEW d \in Admins, Leaves(d)
    PROVE  op' \in [Admins -> Command]
BY IdleType, CommandStep DEF Leaves

\* The steps of the commands that touch nothing but the table.
Bookkeeping == Keep /\ UNCHANGED <<present, unsynced, archive, durable>>

LEMMA BookkeepingType ==
    ASSUME TypeOK, Bookkeeping, op' \in [Admins -> Command]
    PROVE  TypeOK'
BY DEF TypeOK, Bookkeeping, Keep, Published

LEMMA SelectedIn ==
    ASSUME NEW S, NEW age, NEW keep PROVE Selected(S, age, keep) \subseteq S
BY DEF Selected, Eligible

LEMMA ArchiveType ==
    ASSUME TypeOK, NEW d \in Admins, NEW z \in Paths, NEW age, NEW keep,
           Archive(d, z, age, keep)
    PROVE  TypeOK'
<1> DEFINE chosen == Selected(Spool(mode), age, keep)
           todo == {EntryOf(a) : a \in chosen}
           c == [stage |-> "capture", path |-> z, mode |-> mode,
                 todo |-> todo, done |-> {}]
<1>1. chosen \subseteq Names
  BY SelectedIn DEF Spool, TypeOK, Published
<1>2. \A a \in Names : EntryOf(a) \in Entry
  BY DEF EntryOf, Entry, TypeOK, FileRecord
<1>3. todo \in SUBSET Entry
  BY <1>1, <1>2
<1>4. c \in Command
  <2> HIDE DEF todo
  <2> QED BY <1>3 DEF Command, Stages, TypeOK
<1>5. Bookkeeping /\ Becomes(d, c)
  BY DEF Archive, Bookkeeping
<1> HIDE DEF c
<1> QED BY <1>4, <1>5, CommandStep, BookkeepingType

LEMMA PruneType ==
    ASSUME TypeOK, NEW d \in Admins, NEW z \in Paths, Prune(d, z)
    PROVE  TypeOK'
<1> DEFINE c == [stage |-> "check", path |-> z, mode |-> mode,
                 todo |-> archive[z].entries, done |-> {}]
<1>1. archive[z].entries \in SUBSET Entry
  BY DEF TypeOK, Manifest
<1>2. c \in Command
  BY <1>1 DEF Command, Stages, TypeOK
<1>3. Bookkeeping /\ Becomes(d, c)
  BY DEF Prune, Bookkeeping
<1> HIDE DEF c
<1> QED BY <1>2, <1>3, CommandStep, BookkeepingType

LEMMA CaptureType ==
    ASSUME TypeOK, NEW d \in Admins, CaptureEntry(d)
    PROVE  TypeOK'
<1>1. PICK e \in First(op[d].todo) :
         Becomes(d, [op[d] EXCEPT
                       !.todo = @ \ {e},
                       !.done = @ \cup {e},
                       !.stage = IF op[d].todo = {e} THEN "link"
                                 ELSE "capture"])
  BY DEF CaptureEntry
<1> DEFINE c == [op[d] EXCEPT
                   !.todo = @ \ {e},
                   !.done = @ \cup {e},
                   !.stage = IF op[d].todo = {e} THEN "link" ELSE "capture"]
<1>2. op[d] \in Command /\ e \in op[d].todo
  BY FirstIn DEF TypeOK
<1>3. e \in Entry
  BY <1>2 DEF Command
<1>4. c \in Command
  BY <1>2, <1>3 DEF Command, Stages
<1>5. Bookkeeping
  BY DEF CaptureEntry, Bookkeeping
<1> HIDE DEF c
<1> QED BY <1>1, <1>4, <1>5, CommandStep, BookkeepingType DEF c

LEMMA CheckType ==
    ASSUME TypeOK, NEW d \in Admins, CheckEntry(d)
    PROVE  TypeOK'
<1>1. PICK e \in First(op[d].todo) :
         LET there == e.name \in Spool(op[d].mode)
             found == IF there THEN op[d].done \cup {e} ELSE op[d].done
             rest == op[d].todo \ {e}
         IN  Becomes(d,
               IF rest # {}
               THEN [op[d] EXCEPT !.todo = rest, !.done = found]
               ELSE [op[d] EXCEPT
                       !.todo = found, !.done = {},
                       !.stage = IF found = {} THEN "nothing_to_prune"
                                 ELSE "recheck"])
  BY DEF CheckEntry
<1> DEFINE found == IF e.name \in Spool(op[d].mode) THEN op[d].done \cup {e}
                    ELSE op[d].done
           rest == op[d].todo \ {e}
           more == [op[d] EXCEPT !.todo = rest, !.done = found]
           last == [op[d] EXCEPT
                      !.todo = found, !.done = {},
                      !.stage = IF found = {} THEN "nothing_to_prune"
                                ELSE "recheck"]
<1>2. op[d] \in Command /\ e \in op[d].todo
  BY FirstIn DEF TypeOK
<1>3. found \in SUBSET Entry /\ rest \in SUBSET Entry
  BY <1>2 DEF Command
<1>4. Becomes(d, more) \/ Becomes(d, last)
  BY <1>1
<1> HIDE DEF found, rest
<1>5. more \in Command /\ last \in Command
  BY <1>2, <1>3 DEF Command, Stages
<1>6. Bookkeeping
  BY DEF CheckEntry, Bookkeeping
<1> HIDE DEF more, last
<1> QED BY <1>4, <1>5, <1>6, CommandStep, BookkeepingType

LEMMA RecheckType ==
    ASSUME TypeOK, NEW d \in Admins, RecheckEntry(d)
    PROVE  TypeOK'
<1>1. PICK e \in First(op[d].todo) :
         Becomes(d, [op[d] EXCEPT !.stage = "unlink", !.done = {e}])
  BY DEF RecheckEntry
<1> DEFINE c == [op[d] EXCEPT !.stage = "unlink", !.done = {e}]
<1>2. op[d] \in Command /\ e \in op[d].todo
  BY FirstIn DEF TypeOK
<1>3. c \in Command
  BY <1>2 DEF Command, Stages
<1>4. Bookkeeping
  BY DEF RecheckEntry, Bookkeeping
<1> HIDE DEF c
<1> QED BY <1>1, <1>3, <1>4, CommandStep, BookkeepingType DEF c

LEMMA UnlinkType ==
    ASSUME TypeOK, NEW d \in Admins, UnlinkEntry(d)
    PROVE  TypeOK'
<1>1. PICK e \in op[d].done :
         /\ e.name \in Spool(op[d].mode)
         /\ present' = present \ {e.name}
         /\ unsynced' = unsynced \cup {e.name}
         /\ Removed(d, e)
  BY DEF UnlinkEntry
<1> DEFINE rest == op[d].todo \ {e}
           c == [op[d] EXCEPT !.todo = rest, !.done = {},
                   !.stage = IF rest = {} THEN "sync" ELSE "recheck"]
<1>2. op[d] \in Command
  BY DEF TypeOK
<1>3. c \in Command
  BY <1>2 DEF Command, Stages
<1>4. Becomes(d, c)
  BY <1>1 DEF Removed
<1> HIDE DEF c
<1>5. op' \in [Admins -> Command]
  BY <1>3, <1>4, CommandStep
<1>6. e.name \in Published
  BY <1>1 DEF Spool, TypeOK
<1>7. UNCHANGED <<clock, mode, broker, file, taken, archive, durable>>
  BY DEF UnlinkEntry, Keep
<1> QED BY <1>1, <1>5, <1>6, <1>7 DEF TypeOK, Published

LEMMA LinkType ==
    ASSUME TypeOK, NEW d \in Admins, LinkArchive(d)
    PROVE  TypeOK'
<1> DEFINE m == [entries |-> op[d].done, mode |-> op[d].mode]
<1>1. op[d] \in Command
  BY DEF TypeOK
<1>2. m \in Manifest
  BY <1>1 DEF Command, Manifest
<1>3. archive' = [archive EXCEPT ![op[d].path] = m]
  BY DEF LinkArchive
<1> HIDE DEF m
<1>4. archive' \in [Paths -> Manifest]
  BY <1>2, <1>3 DEF TypeOK
<1>5. op' \in [Admins -> Command]
  BY LeaveStep DEF LinkArchive
<1>6. /\ UNCHANGED <<clock, mode, broker, file, taken, present, unsynced>>
      /\ durable' \subseteq durable
  BY DEF LinkArchive, Keep
<1> QED BY <1>4, <1>5, <1>6 DEF TypeOK, Published

LEMMA SyncType ==
    ASSUME TypeOK, NEW d \in Admins, SyncSpool(d)
    PROVE  TypeOK'
<1> DEFINE c == [op[d] EXCEPT !.stage = "pruned"]
<1>1. op[d] \in Command
  BY DEF TypeOK
<1>2. c \in Command
  BY <1>1 DEF Command, Stages
<1>3. Becomes(d, c)
  BY DEF SyncSpool
<1> HIDE DEF c
<1>4. op' \in [Admins -> Command]
  BY <1>2, <1>3, CommandStep
<1> QED BY <1>4 DEF SyncSpool, Keep, TypeOK, Published

LEMMA PublishType ==
    ASSUME TypeOK, NEW a \in Names, Publish(a)
    PROVE  TypeOK'
<1> DEFINE r == [version |-> 1, day |-> clock, mode |-> mode]
<1>1. r \in FileRecord
  BY DEF FileRecord, TypeOK
<1>2. file' = [file EXCEPT ![a] = r]
  BY DEF Publish
<1>3. r.version = 1
  OBVIOUS
<1> HIDE DEF r
<1>4. file' \in [Names -> FileRecord]
  BY <1>1, <1>2 DEF TypeOK
<1>5. Published' = Published \cup {a}
  BY <1>2, <1>3 DEF Published, TypeOK
<1> QED BY <1>4, <1>5 DEF Publish, TypeOK

LEMMA RestoreType ==
    ASSUME TypeOK, NEW a \in Names, Restore(a)
    PROVE  TypeOK'
<1> DEFINE r == [version |-> file[a].version + 1, day |-> clock,
                 mode |-> file[a].mode]
<1>1. /\ file[a].version \in Nat /\ clock \in Nat
      /\ file[a].mode \in Modes \cup {"none"}
  BY DEF TypeOK, FileRecord
<1>2. r \in FileRecord /\ r.version # 0
  BY <1>1 DEF FileRecord
<1>3. file' = [file EXCEPT ![a] = r]
  BY DEF Restore
<1> HIDE DEF r
<1>4. file' \in [Names -> FileRecord]
  BY <1>2, <1>3 DEF TypeOK
<1>5. Published' = Published \cup {a}
  BY <1>2, <1>3 DEF Published, TypeOK
<1> QED BY <1>4, <1>5 DEF Restore, TypeOK

LEMMA PowerLossType ==
    ASSUME TypeOK, PowerLoss
    PROVE  TypeOK'
<1>1. PICK back \in SUBSET unsynced,
           lost \in SUBSET {z \in Paths : Exists(z) /\ z \notin durable} :
         /\ present' = present \cup back
         /\ archive' = [z \in Paths |-> IF z \in lost THEN NoArchive
                                        ELSE archive[z]]
         /\ taken' = taken \cup UNION {NamesIn(archive[z].entries) : z \in lost}
  BY DEF PowerLoss
<1>2. archive' \in [Paths -> Manifest]
  BY <1>1, NoArchiveType DEF TypeOK
<1>3. \A z \in Paths : NamesIn(archive[z].entries) \subseteq Names
  BY DEF NamesIn, TypeOK, Manifest, Entry
<1>4. taken' \subseteq Names
  BY <1>1, <1>3 DEF TypeOK
<1>5. op' \in [Admins -> Command]
  BY IdleType DEF PowerLoss
<1>6. unsynced' = {} /\ UNCHANGED <<clock, mode, broker, file, durable>>
  BY DEF PowerLoss
<1> QED BY <1>1, <1>2, <1>4, <1>5, <1>6 DEF TypeOK, Published

LEMMA SurroundingsType ==
    ASSUME TypeOK,
           \/ NextDay \/ BeginCollection \/ EndCollection \/ Writeback
           \/ \E m \in Modes : SwitchMode(m)
    PROVE  TypeOK'
BY DEF TypeOK, NextDay, BeginCollection, EndCollection, Writeback, SwitchMode,
       disk, Published

LEMMA NextType == TypeOK /\ [Next]_vars => TypeOK'
<1> SUFFICES ASSUME TypeOK, [Next]_vars PROVE TypeOK'
  OBVIOUS
<1>1. CASE \/ NextDay \/ BeginCollection \/ EndCollection \/ Writeback
           \/ \E m \in Modes : SwitchMode(m)
  BY <1>1, SurroundingsType
<1>2. CASE PowerLoss
  BY <1>2, PowerLossType
<1>3. ASSUME NEW a \in Names, Publish(a) \/ Restore(a) PROVE TypeOK'
  BY <1>3, PublishType, RestoreType
<1>4. ASSUME NEW d \in Admins, NEW z \in Paths, NEW age \in Ages,
             NEW keep \in Keeps, Archive(d, z, age, keep)
      PROVE  TypeOK'
  BY <1>4, ArchiveType
<1>5. ASSUME NEW d \in Admins, NEW z \in Paths, Prune(d, z) PROVE TypeOK'
  BY <1>5, PruneType
<1>6. ASSUME NEW d \in Admins,
             \/ CaptureEntry(d) \/ LinkArchive(d) \/ CheckEntry(d)
             \/ RecheckEntry(d) \/ UnlinkEntry(d) \/ SyncSpool(d)
      PROVE  TypeOK'
  BY <1>6, CaptureType, LinkType, CheckType, RecheckType, UnlinkType, SyncType
<1>7. ASSUME NEW d \in Admins, Abort(d) PROVE TypeOK'
  <2>1. Bookkeeping /\ op' \in [Admins -> Command]
    BY <1>7, LeaveStep DEF Abort, Bookkeeping
  <2> QED BY <2>1, BookkeepingType
<1>8. CASE UNCHANGED vars
  BY <1>8 DEF vars, TypeOK, Published
<1> QED BY <1>1, <1>2, <1>3, <1>4, <1>5, <1>6, <1>7, <1>8 DEF Next

\* The variables keep their types in every behaviour.
THEOREM TypeCorrect == Spec => []TypeOK
<1>1. Init => TypeOK
  BY InitType
<1>2. TypeOK /\ [Next]_vars => TypeOK'
  BY NextType
<1> QED BY <1>1, <1>2, PTL DEF Spec

----------------------------------------------------------------------------
(* Evidence.                                                               *)

LEMMA InitEvidence == Init => EvidenceInv
BY DEF Init, EvidenceInv, PruneBacked, EvidenceKept, Idle, Removing, Published

\* A step keeps the evidence if no name leaves the spool that is not archived,
\* and no archive loses names.
LEMMA KeptStep ==
    ASSUME EvidenceKept, Published' = Published,
           \A a \in present : a \in present' \/ a \in Archived',
           \A z \in Paths : NamesIn(archive[z].entries)
                               \subseteq NamesIn(archive[z].entries)',
           taken \subseteq taken'
    PROVE  EvidenceKept'
<1>1. Archived \subseteq Archived'
  BY DEF Archived
<1> QED BY <1>1 DEF EvidenceKept

\* One command's entry changes and no archive loses names: the others stay
\* backed, and so is this one if its own new entry is.
LEMMA BackedStep ==
    ASSUME TypeOK, PruneBacked, NEW d \in Admins, NEW c, Becomes(d, c),
           \A z \in Paths : NamesIn(archive[z].entries)
                               \subseteq NamesIn(archive[z].entries)',
           c.stage \in Removing =>
               /\ c.path \in Paths
               /\ NamesIn(c.todo \cup c.done)
                      \subseteq NamesIn(archive[c.path].entries)
    PROVE  PruneBacked'
<1> SUFFICES ASSUME NEW b \in Admins, op'[b].stage \in Removing
             PROVE  /\ op'[b].path \in Paths
                    /\ NamesIn(op'[b].todo \cup op'[b].done)
                           \subseteq NamesIn(archive'[op'[b].path].entries)
  BY DEF PruneBacked, NamesIn
<1>1. op'[b] = IF b = d THEN c ELSE op[b]
  BY DEF Becomes, TypeOK
<1>2. CASE b = d
  BY <1>1, <1>2 DEF NamesIn
<1>3. CASE b # d
  BY <1>1, <1>3 DEF PruneBacked, NamesIn
<1> QED BY <1>2, <1>3

LEMMA BookkeepingEvidence ==
    ASSUME TypeOK, EvidenceInv, Bookkeeping, NEW d \in Admins, NEW c,
           Becomes(d, c),
           c.stage \in Removing =>
               /\ c.path \in Paths
               /\ NamesIn(c.todo \cup c.done)
                      \subseteq NamesIn(archive[c.path].entries)
    PROVE  EvidenceInv'
<1>1. /\ UNCHANGED <<present, taken, archive>>
      /\ Published' = Published
  BY DEF Bookkeeping, Keep, Published
<1>2. \A z \in Paths : NamesIn(archive[z].entries)
                          \subseteq NamesIn(archive[z].entries)'
  BY <1>1 DEF NamesIn
<1>3. EvidenceKept'
  BY <1>1, <1>2, KeptStep DEF EvidenceInv
<1>4. PruneBacked'
  BY <1>2, BackedStep DEF EvidenceInv
<1> QED BY <1>3, <1>4 DEF EvidenceInv

LEMMA ArchivingEvidence ==
    ASSUME TypeOK, EvidenceInv, NEW d \in Admins,
           \/ \E z \in Paths, age \in Ages, keep \in Keeps :
                 Archive(d, z, age, keep)
           \/ CaptureEntry(d) \/ Abort(d)
    PROVE  EvidenceInv'
<1>1. Bookkeeping
  BY DEF Archive, CaptureEntry, Abort, Bookkeeping
<1>2. \E c : Becomes(d, c) /\ c.stage \notin Removing
  <2>1. ASSUME NEW z \in Paths, NEW age, NEW keep, Archive(d, z, age, keep)
        PROVE  \E c : Becomes(d, c) /\ c.stage \notin Removing
    BY <2>1 DEF Archive, Removing
  <2>2. CASE CaptureEntry(d)
    <3>1. PICK e \in First(op[d].todo) :
             Becomes(d, [op[d] EXCEPT
                           !.todo = @ \ {e},
                           !.done = @ \cup {e},
                           !.stage = IF op[d].todo = {e} THEN "link"
                                     ELSE "capture"])
      BY <2>2 DEF CaptureEntry
    <3> DEFINE c == [op[d] EXCEPT
                       !.todo = @ \ {e},
                       !.done = @ \cup {e},
                       !.stage = IF op[d].todo = {e} THEN "link"
                                 ELSE "capture"]
    <3>2. op[d] \in Command
      BY DEF TypeOK
    <3>3. c.stage \in {"link", "capture"}
      BY <3>2 DEF Command
    <3>4. Becomes(d, c)
      BY <3>1
    <3> HIDE DEF c
    <3> QED BY <3>3, <3>4 DEF Removing
  <2>3. CASE Abort(d)
    <3>1. Becomes(d, Idle)
      BY <2>3 DEF Abort, Leaves
    <3>2. Idle.stage \notin Removing
      BY DEF Idle, Removing
    <3> QED BY <3>1, <3>2
  <2> QED BY <2>1, <2>2, <2>3
<1> QED BY <1>1, <1>2, BookkeepingEvidence

LEMMA PruneEvidence ==
    ASSUME TypeOK, EvidenceInv, NEW d \in Admins, NEW z \in Paths, Prune(d, z)
    PROVE  EvidenceInv'
<1> DEFINE c == [stage |-> "check", path |-> z, mode |-> mode,
                 todo |-> archive[z].entries, done |-> {}]
<1>1. Bookkeeping /\ Becomes(d, c)
  BY DEF Prune, Bookkeeping
<1>2. c.path = z /\ c.todo \cup c.done = archive[z].entries
  OBVIOUS
<1> HIDE DEF c
<1>3. NamesIn(c.todo \cup c.done) \subseteq NamesIn(archive[c.path].entries)
  BY <1>2
<1> QED BY <1>1, <1>2, <1>3, BookkeepingEvidence

\* A prune that goes on with no more entries than it had stays backed.
LEMMA NarrowedEvidence ==
    ASSUME TypeOK, EvidenceInv, Bookkeeping, NEW d \in Admins, NEW c,
           Becomes(d, c), op[d].stage \in Removing,
           c.path = op[d].path,
           c.todo \cup c.done \subseteq op[d].todo \cup op[d].done
    PROVE  EvidenceInv'
<1>1. /\ op[d].path \in Paths
      /\ NamesIn(op[d].todo \cup op[d].done)
             \subseteq NamesIn(archive[op[d].path].entries)
  BY DEF EvidenceInv, PruneBacked
<1>2. NamesIn(c.todo \cup c.done) \subseteq NamesIn(op[d].todo \cup op[d].done)
  BY DEF NamesIn
<1> QED BY <1>1, <1>2, BookkeepingEvidence

LEMMA CheckEvidence ==
    ASSUME TypeOK, EvidenceInv, NEW d \in Admins, CheckEntry(d)
    PROVE  EvidenceInv'
<1>1. PICK e \in First(op[d].todo) :
         LET there == e.name \in Spool(op[d].mode)
             found == IF there THEN op[d].done \cup {e} ELSE op[d].done
             rest == op[d].todo \ {e}
         IN  Becomes(d,
               IF rest # {}
               THEN [op[d] EXCEPT !.todo = rest, !.done = found]
               ELSE [op[d] EXCEPT
                       !.todo = found, !.done = {},
                       !.stage = IF found = {} THEN "nothing_to_prune"
                                 ELSE "recheck"])
  BY DEF CheckEntry
<1> DEFINE found == IF e.name \in Spool(op[d].mode) THEN op[d].done \cup {e}
                    ELSE op[d].done
           rest == op[d].todo \ {e}
           more == [op[d] EXCEPT !.todo = rest, !.done = found]
           last == [op[d] EXCEPT
                      !.todo = found, !.done = {},
                      !.stage = IF found = {} THEN "nothing_to_prune"
                                ELSE "recheck"]
<1>2. op[d] \in Command /\ e \in op[d].todo
  BY FirstIn DEF TypeOK
<1>3. found \cup rest \subseteq op[d].todo \cup op[d].done
  BY <1>2
<1>4. Becomes(d, more) \/ Becomes(d, last)
  BY <1>1
<1>5. Bookkeeping /\ op[d].stage \in Removing
  BY DEF CheckEntry, Bookkeeping, Removing
<1> HIDE DEF found, rest
<1>6. /\ more.path = op[d].path /\ more.todo = rest /\ more.done = found
      /\ last.path = op[d].path /\ last.todo = found /\ last.done = {}
  BY <1>2 DEF Command
<1> HIDE DEF more, last
<1>7. CASE Becomes(d, more)
  BY <1>3, <1>5, <1>6, <1>7, NarrowedEvidence
<1>8. CASE Becomes(d, last)
  BY <1>3, <1>5, <1>6, <1>8, NarrowedEvidence
<1> QED BY <1>4, <1>7, <1>8

LEMMA RecheckEvidence ==
    ASSUME TypeOK, EvidenceInv, NEW d \in Admins, RecheckEntry(d)
    PROVE  EvidenceInv'
<1>1. PICK e \in First(op[d].todo) :
         Becomes(d, [op[d] EXCEPT !.stage = "unlink", !.done = {e}])
  BY DEF RecheckEntry
<1> DEFINE c == [op[d] EXCEPT !.stage = "unlink", !.done = {e}]
<1>2. op[d] \in Command /\ e \in op[d].todo
  BY FirstIn DEF TypeOK
<1>3. c.path = op[d].path /\ c.todo = op[d].todo /\ c.done = {e}
  BY <1>2 DEF Command
<1>4. Bookkeeping /\ op[d].stage \in Removing /\ Becomes(d, c)
  BY <1>1 DEF RecheckEntry, Bookkeeping, Removing
<1> HIDE DEF c
<1> QED BY <1>2, <1>3, <1>4, NarrowedEvidence

LEMMA UnlinkEvidence ==
    ASSUME TypeOK, EvidenceInv, NEW d \in Admins, UnlinkEntry(d)
    PROVE  EvidenceInv'
<1>1. PICK e \in op[d].done : present' = present \ {e.name} /\ Removed(d, e)
  BY DEF UnlinkEntry
<1> DEFINE rest == op[d].todo \ {e}
           c == [op[d] EXCEPT !.todo = rest, !.done = {},
                   !.stage = IF rest = {} THEN "sync" ELSE "recheck"]
<1>2. op[d] \in Command
  BY DEF TypeOK
<1>3. c.path = op[d].path /\ c.todo = rest /\ c.done = {}
  BY <1>2 DEF Command
<1>4. Becomes(d, c)
  BY <1>1 DEF Removed
<1> HIDE DEF c
<1>5. UNCHANGED <<taken, archive>> /\ Published' = Published
  BY DEF UnlinkEntry, Keep, Published
<1>6. \A z \in Paths : NamesIn(archive[z].entries)
                          \subseteq NamesIn(archive[z].entries)'
  BY <1>5 DEF NamesIn
<1>7. /\ op[d].path \in Paths
      /\ NamesIn(op[d].todo \cup op[d].done)
             \subseteq NamesIn(archive[op[d].path].entries)
  BY DEF EvidenceInv, PruneBacked, UnlinkEntry, Removing
<1>8. e.name \in Archived'
  BY <1>5, <1>7 DEF Archived, NamesIn
<1>9. EvidenceKept'
  BY <1>1, <1>5, <1>6, <1>8, KeptStep DEF EvidenceInv
<1>10. NamesIn(c.todo \cup c.done) \subseteq NamesIn(archive[c.path].entries)
  BY <1>3, <1>7 DEF NamesIn
<1>11. PruneBacked'
  BY <1>3, <1>4, <1>6, <1>7, <1>10, BackedStep DEF EvidenceInv
<1> QED BY <1>9, <1>11 DEF EvidenceInv

LEMMA LinkEvidence ==
    ASSUME TypeOK, EvidenceInv, NEW d \in Admins, LinkArchive(d)
    PROVE  EvidenceInv'
<1>1. UNCHANGED <<present, taken>> /\ Published' = Published /\ Becomes(d, Idle)
  BY DEF LinkArchive, Keep, Published, Leaves
<1>2. \A z \in Paths : archive[z].entries = {} \/ archive'[z] = archive[z]
  BY DEF LinkArchive, OutputFree, Exists, TypeOK
<1>3. \A z \in Paths : NamesIn(archive[z].entries)
                          \subseteq NamesIn(archive[z].entries)'
  BY <1>2 DEF NamesIn
<1>4. Idle.stage \notin Removing
  BY DEF Idle, Removing
<1>5. EvidenceKept'
  BY <1>1, <1>3, KeptStep DEF EvidenceInv
<1>6. PruneBacked'
  BY <1>1, <1>3, <1>4, BackedStep DEF EvidenceInv
<1> QED BY <1>5, <1>6 DEF EvidenceInv

LEMMA SyncEvidence ==
    ASSUME TypeOK, EvidenceInv, NEW d \in Admins, SyncSpool(d)
    PROVE  EvidenceInv'
<1> DEFINE c == [op[d] EXCEPT !.stage = "pruned"]
<1>1. op[d] \in Command
  BY DEF TypeOK
<1>2. c.stage = "pruned"
  BY <1>1 DEF Command
<1>3. Becomes(d, c)
  BY DEF SyncSpool
<1> HIDE DEF c
<1>4. UNCHANGED <<present, taken, archive>> /\ Published' = Published
  BY DEF SyncSpool, Keep, Published
<1>5. \A z \in Paths : NamesIn(archive[z].entries)
                          \subseteq NamesIn(archive[z].entries)'
  BY <1>4 DEF NamesIn
<1>6. EvidenceKept'
  BY <1>4, <1>5, KeptStep DEF EvidenceInv
<1>7. PruneBacked'
  BY <1>2, <1>3, <1>5, BackedStep DEF EvidenceInv, Removing
<1> QED BY <1>6, <1>7 DEF EvidenceInv

LEMMA SurroundingsEvidence ==
    ASSUME TypeOK, EvidenceInv,
           \/ NextDay \/ BeginCollection \/ EndCollection \/ Writeback
           \/ \E m \in Modes : SwitchMode(m)
           \/ UNCHANGED vars
    PROVE  EvidenceInv'
<1>1. UNCHANGED <<file, present, archive, taken, op>>
  BY DEF NextDay, BeginCollection, EndCollection, Writeback, SwitchMode, disk,
         vars
<1> QED BY <1>1 DEF EvidenceInv, EvidenceKept, PruneBacked, Published, Archived,
                    NamesIn

LEMMA PublishEvidence ==
    ASSUME TypeOK, EvidenceInv, NEW a \in Names, Publish(a) \/ Restore(a)
    PROVE  EvidenceInv'
<1>1. /\ UNCHANGED <<archive, taken, op>>
      /\ present' = present \cup {a}
      /\ \A b \in Names : b # a => file'[b] = file[b]
  BY DEF Publish, Restore, TypeOK
<1>2. Published' \subseteq Published \cup {a}
  BY <1>1 DEF Published
<1>3. Archived' = Archived
  BY <1>1 DEF Archived, NamesIn
<1>4. EvidenceKept'
  BY <1>1, <1>2, <1>3 DEF EvidenceInv, EvidenceKept
<1>5. PruneBacked'
  BY <1>1 DEF EvidenceInv, PruneBacked, NamesIn
<1> QED BY <1>4, <1>5 DEF EvidenceInv

LEMMA PowerLossEvidence ==
    ASSUME TypeOK, EvidenceInv, PowerLoss
    PROVE  EvidenceInv'
<1>1. PICK back \in SUBSET unsynced,
           lost \in SUBSET {z \in Paths : Exists(z) /\ z \notin durable} :
         /\ present' = present \cup back
         /\ archive' = [z \in Paths |-> IF z \in lost THEN NoArchive
                                        ELSE archive[z]]
         /\ taken' = taken \cup UNION {NamesIn(archive[z].entries) : z \in lost}
  BY DEF PowerLoss
<1>2. Published' = Published
  BY DEF PowerLoss, Published
<1>3. ASSUME NEW a \in Archived PROVE a \in Archived' \cup taken'
  <2>1. PICK z \in Paths : a \in NamesIn(archive[z].entries)
    BY DEF Archived
  <2>2. CASE z \in lost
    BY <1>1, <2>1, <2>2
  <2>3. CASE z \notin lost
    <3>1. archive'[z] = archive[z]
      BY <1>1, <2>3
    <3> QED BY <2>1, <3>1 DEF Archived, NamesIn
  <2> QED BY <2>2, <2>3
<1>4. EvidenceKept'
  BY <1>1, <1>2, <1>3 DEF EvidenceInv, EvidenceKept
<1>5. \A d \in Admins : op'[d].stage \notin Removing
  BY DEF PowerLoss, Idle, Removing
<1>6. PruneBacked'
  BY <1>5 DEF PruneBacked
<1> QED BY <1>4, <1>6 DEF EvidenceInv

LEMMA NextEvidence == TypeOK /\ EvidenceInv /\ [Next]_vars => EvidenceInv'
<1> SUFFICES ASSUME TypeOK, EvidenceInv, [Next]_vars PROVE EvidenceInv'
  OBVIOUS
<1>1. CASE \/ NextDay \/ BeginCollection \/ EndCollection \/ Writeback
           \/ \E m \in Modes : SwitchMode(m)
           \/ UNCHANGED vars
  BY <1>1, SurroundingsEvidence
<1>2. CASE PowerLoss
  BY <1>2, PowerLossEvidence
<1>3. ASSUME NEW a \in Names, Publish(a) \/ Restore(a) PROVE EvidenceInv'
  BY <1>3, PublishEvidence
<1>4. ASSUME NEW d \in Admins,
             \/ \E z \in Paths, age \in Ages, keep \in Keeps :
                   Archive(d, z, age, keep)
             \/ CaptureEntry(d) \/ Abort(d)
      PROVE  EvidenceInv'
  BY <1>4, ArchivingEvidence
<1>5. ASSUME NEW d \in Admins, NEW z \in Paths, Prune(d, z) PROVE EvidenceInv'
  BY <1>5, PruneEvidence
<1>6. ASSUME NEW d \in Admins,
             \/ LinkArchive(d) \/ CheckEntry(d) \/ RecheckEntry(d)
             \/ UnlinkEntry(d) \/ SyncSpool(d)
      PROVE  EvidenceInv'
  BY <1>6, LinkEvidence, CheckEvidence, RecheckEvidence, UnlinkEvidence,
     SyncEvidence
<1> QED BY <1>1, <1>2, <1>3, <1>4, <1>5, <1>6 DEF Next

\* Evidence is never lost between the spool and its archives: however many
\* commands run at once and wherever they stop, a published artifact is in the
\* spool or in an archive, unless a power loss took the archive itself.
THEOREM EvidenceKeptHolds == Spec => []EvidenceKept
<1>1. Init => EvidenceInv
  BY InitEvidence
<1>2. TypeOK /\ EvidenceInv /\ [Next]_vars => EvidenceInv'
  BY NextEvidence
<1>3. EvidenceInv => EvidenceKept
  BY DEF EvidenceInv
<1> QED BY <1>1, <1>2, <1>3, TypeCorrect, PTL DEF Spec

----------------------------------------------------------------------------
(* Prune.                                                                  *)

\* Everything that was ever published in the spool of a mode, and the artifacts
\* of which keep_latest newer ones were published there.
Ever(m) == {a \in Published : file[a].mode = m}
NewerThan(a) == {b \in Ever(file[a].mode) : Newer(b, a)}
Outranked(a) == Cardinality(NewerThan(a)) >= Min(Keeps)

FilesSound ==
    /\ IsFiniteSet(Published)
    /\ \A a \in Names : file[a].day <= clock
    /\ \A a \in Published \ present : Outranked(a)

\* An entry of a manifest of the mode m was made of the file or of an earlier
\* one with the same bytes, and not while it was among the newest.
Genuine(e, m) ==
    /\ e.version >= 1 /\ e.version <= file[e.name].version
    /\ file[e.name].mode = m
    /\ file[e.name].version = e.version => Outranked(e.name)

ArchivesGenuine == \A z \in Paths : \A e \in archive[z].entries : Genuine(e, archive[z].mode)

\* A command that archives carries genuine entries; one that prunes works on an
\* archive of its mode, and on nothing else; the one it is about to unlink is
\* the archived version.
Pruning == Removing \cup {"pruned", "nothing_to_prune"}
CommandSound(c) ==
    /\ c.stage \in {"capture", "link"} =>
          c.path \in Paths /\ \A e \in c.todo \cup c.done : Genuine(e, c.mode)
    /\ c.stage \in Pruning =>
          /\ c.path \in Paths /\ Exists(c.path) /\ archive[c.path].mode = c.mode
          /\ c.todo \cup c.done \subseteq archive[c.path].entries
    /\ c.stage = "unlink" => \A e \in c.done : file[e.name].version = e.version
    /\ c.stage \in {"sync", "pruned", "nothing_to_prune"} => c.todo = {}
CommandsSound == \A d \in Admins : CommandSound(op[d])

\* The entries a prune has behind it: their files are gone, if they are still
\* the archived ones.
Ahead(c) == IF c.stage = "check" THEN c.todo \cup c.done ELSE c.todo
Absent(c) ==
    c.stage \in Pruning =>
        \A e \in archive[c.path].entries \ Ahead(c) :
            file[e.name].version = e.version =>
                /\ e.name \notin present
                /\ c.stage = "pruned" => e.name \notin unsynced
BehindAbsent == \A d \in Admins : Absent(op[d])

\* The inductive invariant of prune.
PruneInv == FilesSound /\ ArchivesGenuine /\ CommandsSound /\ BehindAbsent

\* Every set of numbers has a least one.
LEMMA LeastOf ==
  ASSUME NEW S, S \subseteq Nat, S # {}
  PROVE  \E n \in S : \A m \in S : n <= m
<1> DEFINE below == {q \in Nat \X Nat : q[1] < q[2]}
<1>1. IsWellFoundedOn(below, Nat)
  BY NatLessThanWellFounded, Zenon DEF OpToRel
<1> HIDE DEF below
<1>2. \E n \in S : \A m \in S : <<m, n>> \notin below
  BY <1>1, WFMin
<1>3. ASSUME NEW m \in Nat, NEW n \in Nat, <<m, n>> \notin below
      PROVE  n <= m
  BY <1>3 DEF below
<1> QED BY <1>2, <1>3

\* Min(Keeps) is the least of the keep_latest values.
LEMMA MinKeeps == Min(Keeps) \in Nat /\ \A k \in Keeps : Min(Keeps) <= k
<1>1. \E n \in Keeps : \A k \in Keeps : n =< k
  BY LeastOf, LimitAssumption
<1>2. Min(Keeps) \in Keeps /\ \A k \in Keeps : Min(Keeps) =< k
  BY <1>1 DEF Min
<1> QED BY <1>2, LimitAssumption

\* A file stays as it is, or becomes the next version and not an older one.
Evolves ==
    \A c \in Names :
        \/ file'[c] = file[c]
        \/ /\ file'[c].version = file[c].version + 1
           /\ file'[c].day >= file[c].day
           /\ file[c].version # 0 => file'[c].mode = file[c].mode

\* An artifact that newer ones have pushed out of keep_latest stays out of it.
LEMMA OutrankedStays ==
  ASSUME TypeOK, TypeOK', Evolves, IsFiniteSet(Published'), NEW b \in Names, file'[b] = file[b],
         Outranked(b)
  PROVE  Outranked(b)'
<1>1. ASSUME NEW c \in NewerThan(b) PROVE c \in NewerThan(b)'
  <2>1. /\ c \in Names /\ file[c].version # 0 /\ file[c].mode = file[b].mode
        /\ Newer(c, b)
    BY DEF NewerThan, Ever, Published
  <2>2. /\ file[c] \in FileRecord /\ file[b] \in FileRecord /\ file'[c] \in FileRecord
        /\ c \in Nat /\ b \in Nat
    BY <2>1, LimitAssumption DEF TypeOK
  <2>3. /\ file'[c].version # 0 /\ file'[c].mode = file[c].mode
        /\ file'[c].day >= file[c].day
    BY <2>1, <2>2 DEF Evolves, FileRecord
  <2>4. Newer(c, b)'
    BY <2>1, <2>2, <2>3 DEF Newer, FileRecord
  <2> QED BY <2>1, <2>3, <2>4 DEF NewerThan, Ever, Published
<1>2. NewerThan(b) \subseteq NewerThan(b)' /\ NewerThan(b)' \subseteq Published'
  BY <1>1 DEF NewerThan, Ever
<1>3. IsFiniteSet(NewerThan(b)')
  BY <1>2, FS_Subset
<1>4. /\ IsFiniteSet(NewerThan(b))
      /\ Cardinality(NewerThan(b)) <= Cardinality(NewerThan(b)')
  BY <1>2, <1>3, FS_Subset
<1>5. Cardinality(NewerThan(b)) \in Nat /\ Cardinality(NewerThan(b)') \in Nat
  BY <1>3, <1>4, FS_CardinalityType
<1>6. Cardinality(NewerThan(b)) >= Min(Keeps)
  BY DEF Outranked
<1>7. Cardinality(NewerThan(b)') >= Min(Keeps)
  BY <1>4, <1>5, <1>6, MinKeeps
<1> QED BY <1>7 DEF Outranked

\* Genuine entries stay genuine.
LEMMA GenuineStays ==
  ASSUME TypeOK, TypeOK', Evolves, IsFiniteSet(Published'), NEW e \in Entry, NEW m, Genuine(e, m)
  PROVE  Genuine(e, m)'
<1>1. /\ e.name \in Names /\ e.version \in Nat
      /\ file[e.name] \in FileRecord /\ file'[e.name] \in FileRecord
  BY DEF TypeOK, Entry
<1>2. CASE file'[e.name] = file[e.name]
  <2>1. Outranked(e.name) => Outranked(e.name)'
    BY <1>1, <1>2, OutrankedStays
  <2> QED BY <1>2, <2>1 DEF Genuine
<1>3. CASE file'[e.name] # file[e.name]
  <2>1. /\ file'[e.name].version = file[e.name].version + 1
        /\ file[e.name].version # 0 => file'[e.name].mode = file[e.name].mode
    BY <1>1, <1>3 DEF Evolves
  <2>2. /\ e.version >= 1 /\ e.version <= file[e.name].version /\ file[e.name].mode = m
        /\ file[e.name].version \in Nat
    BY <1>1 DEF Genuine, FileRecord
  <2>3. /\ e.version <= file'[e.name].version /\ file'[e.name].version # e.version
        /\ file'[e.name].mode = m
    BY <1>1, <2>1, <2>2
  <2> QED BY <2>2, <2>3 DEF Genuine
<1> QED BY <1>2, <1>3

\* The steps that change no file.
LEMMA FilesKept ==
  ASSUME TypeOK, TypeOK', FilesSound, UNCHANGED file, clock <= clock',
         \A a \in present \ present' : Outranked(a)
  PROVE  FilesSound' /\ Evolves /\ IsFiniteSet(Published')
<1>1. Published' = Published /\ \A a \in Names : Outranked(a)' <=> Outranked(a)
  BY DEF Published, Outranked, NewerThan, Ever, Newer
<1>2. \A a \in Names : file[a].day \in Nat
  BY DEF TypeOK, FileRecord
<1>3. \A a \in Names : file'[a].day <= clock'
  BY <1>2 DEF FilesSound, TypeOK
<1>4. \A a \in Published' \ present' : Outranked(a)'
  <2> SUFFICES ASSUME NEW a \in Published, a \notin present' PROVE Outranked(a)
    BY <1>1 DEF Published
  <2> QED BY DEF FilesSound
<1> QED BY <1>1, <1>3, <1>4 DEF FilesSound, Evolves

\* A new file or a restored one.
LEMMA FilesNew ==
  ASSUME TypeOK, TypeOK', FilesSound, NEW a \in Names, NEW r \in FileRecord,
         file' = [file EXCEPT ![a] = r], r.version = file[a].version + 1, r.day = clock,
         file[a].version # 0 => r.mode = file[a].mode,
         UNCHANGED clock, present' = present \cup {a}
  PROVE  FilesSound' /\ Evolves /\ IsFiniteSet(Published')
<1>1. /\ file'[a] = r /\ \A b \in Names \ {a} : file'[b] = file[b]
  BY DEF TypeOK
<1>2. \A b \in Names : file[b].day \in Nat /\ file[b].version \in Nat
  BY DEF TypeOK, FileRecord
<1>3. Evolves
  BY <1>1, <1>2 DEF Evolves, FilesSound, TypeOK
<1>4. Published' = Published \cup {a}
  BY <1>1, <1>2 DEF Published, TypeOK
<1>5. IsFiniteSet(Published')
  BY <1>4, FS_AddElement DEF FilesSound
<1>6. \A b \in Names : file'[b].day <= clock'
  BY <1>1, <1>2 DEF FilesSound, TypeOK
<1>7. ASSUME NEW b \in Published' \ present' PROVE Outranked(b)'
  <2>1. b \in Published \ present /\ b \in Names \ {a}
    BY <1>4 DEF Published
  <2> QED BY <1>1, <1>3, <1>5, <2>1, OutrankedStays DEF FilesSound
<1> QED BY <1>3, <1>5, <1>6, <1>7 DEF FilesSound

\* The archives stay genuine when the entries of new ones are.
LEMMA ArchivesStay ==
  ASSUME TypeOK, TypeOK', ArchivesGenuine, Evolves, IsFiniteSet(Published'),
         \A z \in Paths : \/ archive'[z] = archive[z]
                          \/ \A e \in archive'[z].entries : Genuine(e, archive'[z].mode)
  PROVE  ArchivesGenuine'
<1> SUFFICES ASSUME NEW z \in Paths, NEW e \in archive'[z].entries
             PROVE  Genuine(e, archive[z].mode)'
  BY DEF ArchivesGenuine
<1>1. e \in Entry
  BY DEF TypeOK, Manifest
<1>2. PICK m : m = archive'[z].mode
  OBVIOUS
<1>3. Genuine(e, m)
  BY <1>2 DEF ArchivesGenuine
<1>4. Genuine(e, m)'
  BY <1>1, <1>3, GenuineStays
<1> QED BY <1>2, <1>4 DEF Genuine

\* Archives that exist are not replaced.
ArchivesKept == \A z \in Paths : Exists(z) => archive'[z] = archive[z]

\* A sound command stays sound while no file changes.
LEMMA SoundStays ==
  ASSUME TypeOK, TypeOK', Evolves, IsFiniteSet(Published'), UNCHANGED file, ArchivesKept,
         NEW c \in Command, CommandSound(c)
  PROVE  CommandSound(c)'
<1>1. c.stage \in {"capture", "link"} => \A e \in c.todo \cup c.done : Genuine(e, c.mode)'
  BY GenuineStays DEF CommandSound, Command
<1>2. c.stage \in Pruning =>
        /\ c.path \in Paths /\ archive'[c.path].entries # {} /\ archive'[c.path].mode = c.mode
        /\ c.todo \cup c.done \subseteq archive'[c.path].entries
  BY DEF CommandSound, ArchivesKept, Exists
<1> QED BY <1>1, <1>2 DEF CommandSound, Exists

\* What a prune has behind it stays absent while no file changes and none returns.
LEMMA AbsentStays ==
  ASSUME UNCHANGED file, ArchivesKept, present' \subseteq present,
         unsynced' \subseteq unsynced \cup present,
         NEW c \in Command, CommandSound(c), Absent(c)
  PROVE  Absent(c)'
<1> SUFFICES ASSUME c.stage \in Pruning, NEW e \in archive'[c.path].entries \ Ahead(c),
                    file[e.name].version = e.version
             PROVE  /\ e.name \notin present'
                    /\ c.stage = "pruned" => e.name \notin unsynced'
  BY DEF Absent, Ahead
<1>1. archive'[c.path] = archive[c.path]
  BY DEF CommandSound, ArchivesKept
<1> QED BY <1>1 DEF Absent

\* One command moves on: it is enough to look at that one.
LEMMA CommandMoves ==
  ASSUME TypeOK, TypeOK', CommandsSound, BehindAbsent, Evolves, IsFiniteSet(Published'),
         UNCHANGED file, ArchivesKept, present' \subseteq present,
         unsynced' \subseteq unsynced \cup present,
         NEW d \in Admins, NEW c, Becomes(d, c), CommandSound(c), Absent(c)'
  PROVE  CommandsSound' /\ BehindAbsent'
<1>1. op' = [op EXCEPT ![d] = c] /\ \A b \in Admins : op[b] \in Command /\ op'[b] \in Command
  BY DEF Becomes, TypeOK
<1>2. ASSUME NEW b \in Admins PROVE CommandSound(op[b])' /\ Absent(op[b])'
  <2>1. PICK x : x = op'[b]
    OBVIOUS
  <2>2. x \in Command /\ CommandSound(x)
    BY <1>1, <2>1 DEF CommandsSound, TypeOK
  <2>3. CommandSound(x)'
    BY <2>2, SoundStays
  <2>4. Absent(x)'
    <3>1. CASE b = d
      BY <1>1, <2>1, <3>1 DEF TypeOK
    <3>2. CASE b # d
      <4>1. x = op[b] /\ Absent(x)
        BY <1>1, <2>1, <3>2 DEF BehindAbsent, TypeOK
      <4> QED BY <2>2, <4>1, AbsentStays
    <3> QED BY <3>1, <3>2
  <2> QED BY <2>1, <2>3, <2>4 DEF CommandSound, Absent, Ahead
<1> QED BY <1>2 DEF CommandsSound, BehindAbsent

\* The same for the steps that touch nothing but the table of commands.
LEMMA BookkeepingPrune ==
  ASSUME TypeOK, TypeOK', PruneInv, Bookkeeping, NEW d \in Admins, NEW c, Becomes(d, c),
         CommandSound(c), Absent(c)
  PROVE  PruneInv'
<1> USE DEF PruneInv
<1>1. UNCHANGED <<clock, mode, broker, file, present, unsynced, archive, durable>>
  BY DEF Bookkeeping, Keep
<1>2. FilesSound' /\ Evolves /\ IsFiniteSet(Published')
  BY <1>1, FilesKept DEF TypeOK
<1>3. ArchivesGenuine'
  BY <1>1, <1>2, ArchivesStay
<1>4. ArchivesKept /\ Absent(c)'
  BY <1>1 DEF ArchivesKept, Absent, Ahead
<1>5. CommandsSound' /\ BehindAbsent'
  BY <1>1, <1>2, <1>4, CommandMoves
<1> QED BY <1>2, <1>3, <1>5

\* A command that ended asks for nothing.
LEMMA IdleSound == CommandSound(Idle) /\ Absent(Idle)
BY DEF CommandSound, Absent, Idle, Pruning, Removing

\* What Archive chooses has keep_latest newer ones in the spool.
LEMMA ChosenGenuine ==
  ASSUME TypeOK, PruneInv, NEW age, NEW keep \in Keeps, NEW a \in Selected(Spool(mode), age, keep)
  PROVE  Genuine(EntryOf(a), mode)
<1>1. a \in Spool(mode) /\ a \notin Retained(Spool(mode), keep)
  BY DEF Selected, Eligible
<1>2. a \in Published /\ file[a].mode = mode /\ a \in Names /\ file[a].version \in Nat \ {0}
  BY <1>1 DEF Spool, TypeOK, Published, FileRecord
<1> DEFINE newer == {b \in Spool(mode) : Newer(b, a)}
<1>3. newer \subseteq NewerThan(a) /\ NewerThan(a) \subseteq Published
  BY <1>2 DEF Spool, NewerThan, Ever, TypeOK
<1>4. IsFiniteSet(NewerThan(a))
  BY <1>3, FS_Subset DEF PruneInv, FilesSound
<1>5. IsFiniteSet(newer) /\ Cardinality(newer) <= Cardinality(NewerThan(a))
  BY <1>3, <1>4, FS_Subset
<1>6. ~(Cardinality(newer) < keep)
  BY <1>1 DEF Retained
<1> HIDE DEF newer
<1>7. Cardinality(newer) \in Nat /\ Cardinality(NewerThan(a)) \in Nat /\ keep \in Nat
  BY <1>4, <1>5, FS_CardinalityType, LimitAssumption
<1>8. Outranked(a)
  BY <1>5, <1>6, <1>7, MinKeeps DEF Outranked
<1> QED BY <1>2, <1>8 DEF Genuine, EntryOf

\* archive-spool begins with genuine entries.
LEMMA ArchivePrune ==
  ASSUME TypeOK, TypeOK', PruneInv, NEW d \in Admins, NEW z \in Paths, NEW age, NEW keep \in Keeps,
         Archive(d, z, age, keep)
  PROVE  PruneInv'
<1> DEFINE todo == {EntryOf(a) : a \in Selected(Spool(mode), age, keep)}
           c == [stage |-> "capture", path |-> z, mode |-> mode, todo |-> todo, done |-> {}]
<1>1. Bookkeeping /\ Becomes(d, c)
  BY DEF Archive, Bookkeeping
<1>2. \A e \in todo : Genuine(e, mode)
  BY ChosenGenuine
<1> HIDE DEF todo
<1>3. CommandSound(c) /\ Absent(c)
  BY <1>2 DEF CommandSound, Absent, Pruning, Removing
<1> HIDE DEF c
<1> QED BY <1>1, <1>3, BookkeepingPrune

\* Captured entries stay genuine.
LEMMA CapturePrune ==
  ASSUME TypeOK, TypeOK', PruneInv, NEW d \in Admins, CaptureEntry(d)
  PROVE  PruneInv'
<1>1. PICK e \in First(op[d].todo) :
         Becomes(d, [op[d] EXCEPT !.todo = op[d].todo \ {e}, !.done = op[d].done \cup {e},
                                  !.stage = IF op[d].todo = {e} THEN "link" ELSE "capture"])
  BY DEF CaptureEntry
<1> DEFINE c == [op[d] EXCEPT !.todo = op[d].todo \ {e}, !.done = op[d].done \cup {e},
                              !.stage = IF op[d].todo = {e} THEN "link" ELSE "capture"]
<1>2. op[d] \in Command /\ CommandSound(op[d]) /\ e \in op[d].todo /\ op[d].stage = "capture"
  BY FirstIn DEF TypeOK, PruneInv, CommandsSound, CaptureEntry
<1>3. /\ c.stage \in {"link", "capture"} /\ c.path = op[d].path /\ c.mode = op[d].mode
      /\ c.todo \cup c.done \subseteq op[d].todo \cup op[d].done
  BY <1>2 DEF Command
<1>4. Bookkeeping /\ Becomes(d, c)
  BY <1>1 DEF CaptureEntry, Bookkeeping
<1> HIDE DEF c
<1>5. CommandSound(c) /\ Absent(c)
  BY <1>2, <1>3 DEF CommandSound, Absent, Pruning, Removing
<1> QED BY <1>4, <1>5, BookkeepingPrune

\* A prune begins with everything ahead of it.
LEMMA PrunePrune ==
  ASSUME TypeOK, TypeOK', PruneInv, NEW d \in Admins, NEW z \in Paths, Prune(d, z)
  PROVE  PruneInv'
<1> DEFINE c == [stage |-> "check", path |-> z, mode |-> mode, todo |-> archive[z].entries,
                 done |-> {}]
<1>1. Bookkeeping /\ Becomes(d, c) /\ Exists(z) /\ archive[z].mode = mode
  BY DEF Prune, Bookkeeping, Verified, ManifestConsistent
<1>2. CommandSound(c) /\ Absent(c)
  BY <1>1 DEF CommandSound, Absent, Ahead, Pruning, Removing
<1> HIDE DEF c
<1> QED BY <1>1, <1>2, BookkeepingPrune

\* The first pass leaves an entry behind only if its file is absent.
LEMMA CheckPrune ==
  ASSUME TypeOK, TypeOK', PruneInv, NEW d \in Admins, CheckEntry(d)
  PROVE  PruneInv'
<1> DEFINE Found(e) == IF e.name \in Spool(op[d].mode) THEN op[d].done \cup {e} ELSE op[d].done
           Next1(e) == IF op[d].todo \ {e} # {}
                       THEN [op[d] EXCEPT !.todo = op[d].todo \ {e}, !.done = Found(e)]
                       ELSE [op[d] EXCEPT !.todo = Found(e), !.done = {},
                                          !.stage = IF Found(e) = {} THEN "nothing_to_prune" ELSE "recheck"]
<1>1. PICK e \in First(op[d].todo) : Becomes(d, Next1(e))
  BY DEF CheckEntry
<1>2. PICK c : c = Next1(e)
  OBVIOUS
<1>3. /\ op[d] \in Command /\ CommandSound(op[d]) /\ Absent(op[d]) /\ e \in op[d].todo
      /\ op[d].stage = "check"
  BY FirstIn DEF TypeOK, PruneInv, CommandsSound, BehindAbsent, CheckEntry
<1>4. PICK f : f = Found(e)
  OBVIOUS
<1>5. /\ c.path = op[d].path /\ c.mode = op[d].mode
      /\ \/ c.stage = "check" /\ c.todo = op[d].todo \ {e} /\ c.done = f
         \/ /\ op[d].todo \ {e} = {} /\ c.stage \in {"nothing_to_prune", "recheck"}
            /\ c.todo = f /\ c.done = {} /\ (c.stage = "nothing_to_prune" => f = {})
  <2> HIDE DEF Found
  <2> QED BY <1>2, <1>3, <1>4 DEF Command
<1>6. f = IF e.name \in Spool(op[d].mode) THEN op[d].done \cup {e} ELSE op[d].done
  BY <1>4
<1>7. Bookkeeping /\ Becomes(d, c)
  BY <1>1, <1>2 DEF CheckEntry, Bookkeeping
<1> HIDE DEF Next1, Found
<1>8. /\ op[d].path \in Paths /\ Exists(op[d].path) /\ archive[op[d].path].mode = op[d].mode
      /\ op[d].todo \cup op[d].done \subseteq archive[op[d].path].entries
  BY <1>3 DEF CommandSound, Pruning, Removing
<1>9. CommandSound(c)
  BY <1>3, <1>5, <1>6, <1>8 DEF CommandSound, Pruning, Removing
<1>10. Absent(c)
  <2> SUFFICES ASSUME NEW x \in archive[c.path].entries \ Ahead(c), file[x.name].version = x.version
               PROVE  x.name \notin present
    BY <1>5 DEF Absent
  <2>1. x = e => e.name \notin Spool(op[d].mode)
    BY <1>5, <1>6 DEF Ahead
  <2>2. CASE x = e
    <3>1. file[e.name].mode = op[d].mode
      BY <1>3, <1>8 DEF PruneInv, ArchivesGenuine, Genuine
    <3> QED BY <2>1, <2>2, <3>1 DEF Spool
  <2>3. CASE x # e
    <3>1. x \notin op[d].todo \cup op[d].done
      BY <1>5, <1>6, <2>3 DEF Ahead
    <3> QED BY <1>3, <1>5, <3>1 DEF Absent, Ahead, Pruning, Removing
  <2> QED BY <2>2, <2>3
<1> QED BY <1>7, <1>9, <1>10, BookkeepingPrune

\* The second pass finds the archived version again.
LEMMA RecheckPrune ==
  ASSUME TypeOK, TypeOK', PruneInv, NEW d \in Admins, RecheckEntry(d)
  PROVE  PruneInv'
<1>1. PICK e \in First(op[d].todo) :
        /\ Matches(e, op[d].mode)
        /\ Becomes(d, [op[d] EXCEPT !.stage = "unlink", !.done = {e}])
  BY DEF RecheckEntry
<1> DEFINE c == [op[d] EXCEPT !.stage = "unlink", !.done = {e}]
<1>2. /\ op[d] \in Command /\ CommandSound(op[d]) /\ Absent(op[d]) /\ e \in op[d].todo
      /\ op[d].stage = "recheck"
  BY FirstIn DEF TypeOK, PruneInv, CommandsSound, BehindAbsent, RecheckEntry
<1>3. /\ c.stage = "unlink" /\ c.done = {e} /\ c.todo = op[d].todo
      /\ c.path = op[d].path /\ c.mode = op[d].mode
  BY <1>2 DEF Command
<1>4. Bookkeeping /\ Becomes(d, c)
  BY <1>1 DEF RecheckEntry, Bookkeeping
<1> HIDE DEF c
<1>5. file[e.name].version = e.version
  BY <1>1 DEF Matches
<1>6. CommandSound(c)
  BY <1>2, <1>3, <1>5 DEF CommandSound, Pruning, Removing
<1>7. Absent(c)
  BY <1>2, <1>3 DEF Absent, Ahead, Pruning, Removing
<1> QED BY <1>4, <1>6, <1>7, BookkeepingPrune

\* The removed file is outranked and now absent.
LEMMA UnlinkPrune ==
  ASSUME TypeOK, TypeOK', PruneInv, NEW d \in Admins, UnlinkEntry(d)
  PROVE  PruneInv'
<1>1. PICK e \in op[d].done : /\ e.name \in Spool(op[d].mode)
                              /\ present' = present \ {e.name}
                              /\ unsynced' = unsynced \cup {e.name}
                              /\ Removed(d, e)
  BY DEF UnlinkEntry
<1>2. PICK c : c = [op[d] EXCEPT !.todo = op[d].todo \ {e}, !.done = {},
                                  !.stage = IF op[d].todo \ {e} = {} THEN "sync" ELSE "recheck"]
  OBVIOUS
<1>3. Becomes(d, c) /\ UNCHANGED <<clock, mode, broker, file, taken, archive, durable>>
  BY <1>1, <1>2 DEF Removed, UnlinkEntry, Keep
<1>4. /\ op[d] \in Command /\ CommandSound(op[d]) /\ Absent(op[d]) /\ op[d].stage = "unlink"
  BY DEF TypeOK, PruneInv, CommandsSound, BehindAbsent, UnlinkEntry
<1>5. /\ c.done = {} /\ c.todo = op[d].todo \ {e} /\ c.path = op[d].path /\ c.mode = op[d].mode
      /\ c.stage \in {"sync", "recheck"} /\ (c.stage = "sync" => op[d].todo \ {e} = {})
  BY <1>4, <1>2 DEF Command
<1>6. /\ op[d].path \in Paths /\ Exists(op[d].path) /\ archive[op[d].path].mode = op[d].mode
      /\ op[d].todo \cup op[d].done \subseteq archive[op[d].path].entries
      /\ file[e.name].version = e.version
  BY <1>4 DEF CommandSound, Pruning, Removing
<1>7. Outranked(e.name)
  BY <1>6 DEF PruneInv, ArchivesGenuine, Genuine
<1>8. FilesSound' /\ Evolves /\ IsFiniteSet(Published')
  BY <1>1, <1>3, <1>7, FilesKept DEF PruneInv, TypeOK
<1>9. ArchivesGenuine'
  BY <1>3, <1>8, ArchivesStay DEF PruneInv
<1>10. CommandSound(c)
  BY <1>5, <1>6 DEF CommandSound, Pruning, Removing
<1>11. Absent(c)'
  <2> SUFFICES ASSUME NEW x \in archive[c.path].entries \ Ahead(c), file[x.name].version = x.version
               PROVE  x.name \notin present'
    BY <1>3, <1>5 DEF Absent, Ahead
  <2>1. CASE x = e
    BY <1>1, <2>1
  <2>2. CASE x # e
    <3>1. x \notin op[d].todo
      BY <1>5, <2>2 DEF Ahead
    <3> QED BY <1>1, <1>4, <1>5, <3>1 DEF Absent, Ahead, Pruning, Removing
  <2> QED BY <2>1, <2>2
<1>12. ArchivesKept /\ unsynced' \subseteq unsynced \cup present
  BY <1>1, <1>3 DEF ArchivesKept, Spool
<1>13. CommandsSound' /\ BehindAbsent'
  BY <1>1, <1>3, <1>8, <1>10, <1>11, <1>12, CommandMoves DEF PruneInv
<1> QED BY <1>8, <1>9, <1>13 DEF PruneInv

\* A synced prune has nothing ahead of it.
LEMMA SyncPrune ==
  ASSUME TypeOK, TypeOK', PruneInv, NEW d \in Admins, SyncSpool(d)
  PROVE  PruneInv'
<1>1. PICK c : c = [op[d] EXCEPT !.stage = "pruned"]
  OBVIOUS
<1>2. /\ Becomes(d, c) /\ unsynced' = {}
      /\ UNCHANGED <<clock, mode, broker, file, taken, present, archive, durable>>
  BY <1>1 DEF SyncSpool, Keep
<1>3. /\ op[d] \in Command /\ CommandSound(op[d]) /\ Absent(op[d]) /\ op[d].stage = "sync"
  BY DEF TypeOK, PruneInv, CommandsSound, BehindAbsent, SyncSpool
<1>4. /\ c.stage = "pruned" /\ c.todo = op[d].todo /\ c.done = op[d].done
      /\ c.path = op[d].path /\ c.mode = op[d].mode
  BY <1>1, <1>3 DEF Command
<1>5. CommandSound(c)
  BY <1>3, <1>4 DEF CommandSound, Pruning, Removing
<1>6. Absent(c)'
  BY <1>2, <1>3, <1>4 DEF Absent, Ahead, Pruning, Removing
<1>7. FilesSound' /\ Evolves /\ IsFiniteSet(Published') /\ ArchivesKept
  BY <1>2, FilesKept DEF PruneInv, TypeOK, ArchivesKept
<1>8. ArchivesGenuine'
  BY <1>2, <1>7, ArchivesStay DEF PruneInv
<1>9. CommandsSound' /\ BehindAbsent'
  BY <1>2, <1>5, <1>6, <1>7, CommandMoves DEF PruneInv
<1> QED BY <1>7, <1>8, <1>9 DEF PruneInv

\* A published archive is genuine, and no other is touched.
LEMMA LinkPrune ==
  ASSUME TypeOK, TypeOK', PruneInv, NEW d \in Admins, LinkArchive(d)
  PROVE  PruneInv'
<1>1. /\ Becomes(d, Idle) /\ UNCHANGED <<clock, mode, broker, file, taken, present, unsynced>>
      /\ ~Exists(op[d].path)
      /\ archive' = [archive EXCEPT ![op[d].path] = [entries |-> op[d].done, mode |-> op[d].mode]]
  BY DEF LinkArchive, Keep, Leaves, OutputFree
<1>2. op[d].path \in Paths /\ \A e \in op[d].done : Genuine(e, op[d].mode)
  BY DEF PruneInv, CommandsSound, CommandSound, LinkArchive
<1>3. FilesSound' /\ Evolves /\ IsFiniteSet(Published') /\ ArchivesKept
  BY <1>1, FilesKept DEF PruneInv, TypeOK, ArchivesKept
<1>4. ArchivesGenuine'
  BY <1>1, <1>2, <1>3, ArchivesStay DEF PruneInv, TypeOK
<1>5. Absent(Idle)'
  BY DEF Absent, Idle, Pruning, Removing
<1>6. CommandsSound' /\ BehindAbsent'
  BY <1>1, <1>3, <1>5, IdleSound, CommandMoves DEF PruneInv
<1> QED BY <1>3, <1>4, <1>6 DEF PruneInv

\* A file is published or put back: entries about it become entries about an
\* earlier version, and no prune is removing files meanwhile.
LEMMA FilePrune ==
  ASSUME TypeOK, TypeOK', PruneInv, NEW a \in Names, NEW r \in FileRecord,
         file' = [file EXCEPT ![a] = r], r.version = file[a].version + 1, r.day = clock,
         file[a].version # 0 => r.mode = file[a].mode,
         UNCHANGED <<clock, archive, op>>, present' = present \cup {a},
         unsynced' \subseteq unsynced,
         file[a].version = 0 \/ \A d \in Admins : op[d].stage \notin Removing
  PROVE  PruneInv'
<1>1. FilesSound' /\ Evolves /\ IsFiniteSet(Published')
  BY FilesNew DEF PruneInv
<1>2. ArchivesGenuine'
  BY <1>1, ArchivesStay DEF PruneInv
<1>3. /\ file'[a] = r /\ \A b \in Names \ {a} : file'[b] = file[b]
      /\ file[a].version \in Nat
  BY DEF TypeOK, FileRecord
<1>4. ASSUME NEW e \in Entry, NEW m, Genuine(e, m), file'[e.name].version = e.version
      PROVE  e.name # a /\ file'[e.name] = file[e.name]
  <2>1. e.version \in Nat /\ e.name \in Names
    BY DEF Entry
  <2> QED BY <1>3, <1>4, <2>1 DEF Genuine
<1>5. ASSUME NEW d \in Admins PROVE CommandSound(op[d])' /\ Absent(op[d])'
  <2>1. PICK c \in Command : c = op[d] /\ c = op'[d]
    BY DEF TypeOK
  <2>2. CommandSound(c) /\ Absent(c)
    BY <2>1 DEF PruneInv, CommandsSound, BehindAbsent
  <2>3. c.todo \subseteq Entry /\ c.done \subseteq Entry
          /\ \A z \in Paths : archive[z].entries \subseteq Entry
    BY DEF Command, TypeOK, Manifest
  <2>4. c.stage \in {"capture", "link"} => \A e \in c.todo \cup c.done : Genuine(e, c.mode)'
    BY <1>1, <2>2, <2>3, GenuineStays DEF CommandSound
  <2>5. c.stage = "unlink" => \A e \in c.done : file'[e.name].version = e.version
    <3> SUFFICES ASSUME c.stage = "unlink", NEW e \in c.done
                 PROVE  file'[e.name].version = e.version
      OBVIOUS
    <3>1. file[e.name].version = e.version /\ c.path \in Paths /\ e \in archive[c.path].entries
      BY <2>2 DEF CommandSound, Pruning, Removing
    <3>2. e.version >= 1 /\ e.name \in Names
      BY <2>3, <3>1 DEF PruneInv, ArchivesGenuine, Genuine, Entry
    <3>3. file[a].version = 0
      BY <2>1 DEF Removing
    <3>4. e.name # a
      BY <3>1, <3>2, <3>3
    <3> QED BY <1>3, <3>1, <3>2, <3>4
  <2>6. CommandSound(c)'
    BY <2>2, <2>4, <2>5 DEF CommandSound, Exists
  <2>7. Absent(c)'
    <3> SUFFICES ASSUME c.stage \in Pruning, NEW e \in archive[c.path].entries \ Ahead(c),
                        file'[e.name].version = e.version
                 PROVE  /\ e.name \notin present'
                        /\ c.stage = "pruned" => e.name \notin unsynced'
      BY DEF Absent, Ahead
    <3>1. c.path \in Paths /\ e \in Entry /\ Genuine(e, archive[c.path].mode)
      BY <2>2, <2>3 DEF CommandSound, PruneInv, ArchivesGenuine
    <3>2. e.name # a /\ file'[e.name] = file[e.name]
      BY <1>4, <3>1
    <3> QED BY <2>2, <3>2 DEF Absent
  <2> QED BY <2>1, <2>6, <2>7 DEF CommandSound, Absent, Ahead
<1> QED BY <1>1, <1>2, <1>5 DEF PruneInv, CommandsSound, BehindAbsent

\* The broker publishes, or a human restores.
LEMMA PublishPrune ==
  ASSUME TypeOK, TypeOK', PruneInv, NEW a \in Names, Publish(a) \/ Restore(a)
  PROVE  PruneInv'
<1>1. CASE Publish(a)
  <2> DEFINE r == [version |-> 1, day |-> clock, mode |-> mode]
  <2>1. r \in FileRecord /\ r.version = file[a].version + 1
    BY <1>1 DEF FileRecord, TypeOK, Publish
  <2>2. /\ file' = [file EXCEPT ![a] = r] /\ file[a].version = 0 /\ present' = present \cup {a}
        /\ UNCHANGED <<clock, archive, op, unsynced>>
    BY <1>1 DEF Publish
  <2> QED BY <2>1, <2>2, FilePrune
<1>2. CASE Restore(a)
  <2> DEFINE r == [version |-> file[a].version + 1, day |-> clock, mode |-> file[a].mode]
  <2>1. r \in FileRecord
    BY DEF FileRecord, TypeOK
  <2>2. /\ file' = [file EXCEPT ![a] = r] /\ present' = present \cup {a}
        /\ UNCHANGED <<clock, archive, op>> /\ unsynced' = {}
        /\ \A d \in Admins : op[d].stage \notin Removing
    BY <1>2 DEF Restore
  <2> QED BY <2>1, <2>2, FilePrune
<1> QED BY <1>1, <1>2

\* A power loss ends every command.
LEMMA PowerLossPrune ==
  ASSUME TypeOK, TypeOK', PruneInv, PowerLoss
  PROVE  PruneInv'
<1>1. PICK lost : archive' = [z \in Paths |-> IF z \in lost THEN NoArchive ELSE archive[z]]
  BY DEF PowerLoss
<1>2. UNCHANGED <<clock, file>> /\ present \subseteq present' /\ op' = [d \in Admins |-> Idle]
  BY DEF PowerLoss
<1>3. FilesSound' /\ Evolves /\ IsFiniteSet(Published')
  BY <1>2, FilesKept DEF PruneInv, TypeOK
<1>4. ArchivesGenuine'
  BY <1>1, <1>3, ArchivesStay DEF PruneInv, NoArchive
<1>5. CommandsSound' /\ BehindAbsent'
  BY <1>2 DEF CommandsSound, BehindAbsent, CommandSound, Absent, Idle, Pruning, Removing
<1> QED BY <1>3, <1>4, <1>5 DEF PruneInv

\* Nothing else touches files, archives or commands.
LEMMA SurroundingsPrune ==
  ASSUME TypeOK, TypeOK', PruneInv,
         \/ NextDay \/ BeginCollection \/ EndCollection \/ Writeback
         \/ \E m \in Modes : SwitchMode(m)
         \/ UNCHANGED vars
  PROVE  PruneInv'
<1>1. UNCHANGED <<file, present, unsynced, archive, op>> /\ clock <= clock'
  BY DEF NextDay, BeginCollection, EndCollection, Writeback, SwitchMode, disk, vars, TypeOK
<1>2. FilesSound' /\ Evolves /\ IsFiniteSet(Published')
  BY <1>1, FilesKept DEF PruneInv
<1>3. ArchivesGenuine'
  BY <1>1, <1>2, ArchivesStay DEF PruneInv
<1>4. ASSUME NEW d \in Admins PROVE CommandSound(op[d])' /\ Absent(op[d])'
  <2>1. PICK c \in Command : c = op[d] /\ c = op'[d]
    BY <1>1 DEF TypeOK
  <2>2. CommandSound(c) /\ Absent(c)
    BY <2>1 DEF PruneInv, CommandsSound, BehindAbsent
  <2>3. CommandSound(c)' /\ Absent(c)'
    BY <1>1, <1>2, <2>2, SoundStays, AbsentStays DEF ArchivesKept
  <2> QED BY <2>1, <2>3 DEF CommandSound, Absent, Ahead
<1> QED BY <1>2, <1>3, <1>4 DEF PruneInv, CommandsSound, BehindAbsent

\* The invariant holds at the start.
LEMMA InitPrune == Init => PruneInv
<1> SUFFICES ASSUME Init PROVE PruneInv
  OBVIOUS
<1>1. Published = {}
  BY DEF Init, Published
<1>2. FilesSound
  BY <1>1, FS_EmptySet DEF Init, FilesSound
<1>3. ArchivesGenuine
  BY DEF Init, ArchivesGenuine, NoArchive
<1>4. CommandsSound /\ BehindAbsent
  BY IdleSound DEF Init, CommandsSound, BehindAbsent
<1> QED BY <1>2, <1>3, <1>4 DEF PruneInv

\* Every step preserves it.
LEMMA NextPrune == TypeOK /\ TypeOK' /\ PruneInv /\ [Next]_vars => PruneInv'
<1> SUFFICES ASSUME TypeOK, TypeOK', PruneInv, [Next]_vars PROVE PruneInv'
  OBVIOUS
<1>1. CASE \/ NextDay \/ BeginCollection \/ EndCollection \/ Writeback
           \/ \E m \in Modes : SwitchMode(m)
           \/ UNCHANGED vars
  BY <1>1, SurroundingsPrune
<1>2. CASE PowerLoss
  BY <1>2, PowerLossPrune
<1>3. ASSUME NEW a \in Names, Publish(a) \/ Restore(a) PROVE PruneInv'
  BY <1>3, PublishPrune
<1>4. ASSUME NEW d \in Admins, NEW z \in Paths, NEW age \in Ages, NEW keep \in Keeps,
             Archive(d, z, age, keep)
      PROVE  PruneInv'
  BY <1>4, ArchivePrune
<1>5. ASSUME NEW d \in Admins, NEW z \in Paths, Prune(d, z) PROVE PruneInv'
  BY <1>5, PrunePrune
<1>6. ASSUME NEW d \in Admins,
             \/ CaptureEntry(d) \/ LinkArchive(d) \/ CheckEntry(d) \/ RecheckEntry(d)
             \/ UnlinkEntry(d) \/ SyncSpool(d)
      PROVE  PruneInv'
  BY <1>6, CapturePrune, LinkPrune, CheckPrune, RecheckPrune, UnlinkPrune, SyncPrune
<1>7. ASSUME NEW d \in Admins, Abort(d) PROVE PruneInv'
  BY <1>7, IdleSound, BookkeepingPrune DEF Abort, Leaves, Bookkeeping
<1> QED BY <1>1, <1>2, <1>3, <1>4, <1>5, <1>6, <1>7 DEF Next

\* A prune that reports "pruned" or "nothing_to_prune" has left no archived source
\* behind, durably, and the newest keep_latest artifacts of a spool are never
\* given up, whatever commands run side by side, fail, or are cut off by a power
\* loss, and whatever is restored in between.
THEOREM PruneTruthfulHolds == Spec => []PruneTruthful
<1>1. TypeOK /\ PruneInv => ReportTruthful
  BY DEF PruneInv, CommandsSound, CommandSound, BehindAbsent, Absent, Ahead, ReportTruthful,
     Pruning, Removing
<1>2. TypeOK /\ PruneInv => NewestKept
  <2> SUFFICES ASSUME TypeOK, PruneInv, NEW m \in Modes, NEW a \in Ever(m),
                      Cardinality({b \in Ever(m) : Newer(b, a)}) < Min(Keeps)
               PROVE  a \in present
    BY DEF NewestKept, Ever
  <2>1. {b \in Ever(m) : Newer(b, a)} = NewerThan(a)
    BY DEF NewerThan, Ever
  <2>2. IsFiniteSet(NewerThan(a))
    BY FS_Subset DEF NewerThan, Ever, PruneInv, FilesSound
  <2>3. Cardinality(NewerThan(a)) \in Nat /\ Cardinality(NewerThan(a)) < Min(Keeps)
    BY <2>1, <2>2, FS_CardinalityType
  <2>4. ~Outranked(a)
    BY <2>3, MinKeeps DEF Outranked
  <2> QED BY <2>4 DEF PruneInv, FilesSound, Ever
<1>3. TypeOK /\ PruneInv => PruneTruthful
  BY <1>1, <1>2 DEF PruneTruthful
<1> QED BY <1>3, InitPrune, NextPrune, TypeCorrect, PTL DEF Spec

----------------------------------------------------------------------------
(* CollectorDeployment.                                                    *)

\* Steps of a program come in stages: stop services, change files, reload, start
\* services, and ask for their health.
Writes(s) == s.do \in {"write", "install", "remove"}
Stage(s) ==
    IF s.do \in {"disable", "stop"} THEN 1
    ELSE IF s.do \in {"write", "install", "remove", "tool"} THEN 2
    ELSE IF s.do = "reload" THEN 3
    ELSE IF s.do \in {"enable", "restart"} THEN 4 ELSE 5
StepsOf(p) == {p[i] : i \in 1 .. Len(p)}
Ordered(p) == \A i, j \in 1 .. Len(p) : i < j => Stage(p[i]) <= Stage(p[j])
Rest == {d_op.program[i] : i \in (d_op.n + 1) .. Len(d_op.program)}

Acts(s, do, u) == s.do = do /\ s.on = u
Stops(s, u) == s.do \in {"disable", "stop"} /\ (s.on = u \/ u = "collector")
Right(T, u) ==
    [unit |-> T[u], config |-> IF u = "collector" THEN T["config"] ELSE D!Missing]

\* A step that leads to the files T.
StepFits(s, T) ==
    /\ s.do = "remove" => s.to = D!Missing
    /\ s.unless = {} /\ (s.errors = "raise" \/ (s.errors = "ignore" /\ Stage(s) = 1))
    /\ \/ s.do \in {"disable", "stop"} /\ s.on \in D!Units
       \/ Writes(s) /\ s.on \in D!Files /\ s.to = T[s.on]
       \/ s.do \in {"tool", "reload"}
       \/ s.do \in {"enable", "restart"} /\ s.on \in D!Units /\ T[s.on] # D!Missing
       \/ s.do = "wait" /\ s.on \in {"any", D!ProfileOf(T)}

FilesLead(rest, T) ==
    \A f \in D!Files : d_disk[f] = T[f] \/ \E s \in rest : Writes(s) /\ s.on = f
LoadedLead(rest, T) ==
    /\ (\A s \in rest : s.do # "reload") => d_loaded = [u \in D!Units |-> T[u]]
    /\ (\E s \in rest : s.do = "disable") => \E s \in rest : s.do = "reload"
StopsPossible(rest) ==
    \A s \in rest : s.do = "disable" => d_disk[s.on] # D!Missing \/ s.errors = "ignore"
InstallsPossible(rest) ==
    \A s \in rest : s.do = "install" => d_disk[s.on] \in {D!Missing, s.to}
WillStop(rest, u) == d_disk[u] # D!Missing /\ \E s \in rest : Acts(s, "disable", u)
ServiceLeads(rest, T, u) ==
    \/ d_running[u] = Right(T, u) /\ \A s \in rest : ~Stops(s, u)
    \/ \E s \in rest : Acts(s, "restart", u)
    \/ /\ \E s \in rest : Acts(s, "enable", u)
       /\ \/ d_running[u] \in {D!NoProcess, Right(T, u)}
          \/ \E s \in rest : Acts(s, "stop", u)
          \/ WillStop(rest, u)
NoServiceLeads(rest, u) == d_running[u] = D!NoProcess \/ WillStop(rest, u)
EnabledLeads(rest, u) ==
    \/ u \in d_enabled /\ \A s \in rest : ~Acts(s, "disable", u)
    \/ \E s \in rest : Acts(s, "enable", u)
NotEnabledLeads(rest, u) == u \notin d_enabled \/ WillStop(rest, u)

\* The rest of a program leads to a host that serves from the files T.
Leads(rest, T) ==
    /\ \A s \in rest : StepFits(s, T)
    /\ FilesLead(rest, T) /\ LoadedLead(rest, T)
    /\ StopsPossible(rest) /\ InstallsPossible(rest)
    /\ \A u \in D!Units :
          IF T[u] # D!Missing THEN ServiceLeads(rest, T, u) /\ EnabledLeads(rest, u)
          ELSE NoServiceLeads(rest, u) /\ NotEnabledLeads(rest, u)

----------------------------------------------------------------------------
(* Programs as sequences.                                                  *)

IsProgram(p) == \E S : p \in Seq(S)

\* An ordered program whose steps are of the stages lo to hi.
Segment(p, lo, hi) ==
    /\ IsProgram(p) /\ Ordered(p)
    /\ \A s \in StepsOf(p) : lo <= Stage(s) /\ Stage(s) <= hi

LEMMA StageType == \A s : Stage(s) \in 1 .. 5
BY DEF Stage

LEMMA ProgramLength ==
    ASSUME NEW p, IsProgram(p)
    PROVE  Len(p) \in Nat /\ p = [i \in 1 .. Len(p) |-> p[i]]
<1>1. PICK S : p \in Seq(S)
  BY DEF IsProgram
<1> QED BY <1>1, LenProperties

LEMMA Concatenated ==
    ASSUME NEW p, NEW q, IsProgram(p), IsProgram(q)
    PROVE  /\ IsProgram(p \o q)
           /\ Len(p \o q) = Len(p) + Len(q)
           /\ \A i \in 1 .. Len(p) + Len(q) :
                 (p \o q)[i] = IF i <= Len(p) THEN p[i] ELSE q[i - Len(p)]
           /\ StepsOf(p \o q) = StepsOf(p) \cup StepsOf(q)
<1>1. PICK S : p \in Seq(S)
  BY DEF IsProgram
<1>2. PICK R : q \in Seq(R)
  BY DEF IsProgram
<1> DEFINE U == S \cup R
<1>3. p \in Seq(U) /\ q \in Seq(U)
  <2>1. S \subseteq U /\ R \subseteq U
    OBVIOUS
  <2> HIDE DEF U
  <2> QED BY <2>1, <1>1, <1>2, SeqMonotonic
<1> HIDE DEF U
<1>4. /\ p \o q \in Seq(U)
      /\ Len(p \o q) = Len(p) + Len(q)
      /\ \A i \in 1 .. Len(p) + Len(q) :
            (p \o q)[i] = IF i <= Len(p) THEN p[i] ELSE q[i - Len(p)]
  BY <1>3, ConcatProperties
<1>5. Len(p) \in Nat /\ Len(q) \in Nat
  BY ProgramLength
<1>6. IsProgram(p \o q)
  BY <1>4 DEF IsProgram
<1>7. ASSUME NEW s \in StepsOf(p \o q) PROVE s \in StepsOf(p) \cup StepsOf(q)
  <2>1. PICK i \in 1 .. Len(p) + Len(q) : s = (p \o q)[i]
    BY <1>4, <1>7 DEF StepsOf
  <2>2. CASE i <= Len(p)
    BY <2>1, <2>2, <1>4, <1>5 DEF StepsOf
  <2>3. CASE i > Len(p)
    <3>1. i - Len(p) \in 1 .. Len(q) /\ s = q[i - Len(p)]
      BY <2>1, <2>3, <1>4, <1>5
    <3> QED BY <3>1 DEF StepsOf
  <2> QED BY <2>2, <2>3, <1>5
<1>8. ASSUME NEW s \in StepsOf(p) PROVE s \in StepsOf(p \o q)
  <2>1. PICK i \in 1 .. Len(p) : s = p[i]
    BY <1>8 DEF StepsOf
  <2>2. i \in 1 .. Len(p \o q) /\ (p \o q)[i] = s
    BY <2>1, <1>4, <1>5
  <2> QED BY <2>2 DEF StepsOf
<1>9. ASSUME NEW s \in StepsOf(q) PROVE s \in StepsOf(p \o q)
  <2>1. PICK i \in 1 .. Len(q) : s = q[i]
    BY <1>9 DEF StepsOf
  <2>2. Len(p) + i \in 1 .. Len(p \o q) /\ (p \o q)[Len(p) + i] = s
    BY <2>1, <1>4, <1>5
  <2> QED BY <2>2 DEF StepsOf
<1> QED BY <1>4, <1>6, <1>7, <1>8, <1>9

LEMMA SegmentConcat ==
    ASSUME NEW p, NEW q, NEW a \in Int, NEW b \in Int, NEW d \in Int,
           Segment(p, a, b), Segment(q, b, d), a <= b, b <= d
    PROVE  Segment(p \o q, a, d) /\ StepsOf(p \o q) = StepsOf(p) \cup StepsOf(q)
<1>1. /\ IsProgram(p \o q)
      /\ Len(p \o q) = Len(p) + Len(q)
      /\ \A i \in 1 .. Len(p) + Len(q) :
            (p \o q)[i] = IF i <= Len(p) THEN p[i] ELSE q[i - Len(p)]
      /\ StepsOf(p \o q) = StepsOf(p) \cup StepsOf(q)
  BY Concatenated DEF Segment
<1>2. Len(p) \in Nat /\ Len(q) \in Nat
  BY ProgramLength DEF Segment
<1>3. \A s : Stage(s) \in Int
  BY StageType
<1>4. \A s \in StepsOf(p \o q) : a <= Stage(s) /\ Stage(s) <= d
  BY <1>1, <1>3 DEF Segment
<1>5. ASSUME NEW i \in 1 .. Len(p \o q), NEW j \in 1 .. Len(p \o q), i < j
      PROVE  Stage((p \o q)[i]) <= Stage((p \o q)[j])
  <2>1. CASE j <= Len(p)
    <3>1. i \in 1 .. Len(p) /\ j \in 1 .. Len(p) /\ (p \o q)[i] = p[i] /\ (p \o q)[j] = p[j]
      BY <1>1, <1>2, <1>5, <2>1
    <3> QED BY <3>1, <1>5 DEF Segment, Ordered
  <2>2. CASE i > Len(p)
    <3>1. /\ i - Len(p) \in 1 .. Len(q) /\ j - Len(p) \in 1 .. Len(q)
          /\ i - Len(p) < j - Len(p)
          /\ (p \o q)[i] = q[i - Len(p)] /\ (p \o q)[j] = q[j - Len(p)]
      BY <1>1, <1>2, <1>5, <2>2
    <3> QED BY <3>1 DEF Segment, Ordered
  <2>3. CASE i <= Len(p) /\ j > Len(p)
    <3>1. /\ i \in 1 .. Len(p) /\ j - Len(p) \in 1 .. Len(q)
          /\ (p \o q)[i] = p[i] /\ (p \o q)[j] = q[j - Len(p)]
      BY <1>1, <1>2, <1>5, <2>3
    <3>2. (p \o q)[i] \in StepsOf(p) /\ (p \o q)[j] \in StepsOf(q)
      BY <3>1 DEF StepsOf
    <3>3. Stage((p \o q)[i]) <= b /\ b <= Stage((p \o q)[j])
      BY <3>2 DEF Segment
    <3> QED BY <3>3, <1>3
  <2> QED BY <2>1, <2>2, <2>3, <1>1, <1>2
<1> QED BY <1>1, <1>4, <1>5 DEF Segment, Ordered

LEMMA EmptySegment ==
    ASSUME NEW a, NEW b
    PROVE  Segment(<<>>, a, b) /\ StepsOf(<<>>) = {}
<1>1. <<>> \in Seq({}) /\ Len(<<>>) = 0
  OBVIOUS
<1> QED BY <1>1 DEF Segment, IsProgram, Ordered, StepsOf

LEMMA SingleSegment ==
    ASSUME NEW s
    PROVE  Segment(<<s>>, Stage(s), Stage(s)) /\ StepsOf(<<s>>) = {s}
<1>1. <<s>> \in Seq({s}) /\ Len(<<s>>) = 1 /\ <<s>>[1] = s
  OBVIOUS
<1>2. StepsOf(<<s>>) = {s}
  BY <1>1 DEF StepsOf
<1> QED BY <1>1, <1>2, StageType DEF Segment, IsProgram, Ordered

LEMMA PairSegment ==
    ASSUME NEW s, NEW t, Stage(s) <= Stage(t)
    PROVE  Segment(<<s, t>>, Stage(s), Stage(t)) /\ StepsOf(<<s, t>>) = {s, t}
<1> DEFINE p == <<s, t>>
<1>1. p \in Seq({s, t}) /\ Len(p) = 2 /\ p[1] = s /\ p[2] = t
  OBVIOUS
<1> HIDE DEF p
<1>2. StepsOf(p) = {s, t}
  <2>1. 1 .. Len(p) = {1, 2}
    BY <1>1
  <2> QED BY <1>1, <2>1 DEF StepsOf
<1>3. \A x : Stage(x) \in Int
  BY StageType
<1>4. ASSUME NEW i \in 1 .. Len(p), NEW j \in 1 .. Len(p), i < j
      PROVE  Stage(p[i]) <= Stage(p[j])
  BY <1>1, <1>3, <1>4
<1>5. Segment(p, Stage(s), Stage(t))
  BY <1>1, <1>2, <1>3, <1>4 DEF Segment, IsProgram, Ordered
<1> QED BY <1>2, <1>5 DEF p

LEMMA TripleSegment ==
    ASSUME NEW s, NEW t, NEW r, Stage(s) <= Stage(t), Stage(t) <= Stage(r)
    PROVE  Segment(<<s, t, r>>, Stage(s), Stage(r)) /\ StepsOf(<<s, t, r>>) = {s, t, r}
<1> DEFINE p == <<s, t, r>>
<1>1. p \in Seq({s, t, r}) /\ Len(p) = 3 /\ p[1] = s /\ p[2] = t /\ p[3] = r
  OBVIOUS
<1> HIDE DEF p
<1>2. StepsOf(p) = {s, t, r}
  <2>1. 1 .. Len(p) = {1, 2, 3}
    BY <1>1
  <2> QED BY <1>1, <2>1 DEF StepsOf
<1>3. \A x : Stage(x) \in Int
  BY StageType
<1>4. ASSUME NEW i \in 1 .. Len(p), NEW j \in 1 .. Len(p), i < j
      PROVE  Stage(p[i]) <= Stage(p[j])
  BY <1>1, <1>3, <1>4
<1>5. Segment(p, Stage(s), Stage(r))
  BY <1>1, <1>2, <1>3, <1>4 DEF Segment, IsProgram, Ordered
<1> QED BY <1>2, <1>5 DEF p

LEMMA QuadSegment ==
    ASSUME NEW s, NEW t, NEW r, NEW q, Stage(s) <= Stage(t), Stage(t) <= Stage(r), Stage(r) <= Stage(q)
    PROVE  Segment(<<s, t, r, q>>, Stage(s), Stage(q)) /\ StepsOf(<<s, t, r, q>>) = {s, t, r, q}
<1> DEFINE p == <<s, t, r, q>>
<1>1. p \in Seq({s, t, r, q}) /\ Len(p) = 4 /\ p[1] = s /\ p[2] = t /\ p[3] = r /\ p[4] = q
  OBVIOUS
<1> HIDE DEF p
<1>2. StepsOf(p) = {s, t, r, q}
  <2>1. 1 .. Len(p) = {1, 2, 3, 4}
    BY <1>1
  <2> QED BY <1>1, <2>1 DEF StepsOf
<1>3. \A x : Stage(x) \in Int
  BY StageType
<1>4. ASSUME NEW i \in 1 .. Len(p), NEW j \in 1 .. Len(p), i < j
      PROVE  Stage(p[i]) <= Stage(p[j])
  BY <1>1, <1>3, <1>4
<1>5. Segment(p, Stage(s), Stage(q))
  BY <1>1, <1>2, <1>3, <1>4 DEF Segment, IsProgram, Ordered
<1> QED BY <1>2, <1>5 DEF p

----------------------------------------------------------------------------
(* What the steps are and do.                                              *)

LEMMA StepFields ==
    \A do, on : /\ D!Step(do, on).do = do /\ D!Step(do, on).on = on /\ D!Step(do, on).to = D!Missing
                /\ D!Step(do, on).errors = "raise" /\ D!Step(do, on).unless = {}
BY DEF D!Step

LEMMA WriteFields ==
    \A f, c : /\ D!Write(f, c).do = "write" /\ D!Write(f, c).on = f /\ D!Write(f, c).to = c
              /\ D!Write(f, c).errors = "raise" /\ D!Write(f, c).unless = {}
BY DEF D!Write, D!Step

LEMMA InstallFields ==
    \A f, c : /\ D!Install(f, c).do = "install" /\ D!Install(f, c).on = f /\ D!Install(f, c).to = c
              /\ D!Install(f, c).errors = "raise" /\ D!Install(f, c).unless = {}
BY DEF D!Install, D!Step

LEMMA RemoveFields ==
    \A f : /\ D!Remove(f).do = "remove" /\ D!Remove(f).on = f /\ D!Remove(f).to = D!Missing
           /\ D!Remove(f).errors = "raise" /\ D!Remove(f).unless = {}
BY DEF D!Remove, D!Step

LEMMA ReloadFields ==
    /\ D!Reload.do = "reload" /\ D!Reload.errors = "raise" /\ D!Reload.unless = {}
    /\ D!Tool.do = "tool" /\ D!Tool.errors = "raise" /\ D!Tool.unless = {}
BY DEF D!Reload, D!Tool, D!Step

LEMMA WaitFields ==
    \A f : D!Wait(f).do = "wait" /\ D!Wait(f).on = f /\ D!Wait(f).errors = "raise" /\ D!Wait(f).unless = {}
BY DEF D!Wait, D!Step

LEMMA ToleratedFields ==
    \A do, on : LET s == D!Tolerated(D!Step(do, on)) IN
        s.do = do /\ s.on = on /\ s.to = D!Missing /\ s.errors = "ignore" /\ s.unless = {}
BY DEF D!Tolerated, D!Step

LEMMA CollectedFields ==
    \A U : /\ \A u : /\ D!Collected(D!Step("disable", u), U).do = "disable"
                     /\ D!Collected(D!Step("disable", u), U).on = u
                     /\ D!Collected(D!Step("disable", u), U).errors = "collect"
                     /\ D!Collected(D!Step("disable", u), U).unless = U
           /\ \A f : /\ D!Collected(D!Remove(f), U).do = "remove" /\ D!Collected(D!Remove(f), U).on = f
                     /\ D!Collected(D!Remove(f), U).to = D!Missing
                     /\ D!Collected(D!Remove(f), U).errors = "collect"
                     /\ D!Collected(D!Remove(f), U).unless = U
           /\ D!Collected(D!Reload, U).do = "reload" /\ D!Collected(D!Reload, U).errors = "collect"
           /\ D!Collected(D!Reload, U).unless = U
BY DEF D!Collected, D!Step, D!Remove, D!Reload

LEMMA RequiresUnits == \A unit : D!Requires(unit) \subseteq {"helper", "trace"}
BY DEF D!Requires

\* The form of the state: what the operators need of its functions.
HostForm ==
    /\ d_disk = [f \in D!Files |-> d_disk[f]]
    /\ d_running = [u \in D!Units |-> d_running[u]]
    /\ d_enabled \subseteq D!Units

LEMMA EffectStop ==
    ASSUME NEW s, Stage(s) = 1, s.on \in D!Units, HostForm, D!Effect(s)
    PROVE  /\ d_disk' = d_disk
           /\ \A u \in D!Units : d_running'[u] = d_running[u] \/ (d_running'[u] = D!NoProcess /\ Stops(s, u))
           /\ d_running'[s.on] = D!NoProcess
           /\ s.do = "stop" => d_loaded' = d_loaded /\ d_enabled' = d_enabled
           /\ s.do = "disable" => d_loaded' = D!OnDisk /\ d_enabled' = d_enabled \ {s.on}
           /\ HostForm'
<1>1. s.do \in {"disable", "stop"}
  BY DEF Stage
<1>2. CASE s.do = "stop"
  <2>1. d_disk' = d_disk /\ d_loaded' = d_loaded /\ d_enabled' = d_enabled
    BY <1>2 DEF D!Effect
  <2>2. d_running' = [u \in D!Units |-> IF u \in D!StopSet(s.on, d_loaded) THEN D!NoProcess ELSE d_running[u]]
    BY <1>2 DEF D!Effect
  <2>3. \A u \in D!StopSet(s.on, d_loaded) : Stops(s, u)
    BY <1>2 DEF D!StopSet, Stops
  <2>4. s.on \in D!StopSet(s.on, d_loaded)
    BY DEF D!StopSet
  <2> QED BY <1>2, <2>1, <2>2, <2>3, <2>4 DEF HostForm
<1>3. CASE s.do = "disable"
  <2>1. d_disk' = d_disk /\ d_loaded' = D!OnDisk /\ d_enabled' = d_enabled \ {s.on}
    BY <1>3 DEF D!Effect
  <2>2. d_running' = [u \in D!Units |-> IF u \in D!StopSet(s.on, D!OnDisk) THEN D!NoProcess ELSE d_running[u]]
    BY <1>3 DEF D!Effect
  <2>3. \A u \in D!StopSet(s.on, D!OnDisk) : Stops(s, u)
    BY <1>3 DEF D!StopSet, Stops
  <2>4. s.on \in D!StopSet(s.on, D!OnDisk)
    BY DEF D!StopSet
  <2> QED BY <1>3, <2>1, <2>2, <2>3, <2>4 DEF HostForm
<1> QED BY <1>1, <1>2, <1>3

LEMMA EffectWrite ==
    ASSUME NEW s, Stage(s) = 2, HostForm, D!Effect(s), s.do # "tool" => s.on \in D!Files,
           s.do = "remove" => s.to = D!Missing
    PROVE  /\ \A f \in D!Files : d_disk'[f] = IF Writes(s) /\ f = s.on THEN s.to ELSE d_disk[f]
           /\ d_running' = d_running /\ d_loaded' = d_loaded /\ d_enabled' = d_enabled
           /\ HostForm'
<1>1. s.do \in {"write", "install", "remove", "tool"}
  BY DEF Stage
<1>2. d_loaded' = d_loaded /\ d_enabled' = d_enabled
  BY <1>1 DEF D!Effect
<1>3. d_running' = d_running
  <2>1. d_running' = [u \in D!Units |-> d_running[u]]
    BY <1>1 DEF D!Effect
  <2> QED BY <2>1 DEF HostForm
<1>4. d_disk' = IF Writes(s) THEN [d_disk EXCEPT ![s.on] = s.to] ELSE d_disk
  BY <1>1 DEF D!Effect, Writes
<1>5. \A f \in D!Files : d_disk'[f] = IF Writes(s) /\ f = s.on THEN s.to ELSE d_disk[f]
  BY <1>1, <1>4 DEF HostForm, Writes
<1>6. d_disk' = [f \in D!Files |-> d_disk'[f]]
  BY <1>1, <1>4 DEF HostForm, Writes
<1> QED BY <1>2, <1>3, <1>5, <1>6 DEF HostForm

LEMMA EffectReload ==
    ASSUME NEW s, s.do = "reload", HostForm, D!Effect(s)
    PROVE  /\ d_disk' = d_disk /\ d_running' = d_running /\ d_loaded' = D!OnDisk /\ d_enabled' = d_enabled
           /\ HostForm'
<1>1. d_disk' = d_disk /\ d_loaded' = D!OnDisk /\ d_enabled' = d_enabled
  BY DEF D!Effect
<1>2. d_running' = [u \in D!Units |-> d_running[u]]
  BY DEF D!Effect
<1> QED BY <1>1, <1>2 DEF HostForm

LEMMA EffectWait ==
    ASSUME NEW s, Stage(s) = 5, HostForm, D!Effect(s)
    PROVE  /\ d_disk' = d_disk /\ d_running' = d_running /\ d_loaded' = d_loaded /\ d_enabled' = d_enabled
           /\ HostForm'
<1>1. s.do \notin {"disable", "stop", "write", "install", "remove", "tool", "reload", "enable",
                    "restart"}
  BY DEF Stage
<1>2. d_disk' = d_disk /\ d_loaded' = d_loaded /\ d_enabled' = d_enabled
  BY <1>1 DEF D!Effect
<1>3. d_running' = [u \in D!Units |-> d_running[u]]
  BY <1>1 DEF D!Effect
<1> QED BY <1>2, <1>3 DEF HostForm

LEMMA EffectEnable ==
    ASSUME NEW s, s.do = "enable", s.on \in D!Units, HostForm, D!Effect(s)
    PROVE  /\ d_disk' = d_disk /\ d_loaded' = D!OnDisk /\ d_enabled' = d_enabled \cup {s.on}
           /\ \A u \in D!Units :
                 d_running'[u] = IF u \in D!StartSet(s.on, D!OnDisk) /\ d_running[u] = D!NoProcess
                               THEN D!Process(u, D!OnDisk) ELSE d_running[u]
           /\ HostForm'
<1>1. d_disk' = d_disk /\ d_loaded' = D!OnDisk /\ d_enabled' = d_enabled \cup {s.on}
  BY DEF D!Effect
<1>2. d_running' = [u \in D!Units |-> IF u \in D!StartSet(s.on, D!OnDisk) /\ d_running[u] = D!NoProcess
                                  THEN D!Process(u, D!OnDisk) ELSE d_running[u]]
  BY DEF D!Effect
<1> QED BY <1>1, <1>2 DEF HostForm

LEMMA EffectRestart ==
    ASSUME NEW s, s.do = "restart", s.on \in D!Units, HostForm, D!Effect(s)
    PROVE  /\ d_disk' = d_disk /\ d_loaded' = d_loaded /\ d_enabled' = d_enabled
           /\ \A u \in D!Units :
                 d_running'[u] = IF u \in D!RestartSet(s.on, d_loaded) THEN D!Process(u, d_loaded)
                               ELSE d_running[u]
           /\ HostForm'
<1>1. d_disk' = d_disk /\ d_loaded' = d_loaded /\ d_enabled' = d_enabled
  BY DEF D!Effect
<1>2. d_running' = [u \in D!Units |-> IF u \in D!RestartSet(s.on, d_loaded) THEN D!Process(u, d_loaded)
                                  ELSE d_running[u]]
  BY DEF D!Effect
<1> QED BY <1>1, <1>2 DEF HostForm

----------------------------------------------------------------------------
(* A step of a program that leads to T can be done, and what remains leads  *)
(* to T.                                                                    *)

LEMMA StagesOf ==
    \A s : /\ Stage(s) = 1 <=> s.do \in {"disable", "stop"}
           /\ Stage(s) = 2 <=> s.do \in {"write", "install", "remove", "tool"}
           /\ Stage(s) = 3 <=> s.do = "reload"
           /\ Stage(s) = 4 <=> s.do \in {"enable", "restart"}
           /\ Stage(s) \in 1 .. 5
BY DEF Stage

\* Once the files are changed they are those of T.
LEMMA FilesDone ==
    ASSUME NEW T, NEW rest, FilesLead(rest, T), \A s \in rest : Stage(s) # 2
    PROVE  \A f \in D!Files : d_disk[f] = T[f]
BY StagesOf DEF FilesLead, Writes

LEMMA ConsistentRequires ==
    ASSUME NEW T, D!Consistent(T)
    PROVE  /\ T["collector"] # D!Missing /\ T["config"] # D!Missing
           /\ T["collector"].profile = D!ProfileOf(T)
           /\ \A u \in D!Requires(T["collector"]) : u \in D!Units /\ T[u] # D!Missing
BY RequiresUnits DEF D!Consistent, D!Units

LEMMA LoadedUnits ==
    ASSUME NEW T, \A f \in D!Files : d_disk[f] = T[f]
    PROVE  D!OnDisk = [u \in D!Units |-> T[u]]
BY DEF D!OnDisk, D!Files

\* What a start from the files T starts.
LEMMA StartsOf ==
    ASSUME NEW T, D!Consistent(T), NEW u \in D!Units, T[u] # D!Missing, NEW defs,
           defs = [v \in D!Units |-> T[v]]
    PROVE  /\ \A v \in D!StartSet(u, defs) : v \in D!Units /\ T[v] # D!Missing
           /\ \A v \in D!RestartSet(u, defs) : v \in D!Units /\ T[v] # D!Missing
           /\ u \in D!StartSet(u, defs) /\ u \in D!RestartSet(u, defs)
<1>1. \A w \in D!Units : T[w] # D!Missing =>
          \A v \in D!StartSet(w, defs) : v \in D!Units /\ T[v] # D!Missing
  BY ConsistentRequires DEF D!StartSet, D!Units
<1>2. \A v \in D!StopSet(u, defs) : v \in D!Units /\ T[v] # D!Missing
  BY ConsistentRequires DEF D!StopSet, D!Units
<1>3. \A v \in D!RestartSet(u, defs) : v \in D!Units /\ T[v] # D!Missing
  BY <1>1, <1>2 DEF D!RestartSet
<1>4. u \in D!StartSet(u, defs) /\ u \in D!RestartSet(u, defs)
  BY DEF D!StartSet, D!RestartSet, D!StopSet
<1> QED BY <1>1, <1>3, <1>4

LEMMA RightProcess ==
    ASSUME NEW T, NEW defs, defs = [v \in D!Units |-> T[v]], \A f \in D!Files : d_disk[f] = T[f],
           NEW u \in D!Units
    PROVE  D!Process(u, defs) = Right(T, u)
BY DEF D!Process, Right, D!Files, D!Texts

LEMMA LeadsPossible ==
    ASSUME NEW T, NEW rest, NEW s, \A t \in rest : Stage(s) <= Stage(t), D!Consistent(T),
           Leads(rest \cup {s}, T)
    PROVE  D!Possible(s) \/ (s.errors = "ignore" /\ s.do = "disable" /\ d_disk[s.on] = D!Missing)
<1>1. StepFits(s, T) /\ FilesLead(rest \cup {s}, T) /\ LoadedLead(rest \cup {s}, T)
  BY DEF Leads
<1>2. CASE Stage(s) \in {1, 2, 3}
  <2>1. s.do \in {"disable", "stop", "write", "install", "remove", "tool", "reload"}
    BY <1>2, StagesOf
  <2>2. CASE s.do = "disable"
    BY <2>2, <1>1 DEF Leads, StopsPossible, D!Possible, StepFits
  <2>3. CASE s.do = "install"
    BY <2>3 DEF Leads, InstallsPossible, D!Possible
  <2>4. CASE s.do \notin {"disable", "install"}
    BY <2>1, <2>4 DEF D!Possible
  <2> QED BY <2>2, <2>3, <2>4
<1>3. CASE Stage(s) = 4
  <2>1. s.do \in {"enable", "restart"} /\ s.on \in D!Units /\ T[s.on] # D!Missing
    BY <1>1, <1>3, StagesOf DEF StepFits, Writes
  <2>2. \A t \in rest \cup {s} : Stage(t) # 2 /\ Stage(t) # 3
    BY <1>3, StagesOf
  <2>3. \A f \in D!Files : d_disk[f] = T[f]
    BY <2>2, <1>1, FilesDone
  <2>4. d_loaded = [u \in D!Units |-> T[u]]
    BY <2>2, <1>1, StagesOf DEF LoadedLead
  <2>5. D!OnDisk = [u \in D!Units |-> T[u]]
    BY <2>3, LoadedUnits
  <2>6. /\ \A v \in D!StartSet(s.on, D!OnDisk) : v \in D!Units /\ T[v] # D!Missing
        /\ \A v \in D!StartSet(s.on, d_loaded) : v \in D!Units /\ T[v] # D!Missing
    BY <2>1, <2>4, <2>5, StartsOf
  <2>7. CASE s.do = "enable"
    BY <2>3, <2>6, <2>7 DEF D!Possible, D!Files
  <2>8. CASE s.do = "restart"
    BY <2>4, <2>6, <2>8 DEF D!Possible
  <2> QED BY <2>1, <2>7, <2>8
<1>4. CASE Stage(s) = 5
  <2>1. s.do = "wait" /\ s.on \in {"any", D!ProfileOf(T)}
    BY <1>1, <1>4, StagesOf DEF StepFits, Writes
  <2>2. \A t \in rest \cup {s} : Stage(t) = 5
    BY <1>4, StagesOf
  <2>3. ServiceLeads(rest \cup {s}, T, "collector")
    BY ConsistentRequires DEF Leads, D!Units
  <2>4. d_running["collector"] = Right(T, "collector")
    BY <2>2, <2>3, StagesOf DEF ServiceLeads, Acts
  <2>5. d_running["collector"] # D!NoProcess /\ d_running["collector"].unit.profile = D!ProfileOf(T)
    BY <2>4, ConsistentRequires DEF Right, D!NoProcess
  <2> QED BY <2>1, <2>5 DEF D!Possible
<1> QED BY <1>2, <1>3, <1>4, StagesOf

LEMMA FitsRest ==
    ASSUME NEW T, NEW rest, NEW s, Leads(rest \cup {s}, T)
    PROVE  (\A t \in rest : StepFits(t, T)) /\ StepFits(s, T)
BY DEF Leads

LEMMA StopLeads ==
    ASSUME NEW T, NEW rest, NEW s, \A t \in rest : Stage(s) <= Stage(t),
           Leads(rest \cup {s}, T), HostForm, Stage(s) = 1, D!Possible(s), D!Effect(s)
    PROVE  Leads(rest, T)'
<1>1. s.do \in {"disable", "stop"} /\ s.on \in D!Units
  BY StagesOf, FitsRest DEF StepFits, Writes
<1>2. /\ d_disk' = d_disk
      /\ \A u \in D!Units : d_running'[u] = d_running[u] \/ (d_running'[u] = D!NoProcess /\ Stops(s, u))
      /\ d_running'[s.on] = D!NoProcess
      /\ s.do = "stop" => d_loaded' = d_loaded /\ d_enabled' = d_enabled
      /\ s.do = "disable" => d_loaded' = D!OnDisk /\ d_enabled' = d_enabled \ {s.on}
  BY <1>1, EffectStop
<1>3. FilesLead(rest, T)'
  BY <1>1, <1>2 DEF Leads, FilesLead, Writes
<1>4. LoadedLead(rest, T)'
  BY <1>1, <1>2 DEF Leads, LoadedLead
<1>5. StopsPossible(rest)' /\ InstallsPossible(rest)'
  BY <1>2 DEF Leads, StopsPossible, InstallsPossible
<1>6. ASSUME NEW u \in D!Units, T[u] # D!Missing
      PROVE  ServiceLeads(rest, T, u)' /\ EnabledLeads(rest, u)'
  <2>1. ServiceLeads(rest \cup {s}, T, u) /\ EnabledLeads(rest \cup {s}, u)
    BY <1>6 DEF Leads
  <2>2. ServiceLeads(rest, T, u)'
    <3>1. CASE d_running[u] = Right(T, u) /\ \A t \in rest \cup {s} : ~Stops(t, u)
      BY <3>1, <1>2 DEF ServiceLeads
    <3>2. CASE \E t \in rest \cup {s} : Acts(t, "restart", u)
      BY <3>2, <1>1 DEF ServiceLeads, Acts
    <3>3. CASE /\ \E t \in rest \cup {s} : Acts(t, "enable", u)
               /\ d_running[u] \in {D!NoProcess, Right(T, u)}
      BY <3>3, <1>1, <1>2 DEF ServiceLeads, Acts
    <3>4. CASE /\ \E t \in rest \cup {s} : Acts(t, "enable", u)
               /\ \E t \in rest \cup {s} : Acts(t, "stop", u)
      BY <3>4, <1>1, <1>2 DEF ServiceLeads, Acts
    <3>5. CASE (\E t \in rest \cup {s} : Acts(t, "enable", u)) /\ WillStop(rest \cup {s}, u)
      BY <3>5, <1>1, <1>2 DEF ServiceLeads, Acts, WillStop
    <3> QED BY <2>1, <3>1, <3>2, <3>3, <3>4, <3>5 DEF ServiceLeads
  <2>3. EnabledLeads(rest, u)'
    BY <2>1, <1>1, <1>2 DEF EnabledLeads, Acts
  <2> QED BY <2>2, <2>3
<1>7. ASSUME NEW u \in D!Units, T[u] = D!Missing
      PROVE  NoServiceLeads(rest, u)' /\ NotEnabledLeads(rest, u)'
  <2>1. NoServiceLeads(rest \cup {s}, u) /\ NotEnabledLeads(rest \cup {s}, u)
    BY <1>7 DEF Leads
  <2> QED BY <2>1, <1>1, <1>2 DEF NoServiceLeads, NotEnabledLeads, WillStop, Acts
<1> QED BY <1>3, <1>4, <1>5, <1>6, <1>7, FitsRest DEF Leads

\* A stop that is ignored because there is no unit.
LEMMA IgnoredLeads ==
    ASSUME NEW T, NEW rest, NEW s, Leads(rest \cup {s}, T), s.do = "disable",
           d_disk[s.on] = D!Missing, D!NoEffect
    PROVE  Leads(rest, T)'
<1>0. UNCHANGED <<d_disk, d_loaded, d_enabled, d_running>> /\ s.on \in D!Units
  BY FitsRest DEF D!NoEffect, StepFits, Writes
<1>3. FilesLead(rest, T)' /\ LoadedLead(rest, T)'
  BY <1>0 DEF Leads, FilesLead, Writes, LoadedLead
<1>5. StopsPossible(rest)' /\ InstallsPossible(rest)'
  BY <1>0 DEF Leads, StopsPossible, InstallsPossible
<1>6. ASSUME NEW u \in D!Units, T[u] # D!Missing
      PROVE  ServiceLeads(rest, T, u)' /\ EnabledLeads(rest, u)'
  <2>1. ServiceLeads(rest \cup {s}, T, u) /\ EnabledLeads(rest \cup {s}, u)
    BY <1>6 DEF Leads
  <2>2. ServiceLeads(rest, T, u)'
    BY <2>1, <1>0 DEF ServiceLeads, Acts, WillStop
  <2>3. EnabledLeads(rest, u)'
    BY <2>1, <1>0 DEF EnabledLeads, Acts
  <2> QED BY <2>2, <2>3
<1>7. ASSUME NEW u \in D!Units, T[u] = D!Missing
      PROVE  NoServiceLeads(rest, u)' /\ NotEnabledLeads(rest, u)'
  <2>1. NoServiceLeads(rest \cup {s}, u) /\ NotEnabledLeads(rest \cup {s}, u)
    BY <1>7 DEF Leads
  <2> QED BY <2>1, <1>0 DEF NoServiceLeads, NotEnabledLeads, WillStop, Acts
<1> QED BY <1>3, <1>5, <1>6, <1>7, FitsRest DEF Leads

LEMMA WriteLeads ==
    ASSUME NEW T, NEW rest, NEW s, \A t \in rest : Stage(s) <= Stage(t),
           Leads(rest \cup {s}, T), HostForm, Stage(s) = 2, D!Possible(s), D!Effect(s)
    PROVE  Leads(rest, T)'
<1>1. /\ s.do \in {"write", "install", "remove", "tool"}
      /\ s.do = "remove" => s.to = D!Missing
      /\ Writes(s) => s.on \in D!Files /\ s.to = T[s.on]
  BY StagesOf, FitsRest DEF StepFits, Writes
<1>2. /\ \A f \in D!Files : d_disk'[f] = IF Writes(s) /\ f = s.on THEN s.to ELSE d_disk[f]
      /\ d_running' = d_running /\ d_loaded' = d_loaded /\ d_enabled' = d_enabled
  <2>1. s.do # "tool" => s.on \in D!Files
    BY <1>1 DEF Writes
  <2> QED BY <1>1, <2>1, EffectWrite
<1>0. \A t \in rest \cup {s} : t.do \notin {"disable", "stop"}
  BY StagesOf
<1>3. FilesLead(rest, T)'
  BY <1>1, <1>2 DEF Leads, FilesLead, Writes
<1>4. LoadedLead(rest, T)'
  BY <1>0, <1>1, <1>2 DEF Leads, LoadedLead
<1>5. StopsPossible(rest)'
  BY <1>0 DEF StopsPossible
<1>8. InstallsPossible(rest)'
  <2> SUFFICES ASSUME NEW t \in rest, t.do = "install"
               PROVE  d_disk'[t.on] \in {D!Missing, t.to}
    BY DEF InstallsPossible
  <2>1. t.on \in D!Files /\ t.to = T[t.on]
    BY FitsRest DEF StepFits, Writes
  <2>2. d_disk[t.on] \in {D!Missing, t.to}
    BY DEF Leads, InstallsPossible
  <2> QED BY <1>1, <1>2, <2>1, <2>2
<1>6. ASSUME NEW u \in D!Units, T[u] # D!Missing
      PROVE  ServiceLeads(rest, T, u)' /\ EnabledLeads(rest, u)'
  <2>1. ServiceLeads(rest \cup {s}, T, u) /\ EnabledLeads(rest \cup {s}, u)
    BY <1>6 DEF Leads
  <2>2. ServiceLeads(rest, T, u)'
    BY <2>1, <1>0, <1>1, <1>2 DEF ServiceLeads, Acts, WillStop, Stops
  <2>3. EnabledLeads(rest, u)'
    BY <2>1, <1>0, <1>1, <1>2 DEF EnabledLeads, Acts
  <2> QED BY <2>2, <2>3
<1>7. ASSUME NEW u \in D!Units, T[u] = D!Missing
      PROVE  NoServiceLeads(rest, u)' /\ NotEnabledLeads(rest, u)'
  <2>1. NoServiceLeads(rest \cup {s}, u) /\ NotEnabledLeads(rest \cup {s}, u)
    BY <1>7 DEF Leads
  <2> QED BY <2>1, <1>0, <1>2 DEF NoServiceLeads, NotEnabledLeads, WillStop, Acts
<1> QED BY <1>3, <1>4, <1>5, <1>6, <1>7, <1>8, FitsRest DEF Leads

LEMMA ReloadLeads ==
    ASSUME NEW T, NEW rest, NEW s, \A t \in rest : Stage(s) <= Stage(t),
           Leads(rest \cup {s}, T), HostForm, Stage(s) = 3, D!Effect(s)
    PROVE  Leads(rest, T)'
<1>1. s.do = "reload"
  BY StagesOf
<1>2. d_disk' = d_disk /\ d_running' = d_running /\ d_loaded' = D!OnDisk /\ d_enabled' = d_enabled
  BY <1>1, EffectReload
<1>0. \A t \in rest \cup {s} : Stage(t) \notin {1, 2}
  BY StagesOf
<1>9. \A f \in D!Files : d_disk[f] = T[f]
  BY <1>0, FilesDone DEF Leads
<1>3. FilesLead(rest, T)'
  BY <1>2, <1>9 DEF FilesLead
<1>4. LoadedLead(rest, T)'
  BY <1>0, <1>2, <1>9, LoadedUnits, StagesOf DEF LoadedLead
<1>5. StopsPossible(rest)' /\ InstallsPossible(rest)'
  BY <1>0, StagesOf DEF StopsPossible, InstallsPossible
<1>6. ASSUME NEW u \in D!Units, T[u] # D!Missing
      PROVE  ServiceLeads(rest, T, u)' /\ EnabledLeads(rest, u)'
  <2>1. ServiceLeads(rest \cup {s}, T, u) /\ EnabledLeads(rest \cup {s}, u)
    BY <1>6 DEF Leads
  <2>2. ServiceLeads(rest, T, u)'
    BY <2>1, <1>1, <1>2 DEF ServiceLeads, Acts, WillStop, Stops
  <2>3. EnabledLeads(rest, u)'
    BY <2>1, <1>1, <1>2 DEF EnabledLeads, Acts
  <2> QED BY <2>2, <2>3
<1>7. ASSUME NEW u \in D!Units, T[u] = D!Missing
      PROVE  NoServiceLeads(rest, u)' /\ NotEnabledLeads(rest, u)'
  <2>1. NoServiceLeads(rest \cup {s}, u) /\ NotEnabledLeads(rest \cup {s}, u)
    BY <1>7 DEF Leads
  <2> QED BY <2>1, <1>1, <1>2 DEF NoServiceLeads, NotEnabledLeads, WillStop, Acts
<1> QED BY <1>3, <1>4, <1>5, <1>6, <1>7, FitsRest DEF Leads

LEMMA WaitLeads ==
    ASSUME NEW T, NEW rest, NEW s, Leads(rest \cup {s}, T), HostForm, Stage(s) = 5, D!Effect(s)
    PROVE  Leads(rest, T)'
<1>1. s.do \notin {"disable", "stop", "write", "install", "remove", "tool", "reload", "enable",
                    "restart"}
  BY StagesOf
<1>2. d_disk' = d_disk /\ d_running' = d_running /\ d_loaded' = d_loaded /\ d_enabled' = d_enabled
  BY EffectWait
<1>3. FilesLead(rest, T)' /\ LoadedLead(rest, T)'
  BY <1>1, <1>2 DEF Leads, FilesLead, LoadedLead, Writes
<1>5. StopsPossible(rest)' /\ InstallsPossible(rest)'
  BY <1>2 DEF Leads, StopsPossible, InstallsPossible
<1>6. ASSUME NEW u \in D!Units, T[u] # D!Missing
      PROVE  ServiceLeads(rest, T, u)' /\ EnabledLeads(rest, u)'
  <2>1. ServiceLeads(rest \cup {s}, T, u) /\ EnabledLeads(rest \cup {s}, u)
    BY <1>6 DEF Leads
  <2>2. ServiceLeads(rest, T, u)'
    BY <2>1, <1>1, <1>2 DEF ServiceLeads, Acts, WillStop, Stops
  <2>3. EnabledLeads(rest, u)'
    BY <2>1, <1>1, <1>2 DEF EnabledLeads, Acts
  <2> QED BY <2>2, <2>3
<1>7. ASSUME NEW u \in D!Units, T[u] = D!Missing
      PROVE  NoServiceLeads(rest, u)' /\ NotEnabledLeads(rest, u)'
  <2>1. NoServiceLeads(rest \cup {s}, u) /\ NotEnabledLeads(rest \cup {s}, u)
    BY <1>7 DEF Leads
  <2> QED BY <2>1, <1>1, <1>2 DEF NoServiceLeads, NotEnabledLeads, WillStop, Acts
<1> QED BY <1>3, <1>5, <1>6, <1>7, FitsRest DEF Leads

\* Starting a service from the files T, however the others are: the service, or
\* one that was down, runs from T.
LEMMA StartRuns ==
    ASSUME NEW T, NEW s, Stage(s) = 4, s.on \in D!Units, HostForm, D!Effect(s),
           \A f \in D!Files : d_disk[f] = T[f], d_loaded = [u \in D!Units |-> T[u]]
    PROVE  /\ d_disk' = d_disk /\ d_loaded' = d_loaded
           /\ \A u \in D!Units : d_running'[u] \in {d_running[u], Right(T, u)}
           /\ s.do = "restart" => d_running'[s.on] = Right(T, s.on)
           /\ s.do = "enable" /\ d_running[s.on] = D!NoProcess => d_running'[s.on] = Right(T, s.on)
           /\ d_enabled' = IF s.do = "enable" THEN d_enabled \cup {s.on} ELSE d_enabled
           /\ D!Consistent(T) /\ T[s.on] # D!Missing =>
                 \A u \in D!Units : T[u] = D!Missing => d_running'[u] = d_running[u]
<1>1. D!OnDisk = d_loaded
  BY LoadedUnits
<1>2. \A u \in D!Units : D!Process(u, d_loaded) = Right(T, u)
  BY RightProcess
<1>3. s.on \in D!StartSet(s.on, d_loaded) /\ s.on \in D!RestartSet(s.on, d_loaded)
  BY DEF D!StartSet, D!RestartSet, D!StopSet
<1>4. D!Consistent(T) /\ T[s.on] # D!Missing =>
          /\ \A v \in D!StartSet(s.on, d_loaded) : T[v] # D!Missing
          /\ \A v \in D!RestartSet(s.on, d_loaded) : T[v] # D!Missing
  BY StartsOf
<1>5. CASE s.do = "enable"
  BY <1>1, <1>2, <1>3, <1>4, <1>5, EffectEnable
<1>6. CASE s.do = "restart"
  BY <1>1, <1>2, <1>3, <1>4, <1>6, EffectRestart
<1> QED BY <1>5, <1>6, StagesOf

LEMMA StartLeads ==
    ASSUME NEW T, NEW rest, NEW s, \A t \in rest : Stage(s) <= Stage(t), D!Consistent(T),
           Leads(rest \cup {s}, T), HostForm, Stage(s) = 4, D!Effect(s)
    PROVE  Leads(rest, T)'
<1>1. s.do \in {"enable", "restart"} /\ s.on \in D!Units /\ T[s.on] # D!Missing
  BY StagesOf, FitsRest DEF StepFits, Writes
<1>0. \A t \in rest \cup {s} : Stage(t) \notin {1, 2, 3}
  BY StagesOf
<1>9. \A f \in D!Files : d_disk[f] = T[f]
  BY <1>0, FilesDone DEF Leads
<1>10. d_loaded = [u \in D!Units |-> T[u]]
  BY <1>0, StagesOf DEF Leads, LoadedLead
<1>2. /\ d_disk' = d_disk /\ d_loaded' = d_loaded
      /\ \A u \in D!Units : d_running'[u] \in {d_running[u], Right(T, u)}
      /\ s.do = "restart" => d_running'[s.on] = Right(T, s.on)
      /\ s.do = "enable" /\ d_running[s.on] = D!NoProcess => d_running'[s.on] = Right(T, s.on)
      /\ d_enabled' = IF s.do = "enable" THEN d_enabled \cup {s.on} ELSE d_enabled
      /\ \A u \in D!Units : T[u] = D!Missing => d_running'[u] = d_running[u]
  BY <1>1, <1>9, <1>10, StartRuns
<1>3. FilesLead(rest, T)' /\ LoadedLead(rest, T)'
  BY <1>0, <1>2, <1>9, <1>10, StagesOf DEF FilesLead, LoadedLead
<1>5. StopsPossible(rest)' /\ InstallsPossible(rest)'
  BY <1>0, StagesOf DEF StopsPossible, InstallsPossible
<1>11. \A t \in rest \cup {s} : t.do \notin {"disable", "stop"}
  BY <1>0, StagesOf
<1>6. ASSUME NEW u \in D!Units, T[u] # D!Missing
      PROVE  ServiceLeads(rest, T, u)' /\ EnabledLeads(rest, u)'
  <2>1. ServiceLeads(rest \cup {s}, T, u) /\ EnabledLeads(rest \cup {s}, u)
    BY <1>6 DEF Leads
  <2>2. ServiceLeads(rest, T, u)'
    <3>1. CASE d_running[u] = Right(T, u)
      BY <3>1, <1>2, <1>11 DEF ServiceLeads, Stops
    <3>2. CASE \E t \in rest \cup {s} : Acts(t, "restart", u)
      <4>1. CASE Acts(s, "restart", u)
        BY <4>1, <1>2, <1>11 DEF ServiceLeads, Stops, Acts
      <4> QED BY <4>1, <3>2 DEF ServiceLeads
    <3>3. CASE (\E t \in rest \cup {s} : Acts(t, "enable", u)) /\ d_running[u] = D!NoProcess
      <4>1. CASE Acts(s, "enable", u)
        BY <3>3, <4>1, <1>2, <1>11 DEF ServiceLeads, Stops, Acts
      <4> QED BY <4>1, <3>3, <1>2 DEF ServiceLeads
    <3> QED BY <2>1, <1>11, <3>1, <3>2, <3>3 DEF ServiceLeads, WillStop, Acts
  <2>3. EnabledLeads(rest, u)'
    BY <2>1, <1>1, <1>2, <1>11 DEF EnabledLeads, Acts
  <2> QED BY <2>2, <2>3
<1>7. ASSUME NEW u \in D!Units, T[u] = D!Missing
      PROVE  NoServiceLeads(rest, u)' /\ NotEnabledLeads(rest, u)'
  <2>1. NoServiceLeads(rest \cup {s}, u) /\ NotEnabledLeads(rest \cup {s}, u)
    BY <1>7 DEF Leads
  <2> QED BY <2>1, <1>1, <1>2, <1>7, <1>11 DEF NoServiceLeads, NotEnabledLeads, WillStop, Acts
<1> QED BY <1>3, <1>5, <1>6, <1>7, FitsRest DEF Leads

LEMMA StepLeads ==
    ASSUME NEW T, NEW rest, NEW s, \A t \in rest : Stage(s) <= Stage(t), D!Consistent(T),
           Leads(rest \cup {s}, T), HostForm, D!Possible(s), D!Effect(s)
    PROVE  Leads(rest, T)'
BY StopLeads, WriteLeads, ReloadLeads, StartLeads, WaitLeads, StagesOf

\* Nothing remains: the host serves from T.
LEMMA LeadsHealthy ==
    ASSUME NEW T, D!Consistent(T), Leads({}, T), HostForm
    PROVE  D!Healthy /\ \A f \in D!Files : d_disk[f] = T[f]
<1>1. \A f \in D!Files : d_disk[f] = T[f]
  BY DEF Leads, FilesLead
<1>2. d_loaded = D!OnDisk
  BY <1>1, LoadedUnits DEF Leads, LoadedLead
<1>3. ASSUME NEW u \in D!Units
      PROVE  /\ d_running[u] = IF T[u] = D!Missing THEN D!NoProcess ELSE Right(T, u)
             /\ u \in d_enabled <=> T[u] # D!Missing
  BY DEF Leads, ServiceLeads, EnabledLeads, NoServiceLeads, NotEnabledLeads, WillStop
<1>4. D!Serving
  BY <1>1, <1>3 DEF D!Serving, Right, D!Files, D!Texts
<1>5. d_enabled = {u \in D!Units : d_disk[u] # D!Missing}
  BY <1>1, <1>3 DEF HostForm, D!Files
<1>6. D!Consistent(d_disk)
  <2>1. /\ d_disk["config"] = T["config"] /\ d_disk["collector"] = T["collector"]
        /\ d_disk["helper"] = T["helper"] /\ d_disk["trace"] = T["trace"]
        /\ d_disk["profile"] = T["profile"] /\ d_disk["tracePolicy"] = T["tracePolicy"]
    BY <1>1 DEF D!Files, D!Texts, D!Units
  <2> QED BY <2>1 DEF D!Consistent, D!ProfileOf
<1> QED BY <1>1, <1>2, <1>4, <1>5, <1>6 DEF D!Healthy

----------------------------------------------------------------------------
(* The steps of every program, and that they come in the order of the       *)
(* stages.                                                                  *)

LEMMA StepStages ==
    /\ \A f, c : Stage(D!Write(f, c)) = 2 /\ Stage(D!Install(f, c)) = 2 /\ Stage(D!Remove(f)) = 2
    /\ Stage(D!Reload) = 3 /\ Stage(D!Tool) = 2 /\ \A f : Stage(D!Wait(f)) = 5
    /\ \A u : /\ Stage(D!Step("disable", u)) = 1 /\ Stage(D!Step("stop", u)) = 1
              /\ Stage(D!Step("enable", u)) = 4 /\ Stage(D!Step("restart", u)) = 4
              /\ Stage(D!Tolerated(D!Step("disable", u))) = 1
              /\ Stage(D!Tolerated(D!Step("stop", u))) = 1
    /\ \A u, U : /\ Stage(D!Collected(D!Step("disable", u), U)) = 1
                 /\ Stage(D!Collected(D!Remove(u), U)) = 2 /\ Stage(D!Collected(D!Reload, U)) = 3
BY StepFields, WriteFields, InstallFields, RemoveFields, ReloadFields, WaitFields,
   ToleratedFields, CollectedFields DEF Stage

\* The order of two stages, kept from the arithmetic of the provers.
Before(a, b) == a \in Int /\ b \in Int /\ a <= b

LEMMA StageOrder ==
    /\ Before(1, 1) /\ Before(1, 2) /\ Before(1, 3) /\ Before(1, 4) /\ Before(1, 5)
    /\ Before(2, 2) /\ Before(2, 3) /\ Before(2, 4) /\ Before(2, 5) /\ Before(3, 3)
    /\ Before(3, 4) /\ Before(3, 5) /\ Before(4, 4) /\ Before(4, 5) /\ Before(5, 5)
BY DEF Before

LEMMA SingleAt ==
    ASSUME NEW s, NEW a, NEW b, NEW c, Stage(s) = c, Before(a, c), Before(c, b)
    PROVE  Segment(<<s>>, a, b) /\ StepsOf(<<s>>) = {s}
BY SingleSegment, StageType DEF Segment, Before

Join(p, q) == p \o q

LEMMA SegmentJoin ==
    ASSUME NEW p, NEW q, NEW a, NEW b, NEW d, Segment(p, a, b), Segment(q, b, d),
           Before(a, b), Before(b, d)
    PROVE  Segment(Join(p, q), a, d) /\ StepsOf(Join(p, q)) = StepsOf(p) \cup StepsOf(q)
BY SegmentConcat DEF Join, Before

LEMMA SegmentWiden ==
    ASSUME NEW p, NEW a, NEW b, NEW c, NEW d,
           Segment(p, a, b), Before(c, a), Before(b, d)
    PROVE  Segment(p, c, d)
BY StageType DEF Segment, Before

LEMMA StartSteps ==
    ASSUME NEW target
    PROVE  Segment(D!StartCommands(target), 3, 4)
           /\ StepsOf(D!StartCommands(target)) =
                  {D!Reload}
                  \cup (IF target = "paranoid3_helper" THEN {D!Step("enable", "helper")} ELSE {})
                  \cup {D!Step("enable", "collector")}
<1> DEFINE P1 == <<D!Reload>>
<1> DEFINE S1 == {D!Reload}
<1> DEFINE P2 == D!When(target = "paranoid3_helper", <<D!Step("enable", "helper")>>)
<1> DEFINE S2 == (IF target = "paranoid3_helper" THEN {D!Step("enable", "helper")} ELSE {})
<1> DEFINE P3 == <<D!Step("enable", "collector")>>
<1> DEFINE S3 == {D!Step("enable", "collector")}
<1>1. Segment(P1, 3, 3) /\ StepsOf(P1) = S1
  BY SingleAt, StepStages, StageOrder
<1>2. Segment(P2, 3, 4) /\ StepsOf(P2) = S2
  <2>t. CASE target = "paranoid3_helper"
    BY <2>t, SingleAt, StepStages, StageOrder, SegmentWiden, StageOrder DEF D!When
  <2>f. CASE ~(target = "paranoid3_helper")
    BY <2>f, EmptySegment DEF D!When
  <2> QED BY <2>t, <2>f
<1>3. Segment(P3, 4, 4) /\ StepsOf(P3) = S3
  BY SingleAt, StepStages, StageOrder
<1> HIDE DEF P1, S1, P2, S2, P3, S3
<1>c2. Segment(Join(P1, P2), 3, 4) /\ StepsOf(Join(P1, P2)) = S1 \cup S2
  BY <1>1, <1>2, SegmentJoin, StageOrder
<1>c3. Segment(Join(Join(P1, P2), P3), 3, 4) /\ StepsOf(Join(Join(P1, P2), P3)) = S1 \cup S2 \cup S3
  BY <1>c2, <1>3, SegmentJoin, StageOrder
<1> QED BY <1>c3 DEF Join, P1, S1, P2, S2, P3, S3, D!StartCommands

LEMMA RestartSteps ==
    ASSUME NEW c, NEW profile
    PROVE  Segment(D!Restarts(c, profile), 3, 4)
           /\ StepsOf(D!Restarts(c, profile)) =
                  {D!Reload}
                  \cup (IF c.mode = "paranoid3_helper" THEN {D!Step("restart", "helper")} ELSE {})
                  \cup (IF profile = "full_diagnostics" THEN {D!Step("restart", "trace")} ELSE {})
                  \cup {D!Step("restart", "collector")}
<1> DEFINE P1 == <<D!Reload>>
<1> DEFINE S1 == {D!Reload}
<1> DEFINE P2 == D!When(c.mode = "paranoid3_helper", <<D!Step("restart", "helper")>>)
<1> DEFINE S2 == (IF c.mode = "paranoid3_helper" THEN {D!Step("restart", "helper")} ELSE {})
<1> DEFINE P3 == D!When(profile = "full_diagnostics", <<D!Step("restart", "trace")>>)
<1> DEFINE S3 == (IF profile = "full_diagnostics" THEN {D!Step("restart", "trace")} ELSE {})
<1> DEFINE P4 == <<D!Step("restart", "collector")>>
<1> DEFINE S4 == {D!Step("restart", "collector")}
<1>1. Segment(P1, 3, 3) /\ StepsOf(P1) = S1
  BY SingleAt, StepStages, StageOrder
<1>2. Segment(P2, 3, 4) /\ StepsOf(P2) = S2
  <2>t. CASE c.mode = "paranoid3_helper"
    BY <2>t, SingleAt, StepStages, StageOrder, SegmentWiden, StageOrder DEF D!When
  <2>f. CASE ~(c.mode = "paranoid3_helper")
    BY <2>f, EmptySegment DEF D!When
  <2> QED BY <2>t, <2>f
<1>3. Segment(P3, 4, 4) /\ StepsOf(P3) = S3
  <2>t. CASE profile = "full_diagnostics"
    BY <2>t, SingleAt, StepStages, StageOrder, SegmentWiden, StageOrder DEF D!When
  <2>f. CASE ~(profile = "full_diagnostics")
    BY <2>f, EmptySegment DEF D!When
  <2> QED BY <2>t, <2>f
<1>4. Segment(P4, 4, 4) /\ StepsOf(P4) = S4
  BY SingleAt, StepStages, StageOrder
<1> HIDE DEF P1, S1, P2, S2, P3, S3, P4, S4
<1>c2. Segment(Join(P1, P2), 3, 4) /\ StepsOf(Join(P1, P2)) = S1 \cup S2
  BY <1>1, <1>2, SegmentJoin, StageOrder
<1>c3. Segment(Join(Join(P1, P2), P3), 3, 4) /\ StepsOf(Join(Join(P1, P2), P3)) = S1 \cup S2 \cup S3
  BY <1>c2, <1>3, SegmentJoin, StageOrder
<1>c4. Segment(Join(Join(Join(P1, P2), P3), P4), 3, 4) /\ StepsOf(Join(Join(Join(P1, P2), P3),
         P4)) = S1 \cup S2 \cup S3 \cup S4
  BY <1>c3, <1>4, SegmentJoin, StageOrder
<1> QED BY <1>c4 DEF Join, P1, S1, P2, S2, P3, S3, P4, S4, D!Restarts

LEMMA HelperFileSteps ==
    ASSUME NEW target
    PROVE  Segment(D!HelperFile(target), 2, 2)
           /\ StepsOf(D!HelperFile(target)) =
                  (IF target = "paranoid3_helper" THEN {D!Write("helper", D!HelperUnit(D!Config))}
                      ELSE (IF D!Present("helper") THEN {D!Remove("helper")} ELSE {}))
<1>t. CASE target = "paranoid3_helper"
  BY <1>t, SingleAt, StepStages, StageOrder, SegmentWiden, StageOrder DEF D!When, D!HelperFile
<1>f. CASE ~(target = "paranoid3_helper")
  <2>t. CASE D!Present("helper")
    BY <1>f, <2>t, SingleAt, StepStages, StageOrder, SegmentWiden, StageOrder DEF D!When, D!HelperFile
  <2>f. CASE ~(D!Present("helper"))
    BY <1>f, <2>f, EmptySegment DEF D!When, D!HelperFile
  <2> QED BY <2>t, <2>f
<1> QED BY <1>t, <1>f

LEMMA ModeSteps ==
    ASSUME NEW target
    PROVE  Segment(D!SwitchModeProgram(target), 1, 5)
           /\ StepsOf(D!SwitchModeProgram(target)) =
                  {D!Step("disable", "collector")}
                  \cup (IF D!Config.mode = "paranoid3_helper" \/ D!Present("helper")
                      THEN {D!Step("disable", "helper")} ELSE {})
                  \cup {D!Write("config", [D!Config EXCEPT !.mode = target]), D!Write("collector",
                      D!CollectorUnit(target, D!ProfileOf(d_disk)))}
                  \cup (IF target = "paranoid3_helper" THEN {D!Write("helper",
                      D!HelperUnit(D!Config))} ELSE (IF D!Present("helper")
                      THEN {D!Remove("helper")} ELSE {}))
                  \cup ({D!Reload} \cup (IF target = "paranoid3_helper" THEN {D!Step("enable",
                      "helper")} ELSE {}) \cup {D!Step("enable", "collector")})
                  \cup {D!Wait(D!ProfileOf(d_disk))}
<1> DEFINE P1 == <<D!Step("disable", "collector")>>
<1> DEFINE S1 == {D!Step("disable", "collector")}
<1> DEFINE P2 == D!When(D!Config.mode = "paranoid3_helper" \/ D!Present("helper"),
      <<D!Step("disable", "helper")>>)
<1> DEFINE S2 == (IF D!Config.mode = "paranoid3_helper" \/ D!Present("helper")
      THEN {D!Step("disable", "helper")} ELSE {})
<1> DEFINE P3 == <<D!Write("config", [D!Config EXCEPT !.mode = target]), D!Write("collector",
      D!CollectorUnit(target, D!ProfileOf(d_disk)))>>
<1> DEFINE S3 == {D!Write("config", [D!Config EXCEPT !.mode = target]), D!Write("collector",
      D!CollectorUnit(target, D!ProfileOf(d_disk)))}
<1> DEFINE P4 == D!HelperFile(target)
<1> DEFINE S4 == (IF target = "paranoid3_helper" THEN {D!Write("helper", D!HelperUnit(D!Config))}
      ELSE (IF D!Present("helper") THEN {D!Remove("helper")} ELSE {}))
<1> DEFINE P5 == D!StartCommands(target)
<1> DEFINE S5 == ({D!Reload} \cup (IF target = "paranoid3_helper" THEN {D!Step("enable", "helper")}
      ELSE {}) \cup {D!Step("enable", "collector")})
<1> DEFINE P6 == <<D!Wait(D!ProfileOf(d_disk))>>
<1> DEFINE S6 == {D!Wait(D!ProfileOf(d_disk))}
<1>1. Segment(P1, 1, 1) /\ StepsOf(P1) = S1
  BY SingleAt, StepStages, StageOrder
<1>2. Segment(P2, 1, 1) /\ StepsOf(P2) = S2
  <2>t. CASE D!Config.mode = "paranoid3_helper" \/ D!Present("helper")
    BY <2>t, SingleAt, StepStages, StageOrder, SegmentWiden, StageOrder DEF D!When
  <2>f. CASE ~(D!Config.mode = "paranoid3_helper" \/ D!Present("helper"))
    BY <2>f, EmptySegment DEF D!When
  <2> QED BY <2>t, <2>f
<1>3. Segment(P3, 1, 2) /\ StepsOf(P3) = S3
  BY PairSegment, StepStages, SegmentWiden, StageOrder
<1>4. Segment(P4, 2, 2) /\ StepsOf(P4) = S4
  BY HelperFileSteps
<1>5. Segment(P5, 2, 4) /\ StepsOf(P5) = S5
  BY StartSteps, SegmentWiden, StageOrder
<1>6. Segment(P6, 4, 5) /\ StepsOf(P6) = S6
  BY SingleAt, StepStages, StageOrder, SegmentWiden, StageOrder
<1> HIDE DEF P1, S1, P2, S2, P3, S3, P4, S4, P5, S5, P6, S6
<1>c2. Segment(Join(P1, P2), 1, 1) /\ StepsOf(Join(P1, P2)) = S1 \cup S2
  BY <1>1, <1>2, SegmentJoin, StageOrder
<1>c3. Segment(Join(Join(P1, P2), P3), 1, 2) /\ StepsOf(Join(Join(P1, P2), P3)) = S1 \cup S2 \cup S3
  BY <1>c2, <1>3, SegmentJoin, StageOrder
<1>c4. Segment(Join(Join(Join(P1, P2), P3), P4), 1, 2) /\ StepsOf(Join(Join(Join(P1, P2), P3),
         P4)) = S1 \cup S2 \cup S3 \cup S4
  BY <1>c3, <1>4, SegmentJoin, StageOrder
<1>c5. Segment(Join(Join(Join(Join(P1, P2), P3), P4), P5), 1, 4) /\ StepsOf(Join(Join(Join(Join(P1,
         P2), P3), P4), P5)) = S1 \cup S2 \cup S3 \cup S4 \cup S5
  BY <1>c4, <1>5, SegmentJoin, StageOrder
<1>c6. Segment(Join(Join(Join(Join(Join(P1, P2), P3), P4), P5), P6), 1, 5)
         /\ StepsOf(Join(Join(Join(Join(Join(P1, P2), P3), P4), P5), P6)) = S1 \cup S2 \cup S3
         \cup S4 \cup S5 \cup S6
  BY <1>c5, <1>6, SegmentJoin, StageOrder
<1> QED BY <1>c6 DEF Join, P1, S1, P2, S2, P3, S3, P4, S4, P5, S5, P6, S6, D!SwitchModeProgram

LEMMA UpgradeSteps ==
    /\ Segment(D!UpgradeProgram, 1, 5)
    /\ StepsOf(D!UpgradeProgram) =
          (IF D!StaleHelper THEN {D!Step("disable", "helper"), D!Remove("helper")}
              ELSE (IF D!Present("helper") /\ d_disk["helper"] # D!HelperUnit(D!Config)
              THEN {D!Write("helper", D!HelperUnit(D!Config))} ELSE {}))
          \cup (IF D!ProfileOf(d_disk) = "full_diagnostics"
              /\ d_disk["trace"] # D!TraceUnit(D!Config, d_disk["tracePolicy"])
              THEN {D!Write("trace", D!TraceUnit(D!Config, d_disk["tracePolicy"]))} ELSE {})
          \cup (IF d_disk["collector"] # D!CollectorUnit(D!Config.mode, D!ProfileOf(d_disk))
              THEN {D!Write("collector", D!CollectorUnit(D!Config.mode, D!ProfileOf(d_disk)))} ELSE {})
          \cup ({D!Reload} \cup (IF D!Config.mode = "paranoid3_helper" THEN {D!Step("restart",
              "helper")} ELSE {}) \cup (IF D!ProfileOf(d_disk) = "full_diagnostics"
              THEN {D!Step("restart", "trace")} ELSE {}) \cup {D!Step("restart", "collector")})
          \cup {D!Wait(IF D!ProfileOf(d_disk) = "full_diagnostics" THEN "full_diagnostics" ELSE "any")}
<1> DEFINE P1 == IF D!StaleHelper THEN <<D!Step("disable", "helper"), D!Remove("helper")>>
      ELSE D!When(D!Present("helper") /\ d_disk["helper"] # D!HelperUnit(D!Config),
      <<D!Write("helper", D!HelperUnit(D!Config))>>)
<1> DEFINE S1 == (IF D!StaleHelper THEN {D!Step("disable", "helper"), D!Remove("helper")}
      ELSE (IF D!Present("helper") /\ d_disk["helper"] # D!HelperUnit(D!Config)
      THEN {D!Write("helper", D!HelperUnit(D!Config))} ELSE {}))
<1> DEFINE P2 == D!When(D!ProfileOf(d_disk) = "full_diagnostics"
      /\ d_disk["trace"] # D!TraceUnit(D!Config, d_disk["tracePolicy"]), <<D!Write("trace",
      D!TraceUnit(D!Config, d_disk["tracePolicy"]))>>)
<1> DEFINE S2 == (IF D!ProfileOf(d_disk) = "full_diagnostics"
      /\ d_disk["trace"] # D!TraceUnit(D!Config, d_disk["tracePolicy"]) THEN {D!Write("trace",
      D!TraceUnit(D!Config, d_disk["tracePolicy"]))} ELSE {})
<1> DEFINE P3 == D!When(d_disk["collector"] # D!CollectorUnit(D!Config.mode, D!ProfileOf(d_disk)),
      <<D!Write("collector", D!CollectorUnit(D!Config.mode, D!ProfileOf(d_disk)))>>)
<1> DEFINE S3 == (IF d_disk["collector"] # D!CollectorUnit(D!Config.mode, D!ProfileOf(d_disk))
      THEN {D!Write("collector", D!CollectorUnit(D!Config.mode, D!ProfileOf(d_disk)))} ELSE {})
<1> DEFINE P4 == D!Restarts(D!Config, D!ProfileOf(d_disk))
<1> DEFINE S4 == ({D!Reload} \cup (IF D!Config.mode = "paranoid3_helper" THEN {D!Step("restart",
      "helper")} ELSE {}) \cup (IF D!ProfileOf(d_disk) = "full_diagnostics" THEN {D!Step("restart",
      "trace")} ELSE {}) \cup {D!Step("restart", "collector")})
<1> DEFINE P5 == <<D!Wait(IF D!ProfileOf(d_disk) = "full_diagnostics" THEN "full_diagnostics" ELSE "any")>>
<1> DEFINE S5 == {D!Wait(IF D!ProfileOf(d_disk) = "full_diagnostics" THEN "full_diagnostics" ELSE "any")}
<1>1. Segment(P1, 1, 2) /\ StepsOf(P1) = S1
  <2>t. CASE D!StaleHelper
    BY <2>t, PairSegment, StepStages, SegmentWiden, StageOrder DEF D!When
  <2>f. CASE ~(D!StaleHelper)
    <3>t. CASE D!Present("helper") /\ d_disk["helper"] # D!HelperUnit(D!Config)
      BY <2>f, <3>t, SingleAt, StepStages, StageOrder, SegmentWiden, StageOrder DEF D!When
    <3>f. CASE ~(D!Present("helper") /\ d_disk["helper"] # D!HelperUnit(D!Config))
      BY <2>f, <3>f, EmptySegment DEF D!When
    <3> QED BY <3>t, <3>f
  <2> QED BY <2>t, <2>f
<1>2. Segment(P2, 2, 2) /\ StepsOf(P2) = S2
  <2>t. CASE D!ProfileOf(d_disk) = "full_diagnostics" /\ d_disk["trace"] # D!TraceUnit(D!Config,
          d_disk["tracePolicy"])
    BY <2>t, SingleAt, StepStages, StageOrder, SegmentWiden, StageOrder DEF D!When
  <2>f. CASE ~(D!ProfileOf(d_disk) = "full_diagnostics" /\ d_disk["trace"] # D!TraceUnit(D!Config,
          d_disk["tracePolicy"]))
    BY <2>f, EmptySegment DEF D!When
  <2> QED BY <2>t, <2>f
<1>3. Segment(P3, 2, 2) /\ StepsOf(P3) = S3
  <2>t. CASE d_disk["collector"] # D!CollectorUnit(D!Config.mode, D!ProfileOf(d_disk))
    BY <2>t, SingleAt, StepStages, StageOrder, SegmentWiden, StageOrder DEF D!When
  <2>f. CASE ~(d_disk["collector"] # D!CollectorUnit(D!Config.mode, D!ProfileOf(d_disk)))
    BY <2>f, EmptySegment DEF D!When
  <2> QED BY <2>t, <2>f
<1>4. Segment(P4, 2, 4) /\ StepsOf(P4) = S4
  BY RestartSteps, SegmentWiden, StageOrder
<1>5. Segment(P5, 4, 5) /\ StepsOf(P5) = S5
  BY SingleAt, StepStages, StageOrder, SegmentWiden, StageOrder
<1> HIDE DEF P1, S1, P2, S2, P3, S3, P4, S4, P5, S5
<1>c2. Segment(Join(P1, P2), 1, 2) /\ StepsOf(Join(P1, P2)) = S1 \cup S2
  BY <1>1, <1>2, SegmentJoin, StageOrder
<1>c3. Segment(Join(Join(P1, P2), P3), 1, 2) /\ StepsOf(Join(Join(P1, P2), P3)) = S1 \cup S2 \cup S3
  BY <1>c2, <1>3, SegmentJoin, StageOrder
<1>c4. Segment(Join(Join(Join(P1, P2), P3), P4), 1, 4) /\ StepsOf(Join(Join(Join(P1, P2), P3),
         P4)) = S1 \cup S2 \cup S3 \cup S4
  BY <1>c3, <1>4, SegmentJoin, StageOrder
<1>c5. Segment(Join(Join(Join(Join(P1, P2), P3), P4), P5), 1, 5) /\ StepsOf(Join(Join(Join(Join(P1,
         P2), P3), P4), P5)) = S1 \cup S2 \cup S3 \cup S4 \cup S5
  BY <1>c4, <1>5, SegmentJoin, StageOrder
<1> QED BY <1>c5 DEF Join, P1, S1, P2, S2, P3, S3, P4, S4, P5, S5, D!UpgradeProgram

LEMMA PolicySteps ==
    ASSUME NEW c
    PROVE  /\ Segment(D!UpdatePolicyProgram(c), 2, 5)
           /\ StepsOf(D!UpdatePolicyProgram(c)) =
                 {D!Write("config", c), D!Step("restart", "collector"), D!Wait("any")}
BY TripleSegment, StepStages DEF D!UpdatePolicyProgram

LEMMA GrantCommandSteps ==
    ASSUME NEW d
    PROVE  Segment(D!GrantCommands(d), 3, 5)
           /\ StepsOf(D!GrantCommands(d)) =
                  {D!Reload}
                  \cup (IF d["config"].mode = "paranoid3_helper" THEN {D!Step("restart", "helper")} ELSE {})
                  \cup (IF d["trace"] # D!Missing THEN {D!Step("restart", "trace")} ELSE {})
                  \cup {D!Step("restart", "collector")} \cup {D!Wait("any")}
<1> DEFINE profile == IF d["trace"] # D!Missing THEN "full_diagnostics" ELSE "cpu_only"
<1> DEFINE P == D!Restarts(d["config"], profile)
<1>1. profile = "full_diagnostics" <=> d["trace"] # D!Missing
  OBVIOUS
<1>2. D!GrantCommands(d) = Join(P, <<D!Wait("any")>>)
  BY DEF D!GrantCommands, Join
<1> HIDE DEF profile
<1>3. /\ Segment(P, 3, 4)
      /\ StepsOf(P) =
            {D!Reload}
            \cup (IF d["config"].mode = "paranoid3_helper" THEN {D!Step("restart", "helper")} ELSE {})
            \cup (IF profile = "full_diagnostics" THEN {D!Step("restart", "trace")} ELSE {})
            \cup {D!Step("restart", "collector")}
  BY RestartSteps
<1>4. Segment(<<D!Wait("any")>>, 4, 5) /\ StepsOf(<<D!Wait("any")>>) = {D!Wait("any")}
  BY SingleAt, StepStages, StageOrder
<1> HIDE DEF P
<1>5. Segment(Join(P, <<D!Wait("any")>>), 3, 5)
      /\ StepsOf(Join(P, <<D!Wait("any")>>)) = StepsOf(P) \cup {D!Wait("any")}
  BY <1>3, <1>4, SegmentJoin, StageOrder
<1> QED BY <1>1, <1>2, <1>3, <1>5

LEMMA GrantSteps ==
    ASSUME NEW c
    PROVE  Segment(D!UpdateGrantProgram(c), 2, 5)
           /\ StepsOf(D!UpdateGrantProgram(c)) =
                  {D!Write("helper", D!HelperUnit(c))}
                  \cup (IF D!Present("trace") THEN {D!Write("trace", D!TraceUnit(c,
                      d_disk["tracePolicy"]))} ELSE {})
                  \cup {D!Write("config", c)}
                  \cup ({D!Reload} \cup (IF d_disk["config"].mode = "paranoid3_helper"
                      THEN {D!Step("restart", "helper")} ELSE {})
                      \cup (IF d_disk["trace"] # D!Missing THEN {D!Step("restart", "trace")}
                      ELSE {}) \cup {D!Step("restart", "collector")} \cup {D!Wait("any")})
<1> DEFINE P1 == <<D!Write("helper", D!HelperUnit(c))>>
<1> DEFINE S1 == {D!Write("helper", D!HelperUnit(c))}
<1> DEFINE P2 == D!When(D!Present("trace"), <<D!Write("trace", D!TraceUnit(c, d_disk["tracePolicy"]))>>)
<1> DEFINE S2 == (IF D!Present("trace") THEN {D!Write("trace", D!TraceUnit(c,
      d_disk["tracePolicy"]))} ELSE {})
<1> DEFINE P3 == <<D!Write("config", c)>>
<1> DEFINE S3 == {D!Write("config", c)}
<1> DEFINE P4 == D!GrantCommands(d_disk)
<1> DEFINE S4 == ({D!Reload} \cup (IF d_disk["config"].mode = "paranoid3_helper"
      THEN {D!Step("restart", "helper")} ELSE {}) \cup (IF d_disk["trace"] # D!Missing
      THEN {D!Step("restart", "trace")} ELSE {}) \cup {D!Step("restart", "collector")}
      \cup {D!Wait("any")})
<1>1. Segment(P1, 2, 2) /\ StepsOf(P1) = S1
  BY SingleAt, StepStages, StageOrder
<1>2. Segment(P2, 2, 2) /\ StepsOf(P2) = S2
  <2>t. CASE D!Present("trace")
    BY <2>t, SingleAt, StepStages, StageOrder, SegmentWiden, StageOrder DEF D!When
  <2>f. CASE ~(D!Present("trace"))
    BY <2>f, EmptySegment DEF D!When
  <2> QED BY <2>t, <2>f
<1>3. Segment(P3, 2, 2) /\ StepsOf(P3) = S3
  BY SingleAt, StepStages, StageOrder
<1>4. Segment(P4, 2, 5) /\ StepsOf(P4) = S4
  BY GrantCommandSteps, SegmentWiden, StageOrder
<1> HIDE DEF P1, S1, P2, S2, P3, S3, P4, S4
<1>c2. Segment(Join(P1, P2), 2, 2) /\ StepsOf(Join(P1, P2)) = S1 \cup S2
  BY <1>1, <1>2, SegmentJoin, StageOrder
<1>c3. Segment(Join(Join(P1, P2), P3), 2, 2) /\ StepsOf(Join(Join(P1, P2), P3)) = S1 \cup S2 \cup S3
  BY <1>c2, <1>3, SegmentJoin, StageOrder
<1>c4. Segment(Join(Join(Join(P1, P2), P3), P4), 2, 5) /\ StepsOf(Join(Join(Join(P1, P2), P3),
         P4)) = S1 \cup S2 \cup S3 \cup S4
  BY <1>c3, <1>4, SegmentJoin, StageOrder
<1> QED BY <1>c4 DEF Join, P1, S1, P2, S2, P3, S3, P4, S4, D!UpdateGrantProgram

LEMMA UndeploySteps ==
    /\ Segment(D!UndeployProgram, 1, 3)
    /\ StepsOf(D!UndeployProgram) =
          (IF D!Present("collector") THEN {D!Step("disable", "collector")} ELSE {})
          \cup (IF D!Present("trace") THEN {D!Step("disable", "trace")} ELSE {})
          \cup (IF D!Present("helper") THEN {D!Step("disable", "helper")} ELSE {})
          \cup (IF D!Present("collector") THEN {D!Remove("collector")} ELSE {})
          \cup (IF D!Present("helper") THEN {D!Remove("helper")} ELSE {})
          \cup (IF D!Present("trace") THEN {D!Remove("trace")} ELSE {})
          \cup {D!Reload}
<1> DEFINE P1 == D!When(D!Present("collector"), <<D!Step("disable", "collector")>>)
<1> DEFINE S1 == (IF D!Present("collector") THEN {D!Step("disable", "collector")} ELSE {})
<1> DEFINE P2 == D!When(D!Present("trace"), <<D!Step("disable", "trace")>>)
<1> DEFINE S2 == (IF D!Present("trace") THEN {D!Step("disable", "trace")} ELSE {})
<1> DEFINE P3 == D!When(D!Present("helper"), <<D!Step("disable", "helper")>>)
<1> DEFINE S3 == (IF D!Present("helper") THEN {D!Step("disable", "helper")} ELSE {})
<1> DEFINE P4 == D!When(D!Present("collector"), <<D!Remove("collector")>>)
<1> DEFINE S4 == (IF D!Present("collector") THEN {D!Remove("collector")} ELSE {})
<1> DEFINE P5 == D!When(D!Present("helper"), <<D!Remove("helper")>>)
<1> DEFINE S5 == (IF D!Present("helper") THEN {D!Remove("helper")} ELSE {})
<1> DEFINE P6 == D!When(D!Present("trace"), <<D!Remove("trace")>>)
<1> DEFINE S6 == (IF D!Present("trace") THEN {D!Remove("trace")} ELSE {})
<1> DEFINE P7 == <<D!Reload>>
<1> DEFINE S7 == {D!Reload}
<1>1. Segment(P1, 1, 1) /\ StepsOf(P1) = S1
  <2>t. CASE D!Present("collector")
    BY <2>t, SingleAt, StepStages, StageOrder, SegmentWiden, StageOrder DEF D!When
  <2>f. CASE ~(D!Present("collector"))
    BY <2>f, EmptySegment DEF D!When
  <2> QED BY <2>t, <2>f
<1>2. Segment(P2, 1, 1) /\ StepsOf(P2) = S2
  <2>t. CASE D!Present("trace")
    BY <2>t, SingleAt, StepStages, StageOrder, SegmentWiden, StageOrder DEF D!When
  <2>f. CASE ~(D!Present("trace"))
    BY <2>f, EmptySegment DEF D!When
  <2> QED BY <2>t, <2>f
<1>3. Segment(P3, 1, 1) /\ StepsOf(P3) = S3
  <2>t. CASE D!Present("helper")
    BY <2>t, SingleAt, StepStages, StageOrder, SegmentWiden, StageOrder DEF D!When
  <2>f. CASE ~(D!Present("helper"))
    BY <2>f, EmptySegment DEF D!When
  <2> QED BY <2>t, <2>f
<1>4. Segment(P4, 1, 2) /\ StepsOf(P4) = S4
  <2>t. CASE D!Present("collector")
    BY <2>t, SingleAt, StepStages, StageOrder, SegmentWiden, StageOrder DEF D!When
  <2>f. CASE ~(D!Present("collector"))
    BY <2>f, EmptySegment DEF D!When
  <2> QED BY <2>t, <2>f
<1>5. Segment(P5, 2, 2) /\ StepsOf(P5) = S5
  <2>t. CASE D!Present("helper")
    BY <2>t, SingleAt, StepStages, StageOrder, SegmentWiden, StageOrder DEF D!When
  <2>f. CASE ~(D!Present("helper"))
    BY <2>f, EmptySegment DEF D!When
  <2> QED BY <2>t, <2>f
<1>6. Segment(P6, 2, 2) /\ StepsOf(P6) = S6
  <2>t. CASE D!Present("trace")
    BY <2>t, SingleAt, StepStages, StageOrder, SegmentWiden, StageOrder DEF D!When
  <2>f. CASE ~(D!Present("trace"))
    BY <2>f, EmptySegment DEF D!When
  <2> QED BY <2>t, <2>f
<1>7. Segment(P7, 2, 3) /\ StepsOf(P7) = S7
  BY SingleAt, StepStages, StageOrder, SegmentWiden, StageOrder
<1> HIDE DEF P1, S1, P2, S2, P3, S3, P4, S4, P5, S5, P6, S6, P7, S7
<1>c2. Segment(Join(P1, P2), 1, 1) /\ StepsOf(Join(P1, P2)) = S1 \cup S2
  BY <1>1, <1>2, SegmentJoin, StageOrder
<1>c3. Segment(Join(Join(P1, P2), P3), 1, 1) /\ StepsOf(Join(Join(P1, P2), P3)) = S1 \cup S2 \cup S3
  BY <1>c2, <1>3, SegmentJoin, StageOrder
<1>c4. Segment(Join(Join(Join(P1, P2), P3), P4), 1, 2) /\ StepsOf(Join(Join(Join(P1, P2), P3),
         P4)) = S1 \cup S2 \cup S3 \cup S4
  BY <1>c3, <1>4, SegmentJoin, StageOrder
<1>c5. Segment(Join(Join(Join(Join(P1, P2), P3), P4), P5), 1, 2) /\ StepsOf(Join(Join(Join(Join(P1,
         P2), P3), P4), P5)) = S1 \cup S2 \cup S3 \cup S4 \cup S5
  BY <1>c4, <1>5, SegmentJoin, StageOrder
<1>c6. Segment(Join(Join(Join(Join(Join(P1, P2), P3), P4), P5), P6), 1, 2)
         /\ StepsOf(Join(Join(Join(Join(Join(P1, P2), P3), P4), P5), P6)) = S1 \cup S2 \cup S3
         \cup S4 \cup S5 \cup S6
  BY <1>c5, <1>6, SegmentJoin, StageOrder
<1>c7. Segment(Join(Join(Join(Join(Join(Join(P1, P2), P3), P4), P5), P6), P7), 1, 3)
         /\ StepsOf(Join(Join(Join(Join(Join(Join(P1, P2), P3), P4), P5), P6), P7)) = S1 \cup S2
         \cup S3 \cup S4 \cup S5 \cup S6 \cup S7
  BY <1>c6, <1>7, SegmentJoin, StageOrder
<1> QED BY <1>c7 DEF Join, P1, S1, P2, S2, P3, S3, P4, S4, P5, S5, P6, S6, P7, S7, D!UndeployProgram

LEMMA DeploySteps ==
    ASSUME NEW c
    PROVE  Segment(D!DeployProgram(c), 2, 5)
           /\ StepsOf(D!DeployProgram(c)) =
                  {D!Tool, D!Install("config", c), D!Install("collector", D!CollectorUnit(c.mode,
                      "cpu_only"))}
                  \cup (IF c.mode = "paranoid3_helper" THEN {D!Install("helper", D!HelperUnit(c))} ELSE {})
                  \cup {D!Tool}
                  \cup ({D!Reload} \cup (IF c.mode = "paranoid3_helper" THEN {D!Step("enable",
                      "helper")} ELSE {}) \cup {D!Step("enable", "collector")})
                  \cup {D!Wait("any")}
<1> DEFINE P1 == <<D!Tool, D!Install("config", c), D!Install("collector", D!CollectorUnit(c.mode,
      "cpu_only"))>>
<1> DEFINE S1 == {D!Tool, D!Install("config", c), D!Install("collector", D!CollectorUnit(c.mode, "cpu_only"))}
<1> DEFINE P2 == D!When(c.mode = "paranoid3_helper", <<D!Install("helper", D!HelperUnit(c))>>)
<1> DEFINE S2 == (IF c.mode = "paranoid3_helper" THEN {D!Install("helper", D!HelperUnit(c))} ELSE {})
<1> DEFINE P3 == <<D!Tool>>
<1> DEFINE S3 == {D!Tool}
<1> DEFINE P4 == D!StartCommands(c.mode)
<1> DEFINE S4 == ({D!Reload} \cup (IF c.mode = "paranoid3_helper" THEN {D!Step("enable", "helper")}
      ELSE {}) \cup {D!Step("enable", "collector")})
<1> DEFINE P5 == <<D!Wait("any")>>
<1> DEFINE S5 == {D!Wait("any")}
<1>1. Segment(P1, 2, 2) /\ StepsOf(P1) = S1
  BY TripleSegment, StepStages
<1>2. Segment(P2, 2, 2) /\ StepsOf(P2) = S2
  <2>t. CASE c.mode = "paranoid3_helper"
    BY <2>t, SingleAt, StepStages, StageOrder, SegmentWiden, StageOrder DEF D!When
  <2>f. CASE ~(c.mode = "paranoid3_helper")
    BY <2>f, EmptySegment DEF D!When
  <2> QED BY <2>t, <2>f
<1>3. Segment(P3, 2, 2) /\ StepsOf(P3) = S3
  BY SingleAt, StepStages, StageOrder
<1>4. Segment(P4, 2, 4) /\ StepsOf(P4) = S4
  BY StartSteps, SegmentWiden, StageOrder
<1>5. Segment(P5, 4, 5) /\ StepsOf(P5) = S5
  BY SingleAt, StepStages, StageOrder, SegmentWiden, StageOrder
<1> HIDE DEF P1, S1, P2, S2, P3, S3, P4, S4, P5, S5
<1>c2. Segment(Join(P1, P2), 2, 2) /\ StepsOf(Join(P1, P2)) = S1 \cup S2
  BY <1>1, <1>2, SegmentJoin, StageOrder
<1>c3. Segment(Join(Join(P1, P2), P3), 2, 2) /\ StepsOf(Join(Join(P1, P2), P3)) = S1 \cup S2 \cup S3
  BY <1>c2, <1>3, SegmentJoin, StageOrder
<1>c4. Segment(Join(Join(Join(P1, P2), P3), P4), 2, 4) /\ StepsOf(Join(Join(Join(P1, P2), P3),
         P4)) = S1 \cup S2 \cup S3 \cup S4
  BY <1>c3, <1>4, SegmentJoin, StageOrder
<1>c5. Segment(Join(Join(Join(Join(P1, P2), P3), P4), P5), 2, 5) /\ StepsOf(Join(Join(Join(Join(P1,
         P2), P3), P4), P5)) = S1 \cup S2 \cup S3 \cup S4 \cup S5
  BY <1>c4, <1>5, SegmentJoin, StageOrder
<1> QED BY <1>c5 DEF Join, P1, S1, P2, S2, P3, S3, P4, S4, P5, S5, D!DeployProgram

\* A rollback puts a file back or removes what was not there.
RestoreSteps(f, o, d) ==
    IF o.before[f] = D!Missing THEN IF d[f] # D!Missing THEN {D!Remove(f)} ELSE {}
    ELSE {D!Write(f, o.before[f])}

LEMMA RestoreSegment ==
    ASSUME NEW f, NEW o, NEW d
    PROVE  Segment(D!Restore(f, o, d), 2, 2) /\ StepsOf(D!Restore(f, o, d)) = RestoreSteps(f, o, d)
<1>1. CASE o.before[f] = D!Missing /\ d[f] # D!Missing
  <2>1. D!Restore(f, o, d) = <<D!Remove(f)>> /\ RestoreSteps(f, o, d) = {D!Remove(f)}
    BY <1>1 DEF D!Restore, D!When, RestoreSteps
  <2> QED BY <2>1, SingleAt, StepStages, StageOrder
<1>2. CASE o.before[f] = D!Missing /\ d[f] = D!Missing
  <2>1. D!Restore(f, o, d) = <<>> /\ RestoreSteps(f, o, d) = {}
    BY <1>2 DEF D!Restore, D!When, RestoreSteps
  <2> QED BY <2>1, EmptySegment
<1>3. CASE o.before[f] # D!Missing
  <2>1. D!Restore(f, o, d) = <<D!Write(f, o.before[f])>> /\ RestoreSteps(f, o, d) = {D!Write(f, o.before[f])}
    BY <1>3 DEF D!Restore, RestoreSteps
  <2> QED BY <2>1, SingleAt, StepStages, StageOrder
<1> QED BY <1>1, <1>2, <1>3

LEMMA ModeRollbackSteps ==
    ASSUME NEW o, NEW d
    PROVE  Segment(D!RollbackModeSwitch(o, d), 1, 5)
           /\ StepsOf(D!RollbackModeSwitch(o, d)) =
                  {D!Step("disable", "collector")}
                  \cup (IF o.before["config"].mode = "cap_perfmon" THEN {D!Step("disable", "helper")} ELSE {})
                  \cup RestoreSteps("config", o, d)
                  \cup RestoreSteps("collector", o, d)
                  \cup RestoreSteps("helper", o, d)
                  \cup ({D!Reload} \cup (IF o.before["config"].mode = "paranoid3_helper"
                      THEN {D!Step("enable", "helper")} ELSE {}) \cup {D!Step("enable", "collector")})
                  \cup {D!Wait(D!ProfileOf(o.before))}
<1> DEFINE P1 == <<D!Step("disable", "collector")>>
<1> DEFINE S1 == {D!Step("disable", "collector")}
<1> DEFINE P2 == D!When(o.before["config"].mode = "cap_perfmon", <<D!Step("disable", "helper")>>)
<1> DEFINE S2 == (IF o.before["config"].mode = "cap_perfmon" THEN {D!Step("disable", "helper")} ELSE {})
<1> DEFINE P3 == D!Restore("config", o, d)
<1> DEFINE S3 == RestoreSteps("config", o, d)
<1> DEFINE P4 == D!Restore("collector", o, d)
<1> DEFINE S4 == RestoreSteps("collector", o, d)
<1> DEFINE P5 == D!Restore("helper", o, d)
<1> DEFINE S5 == RestoreSteps("helper", o, d)
<1> DEFINE P6 == D!StartCommands(o.before["config"].mode)
<1> DEFINE S6 == ({D!Reload} \cup (IF o.before["config"].mode = "paranoid3_helper"
      THEN {D!Step("enable", "helper")} ELSE {}) \cup {D!Step("enable", "collector")})
<1> DEFINE P7 == <<D!Wait(D!ProfileOf(o.before))>>
<1> DEFINE S7 == {D!Wait(D!ProfileOf(o.before))}
<1>1. Segment(P1, 1, 1) /\ StepsOf(P1) = S1
  BY SingleAt, StepStages, StageOrder
<1>2. Segment(P2, 1, 1) /\ StepsOf(P2) = S2
  <2>t. CASE o.before["config"].mode = "cap_perfmon"
    BY <2>t, SingleAt, StepStages, StageOrder, SegmentWiden, StageOrder DEF D!When
  <2>f. CASE ~(o.before["config"].mode = "cap_perfmon")
    BY <2>f, EmptySegment DEF D!When
  <2> QED BY <2>t, <2>f
<1>3. Segment(P3, 1, 2) /\ StepsOf(P3) = S3
  BY RestoreSegment, SegmentWiden, StageOrder
<1>4. Segment(P4, 2, 2) /\ StepsOf(P4) = S4
  BY RestoreSegment
<1>5. Segment(P5, 2, 2) /\ StepsOf(P5) = S5
  BY RestoreSegment
<1>6. Segment(P6, 2, 4) /\ StepsOf(P6) = S6
  BY StartSteps, SegmentWiden, StageOrder
<1>7. Segment(P7, 4, 5) /\ StepsOf(P7) = S7
  BY SingleAt, StepStages, StageOrder, SegmentWiden, StageOrder
<1> HIDE DEF P1, S1, P2, S2, P3, S3, P4, S4, P5, S5, P6, S6, P7, S7
<1>c2. Segment(Join(P1, P2), 1, 1) /\ StepsOf(Join(P1, P2)) = S1 \cup S2
  BY <1>1, <1>2, SegmentJoin, StageOrder
<1>c3. Segment(Join(Join(P1, P2), P3), 1, 2) /\ StepsOf(Join(Join(P1, P2), P3)) = S1 \cup S2 \cup S3
  BY <1>c2, <1>3, SegmentJoin, StageOrder
<1>c4. Segment(Join(Join(Join(P1, P2), P3), P4), 1, 2) /\ StepsOf(Join(Join(Join(P1, P2), P3),
         P4)) = S1 \cup S2 \cup S3 \cup S4
  BY <1>c3, <1>4, SegmentJoin, StageOrder
<1>c5. Segment(Join(Join(Join(Join(P1, P2), P3), P4), P5), 1, 2) /\ StepsOf(Join(Join(Join(Join(P1,
         P2), P3), P4), P5)) = S1 \cup S2 \cup S3 \cup S4 \cup S5
  BY <1>c4, <1>5, SegmentJoin, StageOrder
<1>c6. Segment(Join(Join(Join(Join(Join(P1, P2), P3), P4), P5), P6), 1, 4)
         /\ StepsOf(Join(Join(Join(Join(Join(P1, P2), P3), P4), P5), P6)) = S1 \cup S2 \cup S3
         \cup S4 \cup S5 \cup S6
  BY <1>c5, <1>6, SegmentJoin, StageOrder
<1>c7. Segment(Join(Join(Join(Join(Join(Join(P1, P2), P3), P4), P5), P6), P7), 1, 5)
         /\ StepsOf(Join(Join(Join(Join(Join(Join(P1, P2), P3), P4), P5), P6), P7)) = S1 \cup S2
         \cup S3 \cup S4 \cup S5 \cup S6 \cup S7
  BY <1>c6, <1>7, SegmentJoin, StageOrder
<1> QED BY <1>c7 DEF Join, P1, S1, P2, S2, P3, S3, P4, S4, P5, S5, P6, S6, P7, S7, D!RollbackModeSwitch

LEMMA ProfileRollbackSteps ==
    ASSUME NEW o, NEW d
    PROVE  Segment(D!RollbackProfileSwitch(o, d), 1, 5)
           /\ StepsOf(D!RollbackProfileSwitch(o, d)) =
                  {D!Tolerated(D!Step("stop", "collector")), D!Tolerated(D!Step("disable", "trace"))}
                  \cup RestoreSteps("collector", o, d)
                  \cup RestoreSteps("trace", o, d)
                  \cup RestoreSteps("profile", o, d)
                  \cup RestoreSteps("tracePolicy", o, d)
                  \cup {D!Reload}
                  \cup (IF D!ProfileOf(o.before) = "full_diagnostics" THEN {D!Step("enable",
                      "trace")} ELSE {})
                  \cup {D!Step("enable", "collector"), D!Wait(D!ProfileOf(o.before))}
<1> DEFINE P1 == <<D!Tolerated(D!Step("stop", "collector")), D!Tolerated(D!Step("disable", "trace"))>>
<1> DEFINE S1 == {D!Tolerated(D!Step("stop", "collector")), D!Tolerated(D!Step("disable", "trace"))}
<1> DEFINE P2 == D!Restore("collector", o, d)
<1> DEFINE S2 == RestoreSteps("collector", o, d)
<1> DEFINE P3 == D!Restore("trace", o, d)
<1> DEFINE S3 == RestoreSteps("trace", o, d)
<1> DEFINE P4 == D!Restore("profile", o, d)
<1> DEFINE S4 == RestoreSteps("profile", o, d)
<1> DEFINE P5 == D!Restore("tracePolicy", o, d)
<1> DEFINE S5 == RestoreSteps("tracePolicy", o, d)
<1> DEFINE P6 == <<D!Reload>>
<1> DEFINE S6 == {D!Reload}
<1> DEFINE P7 == D!When(D!ProfileOf(o.before) = "full_diagnostics", <<D!Step("enable", "trace")>>)
<1> DEFINE S7 == (IF D!ProfileOf(o.before) = "full_diagnostics" THEN {D!Step("enable", "trace")} ELSE {})
<1> DEFINE P8 == <<D!Step("enable", "collector"), D!Wait(D!ProfileOf(o.before))>>
<1> DEFINE S8 == {D!Step("enable", "collector"), D!Wait(D!ProfileOf(o.before))}
<1>1. Segment(P1, 1, 1) /\ StepsOf(P1) = S1
  BY PairSegment, StepStages
<1>2. Segment(P2, 1, 2) /\ StepsOf(P2) = S2
  BY RestoreSegment, SegmentWiden, StageOrder
<1>3. Segment(P3, 2, 2) /\ StepsOf(P3) = S3
  BY RestoreSegment
<1>4. Segment(P4, 2, 2) /\ StepsOf(P4) = S4
  BY RestoreSegment
<1>5. Segment(P5, 2, 2) /\ StepsOf(P5) = S5
  BY RestoreSegment
<1>6. Segment(P6, 2, 3) /\ StepsOf(P6) = S6
  BY SingleAt, StepStages, StageOrder, SegmentWiden, StageOrder
<1>7. Segment(P7, 3, 4) /\ StepsOf(P7) = S7
  <2>t. CASE D!ProfileOf(o.before) = "full_diagnostics"
    BY <2>t, SingleAt, StepStages, StageOrder, SegmentWiden, StageOrder DEF D!When
  <2>f. CASE ~(D!ProfileOf(o.before) = "full_diagnostics")
    BY <2>f, EmptySegment DEF D!When
  <2> QED BY <2>t, <2>f
<1>8. Segment(P8, 4, 5) /\ StepsOf(P8) = S8
  BY PairSegment, StepStages
<1> HIDE DEF P1, S1, P2, S2, P3, S3, P4, S4, P5, S5, P6, S6, P7, S7, P8, S8
<1>c2. Segment(Join(P1, P2), 1, 2) /\ StepsOf(Join(P1, P2)) = S1 \cup S2
  BY <1>1, <1>2, SegmentJoin, StageOrder
<1>c3. Segment(Join(Join(P1, P2), P3), 1, 2) /\ StepsOf(Join(Join(P1, P2), P3)) = S1 \cup S2 \cup S3
  BY <1>c2, <1>3, SegmentJoin, StageOrder
<1>c4. Segment(Join(Join(Join(P1, P2), P3), P4), 1, 2) /\ StepsOf(Join(Join(Join(P1, P2), P3),
         P4)) = S1 \cup S2 \cup S3 \cup S4
  BY <1>c3, <1>4, SegmentJoin, StageOrder
<1>c5. Segment(Join(Join(Join(Join(P1, P2), P3), P4), P5), 1, 2) /\ StepsOf(Join(Join(Join(Join(P1,
         P2), P3), P4), P5)) = S1 \cup S2 \cup S3 \cup S4 \cup S5
  BY <1>c4, <1>5, SegmentJoin, StageOrder
<1>c6. Segment(Join(Join(Join(Join(Join(P1, P2), P3), P4), P5), P6), 1, 3)
         /\ StepsOf(Join(Join(Join(Join(Join(P1, P2), P3), P4), P5), P6)) = S1 \cup S2 \cup S3
         \cup S4 \cup S5 \cup S6
  BY <1>c5, <1>6, SegmentJoin, StageOrder
<1>c7. Segment(Join(Join(Join(Join(Join(Join(P1, P2), P3), P4), P5), P6), P7), 1, 4)
         /\ StepsOf(Join(Join(Join(Join(Join(Join(P1, P2), P3), P4), P5), P6), P7)) = S1 \cup S2
         \cup S3 \cup S4 \cup S5 \cup S6 \cup S7
  BY <1>c6, <1>7, SegmentJoin, StageOrder
<1>c8. Segment(Join(Join(Join(Join(Join(Join(Join(P1, P2), P3), P4), P5), P6), P7), P8), 1, 5)
         /\ StepsOf(Join(Join(Join(Join(Join(Join(Join(P1, P2), P3), P4), P5), P6), P7), P8)) = S1
         \cup S2 \cup S3 \cup S4 \cup S5 \cup S6 \cup S7 \cup S8
  BY <1>c7, <1>8, SegmentJoin, StageOrder
<1> QED BY <1>c8 DEF Join, P1, S1, P2, S2, P3, S3, P4, S4, P5, S5, P6, S6, P7, S7, P8, S8,
      D!RollbackProfileSwitch

LEMMA UpgradeRollbackSteps ==
    ASSUME NEW o
    PROVE  Segment(D!RollbackUpgrade(o), 2, 4)
           /\ StepsOf(D!RollbackUpgrade(o)) =
                  (IF "collector" \in D!Replaced(o) THEN {D!Write("collector",
                      o.before["collector"])} ELSE {})
                  \cup (IF "trace" \in D!Replaced(o) THEN {D!Write("trace", o.before["trace"])} ELSE {})
                  \cup (IF "helper" \in D!Replaced(o) \/ D!Remove("helper") \in D!Done(o)
                      THEN {D!Write("helper", o.before["helper"])} ELSE {})
                  \cup ({D!Reload} \cup (IF o.before["config"].mode = "paranoid3_helper"
                      THEN {D!Step("restart", "helper")} ELSE {})
                      \cup (IF D!ProfileOf(o.before) = "full_diagnostics" THEN {D!Step("restart",
                      "trace")} ELSE {}) \cup {D!Step("restart", "collector")})
<1> DEFINE P1 == D!When("collector" \in D!Replaced(o), <<D!Write("collector", o.before["collector"])>>)
<1> DEFINE S1 == (IF "collector" \in D!Replaced(o) THEN {D!Write("collector", o.before["collector"])} ELSE {})
<1> DEFINE P2 == D!When("trace" \in D!Replaced(o), <<D!Write("trace", o.before["trace"])>>)
<1> DEFINE S2 == (IF "trace" \in D!Replaced(o) THEN {D!Write("trace", o.before["trace"])} ELSE {})
<1> DEFINE P3 == D!When("helper" \in D!Replaced(o) \/ D!Remove("helper") \in D!Done(o),
      <<D!Write("helper", o.before["helper"])>>)
<1> DEFINE S3 == (IF "helper" \in D!Replaced(o) \/ D!Remove("helper") \in D!Done(o)
      THEN {D!Write("helper", o.before["helper"])} ELSE {})
<1> DEFINE P4 == D!Restarts(o.before["config"], D!ProfileOf(o.before))
<1> DEFINE S4 == ({D!Reload} \cup (IF o.before["config"].mode = "paranoid3_helper"
      THEN {D!Step("restart", "helper")} ELSE {})
      \cup (IF D!ProfileOf(o.before) = "full_diagnostics" THEN {D!Step("restart", "trace")} ELSE {})
      \cup {D!Step("restart", "collector")})
<1>1. Segment(P1, 2, 2) /\ StepsOf(P1) = S1
  <2>t. CASE "collector" \in D!Replaced(o)
    BY <2>t, SingleAt, StepStages, StageOrder, SegmentWiden, StageOrder DEF D!When
  <2>f. CASE ~("collector" \in D!Replaced(o))
    BY <2>f, EmptySegment DEF D!When
  <2> QED BY <2>t, <2>f
<1>2. Segment(P2, 2, 2) /\ StepsOf(P2) = S2
  <2>t. CASE "trace" \in D!Replaced(o)
    BY <2>t, SingleAt, StepStages, StageOrder, SegmentWiden, StageOrder DEF D!When
  <2>f. CASE ~("trace" \in D!Replaced(o))
    BY <2>f, EmptySegment DEF D!When
  <2> QED BY <2>t, <2>f
<1>3. Segment(P3, 2, 2) /\ StepsOf(P3) = S3
  <2>t. CASE "helper" \in D!Replaced(o) \/ D!Remove("helper") \in D!Done(o)
    BY <2>t, SingleAt, StepStages, StageOrder, SegmentWiden, StageOrder DEF D!When
  <2>f. CASE ~("helper" \in D!Replaced(o) \/ D!Remove("helper") \in D!Done(o))
    BY <2>f, EmptySegment DEF D!When
  <2> QED BY <2>t, <2>f
<1>4. Segment(P4, 2, 4) /\ StepsOf(P4) = S4
  BY RestartSteps, SegmentWiden, StageOrder
<1> HIDE DEF P1, S1, P2, S2, P3, S3, P4, S4
<1>c2. Segment(Join(P1, P2), 2, 2) /\ StepsOf(Join(P1, P2)) = S1 \cup S2
  BY <1>1, <1>2, SegmentJoin, StageOrder
<1>c3. Segment(Join(Join(P1, P2), P3), 2, 2) /\ StepsOf(Join(Join(P1, P2), P3)) = S1 \cup S2 \cup S3
  BY <1>c2, <1>3, SegmentJoin, StageOrder
<1>c4. Segment(Join(Join(Join(P1, P2), P3), P4), 2, 4) /\ StepsOf(Join(Join(Join(P1, P2), P3),
         P4)) = S1 \cup S2 \cup S3 \cup S4
  BY <1>c3, <1>4, SegmentJoin, StageOrder
<1> QED BY <1>c4 DEF Join, P1, S1, P2, S2, P3, S3, P4, S4, D!RollbackUpgrade

LEMMA GrantRollbackSteps ==
    ASSUME NEW o
    PROVE  Segment(D!RollbackGrant(o), 2, 5)
           /\ StepsOf(D!RollbackGrant(o)) =
                  (IF "config" \in D!Replaced(o) THEN {D!Write("config", o.before["config"])} ELSE {})
                  \cup (IF "trace" \in D!Replaced(o) THEN {D!Write("trace", o.before["trace"])} ELSE {})
                  \cup (IF "helper" \in D!Replaced(o) THEN {D!Write("helper", o.before["helper"])} ELSE {})
                  \cup ({D!Reload} \cup (IF o.before["config"].mode = "paranoid3_helper"
                      THEN {D!Step("restart", "helper")} ELSE {})
                      \cup (IF o.before["trace"] # D!Missing THEN {D!Step("restart", "trace")}
                      ELSE {}) \cup {D!Step("restart", "collector")} \cup {D!Wait("any")})
<1> DEFINE P1 == D!When("config" \in D!Replaced(o), <<D!Write("config", o.before["config"])>>)
<1> DEFINE S1 == (IF "config" \in D!Replaced(o) THEN {D!Write("config", o.before["config"])} ELSE {})
<1> DEFINE P2 == D!When("trace" \in D!Replaced(o), <<D!Write("trace", o.before["trace"])>>)
<1> DEFINE S2 == (IF "trace" \in D!Replaced(o) THEN {D!Write("trace", o.before["trace"])} ELSE {})
<1> DEFINE P3 == D!When("helper" \in D!Replaced(o), <<D!Write("helper", o.before["helper"])>>)
<1> DEFINE S3 == (IF "helper" \in D!Replaced(o) THEN {D!Write("helper", o.before["helper"])} ELSE {})
<1> DEFINE P4 == D!GrantCommands(o.before)
<1> DEFINE S4 == ({D!Reload} \cup (IF o.before["config"].mode = "paranoid3_helper"
      THEN {D!Step("restart", "helper")} ELSE {}) \cup (IF o.before["trace"] # D!Missing
      THEN {D!Step("restart", "trace")} ELSE {}) \cup {D!Step("restart", "collector")}
      \cup {D!Wait("any")})
<1>1. Segment(P1, 2, 2) /\ StepsOf(P1) = S1
  <2>t. CASE "config" \in D!Replaced(o)
    BY <2>t, SingleAt, StepStages, StageOrder, SegmentWiden, StageOrder DEF D!When
  <2>f. CASE ~("config" \in D!Replaced(o))
    BY <2>f, EmptySegment DEF D!When
  <2> QED BY <2>t, <2>f
<1>2. Segment(P2, 2, 2) /\ StepsOf(P2) = S2
  <2>t. CASE "trace" \in D!Replaced(o)
    BY <2>t, SingleAt, StepStages, StageOrder, SegmentWiden, StageOrder DEF D!When
  <2>f. CASE ~("trace" \in D!Replaced(o))
    BY <2>f, EmptySegment DEF D!When
  <2> QED BY <2>t, <2>f
<1>3. Segment(P3, 2, 2) /\ StepsOf(P3) = S3
  <2>t. CASE "helper" \in D!Replaced(o)
    BY <2>t, SingleAt, StepStages, StageOrder, SegmentWiden, StageOrder DEF D!When
  <2>f. CASE ~("helper" \in D!Replaced(o))
    BY <2>f, EmptySegment DEF D!When
  <2> QED BY <2>t, <2>f
<1>4. Segment(P4, 2, 5) /\ StepsOf(P4) = S4
  BY GrantCommandSteps, SegmentWiden, StageOrder
<1> HIDE DEF P1, S1, P2, S2, P3, S3, P4, S4
<1>c2. Segment(Join(P1, P2), 2, 2) /\ StepsOf(Join(P1, P2)) = S1 \cup S2
  BY <1>1, <1>2, SegmentJoin, StageOrder
<1>c3. Segment(Join(Join(P1, P2), P3), 2, 2) /\ StepsOf(Join(Join(P1, P2), P3)) = S1 \cup S2 \cup S3
  BY <1>c2, <1>3, SegmentJoin, StageOrder
<1>c4. Segment(Join(Join(Join(P1, P2), P3), P4), 2, 5) /\ StepsOf(Join(Join(Join(P1, P2), P3),
         P4)) = S1 \cup S2 \cup S3 \cup S4
  BY <1>c3, <1>4, SegmentJoin, StageOrder
<1> QED BY <1>c4 DEF Join, P1, S1, P2, S2, P3, S3, P4, S4, D!RollbackGrant

Installed(o) ==
    {f \in D!Files : o.before[f] = D!Missing /\ \E s \in D!Done(o) : s.do = "install" /\ s.on = f}
Attempted(o) ==
    {u \in Installed(o) : D!Step("enable", u) \in D!Done(o) \cup {o.program[o.n + 1]}}

LEMMA DeployRollbackSteps ==
    ASSUME NEW o
    PROVE  Segment(D!RollbackDeployment(o), 1, 3)
           /\ StepsOf(D!RollbackDeployment(o)) =
                  (IF "collector" \in Attempted(o) THEN {D!Collected(D!Step("disable", "collector"),
                      {})} ELSE {})
                  \cup (IF "helper" \in Attempted(o) THEN {D!Collected(D!Step("disable", "helper"),
                      {})} ELSE {})
                  \cup (IF "collector" \in Installed(o) THEN {D!Collected(D!Remove("collector"),
                      {"collector"})} ELSE {})
                  \cup (IF "helper" \in Installed(o) THEN {D!Collected(D!Remove("helper"),
                      {"helper"})} ELSE {})
                  \cup (IF "config" \in Installed(o) THEN {D!Collected(D!Remove("config"),
                      {"collector", "helper"})} ELSE {})
                  \cup (IF Installed(o) \cap D!Units # {} THEN {D!Collected(D!Reload, {})} ELSE {})
<1> DEFINE P1 == D!When("collector" \in Attempted(o), <<D!Collected(D!Step("disable", "collector"), {})>>)
<1> DEFINE S1 == (IF "collector" \in Attempted(o) THEN {D!Collected(D!Step("disable", "collector"),
      {})} ELSE {})
<1> DEFINE P2 == D!When("helper" \in Attempted(o), <<D!Collected(D!Step("disable", "helper"), {})>>)
<1> DEFINE S2 == (IF "helper" \in Attempted(o) THEN {D!Collected(D!Step("disable", "helper"), {})} ELSE {})
<1> DEFINE P3 == D!When("collector" \in Installed(o), <<D!Collected(D!Remove("collector"), {"collector"})>>)
<1> DEFINE S3 == (IF "collector" \in Installed(o) THEN {D!Collected(D!Remove("collector"),
      {"collector"})} ELSE {})
<1> DEFINE P4 == D!When("helper" \in Installed(o), <<D!Collected(D!Remove("helper"), {"helper"})>>)
<1> DEFINE S4 == (IF "helper" \in Installed(o) THEN {D!Collected(D!Remove("helper"), {"helper"})} ELSE {})
<1> DEFINE P5 == D!When("config" \in Installed(o), <<D!Collected(D!Remove("config"), {"collector",
      "helper"})>>)
<1> DEFINE S5 == (IF "config" \in Installed(o) THEN {D!Collected(D!Remove("config"), {"collector",
      "helper"})} ELSE {})
<1> DEFINE P6 == D!When(Installed(o) \cap D!Units # {}, <<D!Collected(D!Reload, {})>>)
<1> DEFINE S6 == (IF Installed(o) \cap D!Units # {} THEN {D!Collected(D!Reload, {})} ELSE {})
<1>1. Segment(P1, 1, 1) /\ StepsOf(P1) = S1
  <2>t. CASE "collector" \in Attempted(o)
    BY <2>t, SingleAt, StepStages, StageOrder, SegmentWiden, StageOrder DEF D!When
  <2>f. CASE ~("collector" \in Attempted(o))
    BY <2>f, EmptySegment DEF D!When
  <2> QED BY <2>t, <2>f
<1>2. Segment(P2, 1, 1) /\ StepsOf(P2) = S2
  <2>t. CASE "helper" \in Attempted(o)
    BY <2>t, SingleAt, StepStages, StageOrder, SegmentWiden, StageOrder DEF D!When
  <2>f. CASE ~("helper" \in Attempted(o))
    BY <2>f, EmptySegment DEF D!When
  <2> QED BY <2>t, <2>f
<1>3. Segment(P3, 1, 2) /\ StepsOf(P3) = S3
  <2>t. CASE "collector" \in Installed(o)
    BY <2>t, SingleAt, StepStages, StageOrder, SegmentWiden, StageOrder DEF D!When
  <2>f. CASE ~("collector" \in Installed(o))
    BY <2>f, EmptySegment DEF D!When
  <2> QED BY <2>t, <2>f
<1>4. Segment(P4, 2, 2) /\ StepsOf(P4) = S4
  <2>t. CASE "helper" \in Installed(o)
    BY <2>t, SingleAt, StepStages, StageOrder, SegmentWiden, StageOrder DEF D!When
  <2>f. CASE ~("helper" \in Installed(o))
    BY <2>f, EmptySegment DEF D!When
  <2> QED BY <2>t, <2>f
<1>5. Segment(P5, 2, 2) /\ StepsOf(P5) = S5
  <2>t. CASE "config" \in Installed(o)
    BY <2>t, SingleAt, StepStages, StageOrder, SegmentWiden, StageOrder DEF D!When
  <2>f. CASE ~("config" \in Installed(o))
    BY <2>f, EmptySegment DEF D!When
  <2> QED BY <2>t, <2>f
<1>6. Segment(P6, 2, 3) /\ StepsOf(P6) = S6
  <2>t. CASE Installed(o) \cap D!Units # {}
    BY <2>t, SingleAt, StepStages, StageOrder, SegmentWiden, StageOrder DEF D!When
  <2>f. CASE ~(Installed(o) \cap D!Units # {})
    BY <2>f, EmptySegment DEF D!When
  <2> QED BY <2>t, <2>f
<1> HIDE DEF P1, S1, P2, S2, P3, S3, P4, S4, P5, S5, P6, S6
<1>c2. Segment(Join(P1, P2), 1, 1) /\ StepsOf(Join(P1, P2)) = S1 \cup S2
  BY <1>1, <1>2, SegmentJoin, StageOrder
<1>c3. Segment(Join(Join(P1, P2), P3), 1, 2) /\ StepsOf(Join(Join(P1, P2), P3)) = S1 \cup S2 \cup S3
  BY <1>c2, <1>3, SegmentJoin, StageOrder
<1>c4. Segment(Join(Join(Join(P1, P2), P3), P4), 1, 2) /\ StepsOf(Join(Join(Join(P1, P2), P3),
         P4)) = S1 \cup S2 \cup S3 \cup S4
  BY <1>c3, <1>4, SegmentJoin, StageOrder
<1>c5. Segment(Join(Join(Join(Join(P1, P2), P3), P4), P5), 1, 2) /\ StepsOf(Join(Join(Join(Join(P1,
         P2), P3), P4), P5)) = S1 \cup S2 \cup S3 \cup S4 \cup S5
  BY <1>c4, <1>5, SegmentJoin, StageOrder
<1>c6. Segment(Join(Join(Join(Join(Join(P1, P2), P3), P4), P5), P6), 1, 3)
         /\ StepsOf(Join(Join(Join(Join(Join(P1, P2), P3), P4), P5), P6)) = S1 \cup S2 \cup S3
         \cup S4 \cup S5 \cup S6
  BY <1>c5, <1>6, SegmentJoin, StageOrder
<1> QED BY <1>c6 DEF Join, P1, S1, P2, S2, P3, S3, P4, S4, P5, S5, P6, S6, D!RollbackDeployment,
      Installed, Attempted


LEMMA FullProfileSteps ==
    ASSUME NEW target, target = "full_diagnostics"
    PROVE  Segment(D!SwitchProfileProgram(target), 1, 5)
           /\ StepsOf(D!SwitchProfileProgram(target)) =
                  {D!Step("stop", "collector")}
                  \cup {D!Write("collector", D!CollectorUnit(D!Config.mode, target)),
                      D!Write("profile", [profile |-> target])}
                  \cup {D!Write("tracePolicy", [version |-> d_package]), D!Write("trace",
                      D!TraceUnit(D!Config, [version |-> d_package])), D!Reload, D!Step("enable",
                      "trace")}
                  \cup {D!Step("enable", "collector"), D!Wait(target)}
<1> DEFINE P1 == <<D!Step("stop", "collector")>>
<1> DEFINE S1 == {D!Step("stop", "collector")}
<1> DEFINE P2 == <<>>
<1> DEFINE S2 == {}
<1> DEFINE P3 == <<D!Write("collector", D!CollectorUnit(D!Config.mode, target)), D!Write("profile",
      [profile |-> target])>>
<1> DEFINE S3 == {D!Write("collector", D!CollectorUnit(D!Config.mode, target)), D!Write("profile",
      [profile |-> target])}
<1> DEFINE P4 == <<D!Write("tracePolicy", [version |-> d_package]), D!Write("trace",
      D!TraceUnit(D!Config, [version |-> d_package])), D!Reload, D!Step("enable", "trace")>>
<1> DEFINE S4 == {D!Write("tracePolicy", [version |-> d_package]), D!Write("trace",
      D!TraceUnit(D!Config, [version |-> d_package])), D!Reload, D!Step("enable", "trace")}
<1> DEFINE P5 == <<D!Step("enable", "collector"), D!Wait(target)>>
<1> DEFINE S5 == {D!Step("enable", "collector"), D!Wait(target)}
<1>1. Segment(P1, 1, 1) /\ StepsOf(P1) = S1
  BY SingleAt, StepStages, StageOrder
<1>2. Segment(P2, 1, 1) /\ StepsOf(P2) = S2
  BY EmptySegment
<1>3. Segment(P3, 1, 2) /\ StepsOf(P3) = S3
  BY PairSegment, StepStages, SegmentWiden, StageOrder
<1>4. Segment(P4, 2, 4) /\ StepsOf(P4) = S4
  BY QuadSegment, StepStages
<1>5. Segment(P5, 4, 5) /\ StepsOf(P5) = S5
  BY PairSegment, StepStages
<1> HIDE DEF P1, S1, P2, S2, P3, S3, P4, S4, P5, S5
<1>c2. Segment(Join(P1, P2), 1, 1) /\ StepsOf(Join(P1, P2)) = S1 \cup S2
  BY <1>1, <1>2, SegmentJoin, StageOrder
<1>c3. Segment(Join(Join(P1, P2), P3), 1, 2) /\ StepsOf(Join(Join(P1, P2), P3)) = S1 \cup S2 \cup S3
  BY <1>c2, <1>3, SegmentJoin, StageOrder
<1>c4. Segment(Join(Join(Join(P1, P2), P3), P4), 1, 4) /\ StepsOf(Join(Join(Join(P1, P2), P3),
         P4)) = S1 \cup S2 \cup S3 \cup S4
  BY <1>c3, <1>4, SegmentJoin, StageOrder
<1>c5. Segment(Join(Join(Join(Join(P1, P2), P3), P4), P5), 1, 5) /\ StepsOf(Join(Join(Join(Join(P1,
         P2), P3), P4), P5)) = S1 \cup S2 \cup S3 \cup S4 \cup S5
  BY <1>c4, <1>5, SegmentJoin, StageOrder
<1> QED BY <1>c5 DEF Join, P1, S1, P2, S2, P3, S3, P4, S4, P5, S5, D!SwitchProfileProgram, D!When

LEMMA CpuProfileSteps ==
    ASSUME NEW target, target # "full_diagnostics", D!Present("trace")
    PROVE  Segment(D!SwitchProfileProgram(target), 1, 5)
           /\ StepsOf(D!SwitchProfileProgram(target)) =
                  {D!Step("stop", "collector"), D!Step("disable", "trace"), D!Remove("trace"), D!Reload,
                   D!Step("enable", "collector"), D!Wait(target),
                   D!Write("collector", D!CollectorUnit(D!Config.mode, target)),
                   D!Write("profile", [profile |-> target])}
<1> DEFINE P1 == <<D!Step("stop", "collector")>>
<1> DEFINE P2 == <<D!Step("disable", "trace")>>
<1> DEFINE P3 == <<D!Write("collector", D!CollectorUnit(D!Config.mode, target)),
                   D!Write("profile", [profile |-> target])>>
<1> DEFINE Q1 == <<D!Remove("trace")>>
<1> DEFINE Q2 == <<>>
<1> DEFINE Q3 == <<D!Reload>>
<1> DEFINE P4 == Join(Join(Q1, Q2), Q3)
<1> DEFINE P5 == <<D!Step("enable", "collector"), D!Wait(target)>>
<1>0. D!SwitchProfileProgram(target) = Join(Join(Join(Join(P1, P2), P3), P4), P5)
  BY DEF D!SwitchProfileProgram, D!When, Join
<1>1. Segment(P1, 1, 1) /\ StepsOf(P1) = {D!Step("stop", "collector")}
  BY SingleAt, StepStages, StageOrder
<1>2. Segment(P2, 1, 1) /\ StepsOf(P2) = {D!Step("disable", "trace")}
  BY SingleAt, StepStages, StageOrder
<1>3. Segment(P3, 1, 2)
      /\ StepsOf(P3) = {D!Write("collector", D!CollectorUnit(D!Config.mode, target)),
                        D!Write("profile", [profile |-> target])}
  BY PairSegment, StepStages, SegmentWiden, StageOrder
<1>4. Segment(Q1, 2, 2) /\ StepsOf(Q1) = {D!Remove("trace")}
  BY SingleAt, StepStages, StageOrder
<1>5. Segment(Q2, 2, 2) /\ StepsOf(Q2) = {}
  BY EmptySegment
<1>6. Segment(Q3, 2, 3) /\ StepsOf(Q3) = {D!Reload}
  BY SingleAt, StepStages, StageOrder
<1>7. Segment(P5, 3, 5) /\ StepsOf(P5) = {D!Step("enable", "collector"), D!Wait(target)}
  BY PairSegment, StepStages, SegmentWiden, StageOrder
<1> HIDE DEF P1, P2, P3, Q1, Q2, Q3, P5
<1>8. Segment(P4, 2, 3) /\ StepsOf(P4) = {D!Remove("trace"), D!Reload}
  <2>1. Segment(Join(Q1, Q2), 2, 2) /\ StepsOf(Join(Q1, Q2)) = StepsOf(Q1) \cup StepsOf(Q2)
    BY <1>4, <1>5, SegmentJoin, StageOrder
  <2>2. Segment(P4, 2, 3) /\ StepsOf(P4) = StepsOf(Join(Q1, Q2)) \cup StepsOf(Q3)
    BY <2>1, <1>6, SegmentJoin, StageOrder
  <2> QED BY <2>1, <2>2, <1>4, <1>5, <1>6
<1> HIDE DEF P4
<1>9. Segment(Join(P1, P2), 1, 1) /\ StepsOf(Join(P1, P2)) = StepsOf(P1) \cup StepsOf(P2)
  BY <1>1, <1>2, SegmentJoin, StageOrder
<1>10. /\ Segment(Join(Join(P1, P2), P3), 1, 2)
       /\ StepsOf(Join(Join(P1, P2), P3)) = StepsOf(P1) \cup StepsOf(P2) \cup StepsOf(P3)
  BY <1>3, <1>9, SegmentJoin, StageOrder
<1>11. /\ Segment(Join(Join(Join(P1, P2), P3), P4), 1, 3)
       /\ StepsOf(Join(Join(Join(P1, P2), P3), P4)) =
             StepsOf(P1) \cup StepsOf(P2) \cup StepsOf(P3) \cup StepsOf(P4)
  BY <1>8, <1>10, SegmentJoin, StageOrder
<1>12. /\ Segment(Join(Join(Join(Join(P1, P2), P3), P4), P5), 1, 5)
       /\ StepsOf(Join(Join(Join(Join(P1, P2), P3), P4), P5)) =
             StepsOf(P1) \cup StepsOf(P2) \cup StepsOf(P3) \cup StepsOf(P4) \cup StepsOf(P5)
  BY <1>7, <1>11, SegmentJoin, StageOrder
<1> QED BY <1>0, <1>1, <1>2, <1>3, <1>7, <1>8, <1>12

\* Without a Trace Helper the disable comes after the changes; it fails.
LEMMA StaleProfileSteps ==
    ASSUME NEW target, target # "full_diagnostics", ~D!Present("trace")
    PROVE  IsProgram(D!SwitchProfileProgram(target))
           /\ StepsOf(D!SwitchProfileProgram(target)) =
                  {D!Step("stop", "collector"), D!Step("disable", "trace"), D!Reload,
                   D!Step("enable", "collector"), D!Wait(target),
                   D!Write("collector", D!CollectorUnit(D!Config.mode, target)),
                   D!Write("profile", [profile |-> target])}
<1> DEFINE P1 == <<D!Step("stop", "collector")>>
<1> DEFINE P3 == <<D!Write("collector", D!CollectorUnit(D!Config.mode, target)),
                   D!Write("profile", [profile |-> target])>>
<1> DEFINE Q1 == <<D!Step("disable", "trace")>>
<1> DEFINE Q3 == <<D!Reload>>
<1> DEFINE P5 == <<D!Step("enable", "collector"), D!Wait(target)>>
<1>0. D!SwitchProfileProgram(target) =
          Join(Join(Join(Join(P1, <<>>), P3), Join(Join(<<>>, Q1), Q3)), P5)
  BY DEF D!SwitchProfileProgram, D!When, Join
<1>1. IsProgram(P1) /\ StepsOf(P1) = {D!Step("stop", "collector")}
  BY SingleSegment DEF Segment
<1>2. IsProgram(<<>>) /\ StepsOf(<<>>) = {}
  BY EmptySegment DEF Segment
<1>3. IsProgram(P3)
      /\ StepsOf(P3) = {D!Write("collector", D!CollectorUnit(D!Config.mode, target)),
                        D!Write("profile", [profile |-> target])}
  BY PairSegment, StepStages DEF Segment
<1>4. IsProgram(Q1) /\ StepsOf(Q1) = {D!Step("disable", "trace")}
  BY SingleSegment DEF Segment
<1>6. IsProgram(Q3) /\ StepsOf(Q3) = {D!Reload}
  BY SingleSegment DEF Segment
<1>7. IsProgram(P5) /\ StepsOf(P5) = {D!Step("enable", "collector"), D!Wait(target)}
  BY PairSegment, StepStages DEF Segment
<1> HIDE DEF P1, P3, Q1, Q3, P5
<1>j. \A p, q : IsProgram(p) /\ IsProgram(q) =>
          IsProgram(Join(p, q)) /\ StepsOf(Join(p, q)) = StepsOf(p) \cup StepsOf(q)
  BY Concatenated DEF Join
<1>8. IsProgram(Join(P1, <<>>)) /\ StepsOf(Join(P1, <<>>)) = StepsOf(P1)
  BY <1>1, <1>2, <1>j
<1>9. /\ IsProgram(Join(Join(P1, <<>>), P3))
      /\ StepsOf(Join(Join(P1, <<>>), P3)) = StepsOf(P1) \cup StepsOf(P3)
  BY <1>8, <1>3, <1>j
<1>10. IsProgram(Join(<<>>, Q1)) /\ StepsOf(Join(<<>>, Q1)) = StepsOf(Q1)
  BY <1>2, <1>4, <1>j
<1>11. /\ IsProgram(Join(Join(<<>>, Q1), Q3))
       /\ StepsOf(Join(Join(<<>>, Q1), Q3)) = StepsOf(Q1) \cup StepsOf(Q3)
  BY <1>10, <1>6, <1>j
<1>12. /\ IsProgram(Join(Join(Join(P1, <<>>), P3), Join(Join(<<>>, Q1), Q3)))
       /\ StepsOf(Join(Join(Join(P1, <<>>), P3), Join(Join(<<>>, Q1), Q3))) =
             StepsOf(P1) \cup StepsOf(P3) \cup StepsOf(Q1) \cup StepsOf(Q3)
  BY <1>9, <1>11, <1>j
<1>13. /\ IsProgram(D!SwitchProfileProgram(target))
       /\ StepsOf(D!SwitchProfileProgram(target)) =
             StepsOf(P1) \cup StepsOf(P3) \cup StepsOf(Q1) \cup StepsOf(Q3) \cup StepsOf(P5)
  BY <1>0, <1>12, <1>7, <1>j
<1> QED BY <1>1, <1>3, <1>4, <1>6, <1>7, <1>13

----------------------------------------------------------------------------
(* The invariant.                                                          *)

Typed(d) ==
    /\ d = [f \in D!Files |-> d[f]]
    /\ d["config"] \in D!Policies \cup {D!Missing}
    /\ d["profile"] \in [profile : D!Profiles] \cup {D!Missing}
StepTyped(s) ==
    /\ s.do \in {"disable", "stop", "enable", "restart"} => s.on \in D!Units
    /\ s.do = "stop" => s.on = "collector"
    /\ Writes(s) => s.on \in D!Files
    /\ s.do = "remove" => s.to = D!Missing
    /\ s.do \in {"write", "install"} =>
          /\ s.on \in D!Units => s.to # D!Missing
          /\ s.on = "config" => s.to \in D!Policies
          /\ s.on = "profile" => s.to \in [profile : D!Profiles]
    /\ s.errors \in {"raise", "ignore", "collect"}
    /\ s.do = "disable" => s.unless = {}
OpForm ==
    d_op = [kind |-> d_op.kind, phase |-> d_op.phase, result |-> d_op.result, program |-> d_op.program,
          n |-> d_op.n, before |-> d_op.before, healthy |-> d_op.healthy, faults |-> d_op.faults,
          failed |-> d_op.failed]

\* The state and the transaction are well formed.
BasicInv ==
    /\ HostForm /\ Typed(d_disk) /\ Typed(d_op.before) /\ OpForm /\ d_package \in Versions
    /\ d_op.phase \in {"forward", "back", "ended"} /\ d_op.n \in Nat /\ d_op.faults \in Nat
    /\ IsProgram(d_op.program) /\ d_op.n <= Len(d_op.program)
    /\ \A s \in StepsOf(d_op.program) : StepTyped(s)
    /\ d_op.phase = "forward" => d_op.faults = 0 /\ d_op.failed = {}
    /\ d_op.phase # "ended" => d_op.result = "none"

\* Programs run in the order of the stages, but for one that fails.
OrderInv ==
    \/ Ordered(d_op.program)
    \/ /\ d_op.phase = "forward" /\ d_op.kind = "profile" /\ d_op.healthy = "no"
       /\ \A s \in StepsOf(d_op.program) : s.do # "remove"

\* What a transaction was begun on.
ChangedBy(kind) ==
    CASE kind = "mode" -> {"config", "collector", "helper"}
      [] kind = "profile" -> {"collector", "profile", "tracePolicy", "trace"}
      [] kind = "upgrade" -> {"collector", "helper", "trace"}
      [] kind = "policy" -> {"config"}
      [] kind = "grant" -> {"config", "helper", "trace"}
      [] kind = "deploy" -> {"config", "collector", "helper"}
      [] OTHER -> D!Units
Begun(kind, before, healthy) ==
    /\ kind \in {"mode", "profile", "upgrade", "policy", "grant"} =>
          before["config"] # D!Missing /\ before["collector"] # D!Missing
    /\ kind \in {"mode", "upgrade"} =>
          /\ before["config"].mode = "paranoid3_helper" => before["helper"] # D!Missing
          /\ D!ProfileOf(before) = "full_diagnostics" => before["trace"] # D!Missing
    /\ healthy = "yes" => D!Consistent(before)
    /\ healthy = "absent" => kind \in {"deploy", "undeploy"} /\ \A u \in D!Units : before[u] = D!Missing
    /\ kind \in {"mode", "profile", "upgrade", "policy", "grant", "deploy", "undeploy"}
\* The steps of the program of a command.
KindStep(kind, healthy, before, s) ==
    /\ s.errors = "raise" /\ s.unless = {}
    /\ Writes(s) => s.on \in ChangedBy(kind)
    /\ Writes(s) /\ kind \in {"upgrade", "grant"} => before[s.on] # D!Missing
    /\ kind \in {"upgrade", "grant"} =>
          \/ s.do \in {"write", "reload", "restart", "wait"}
          \/ /\ kind = "upgrade" /\ healthy = "no" /\ s.on = "helper"
             /\ s \in {D!Step("disable", "helper"), D!Remove("helper")}
    /\ kind = "policy" => s.do \in {"write", "wait"} \/ Acts(s, "restart", "collector")
    /\ kind = "profile" =>
          /\ s.do \notin {"restart", "install"}
          /\ s.do \in {"enable", "disable"} => s.on # "helper"
    /\ kind = "deploy" =>
          /\ s.do \in {"tool", "install", "reload", "enable", "wait"}
          /\ s.do = "enable" => s = D!Step("enable", s.on)

\* The collector is started last.
Final(p) ==
    \A i, j \in 1 .. Len(p) : i < j /\ Acts(p[i], "enable", "collector") => Stage(p[j]) = 5
DeployForm(p) ==
    /\ \A s, t \in StepsOf(p) : s.do = "install" /\ t.do = "install" /\ s.on = t.on => s = t
    /\ \A s \in StepsOf(p) : s.do = "install" /\ s.on \in D!Units => D!Step("enable", s.on) \in StepsOf(p)
    /\ Final(p) /\ Len(p) >= 2 /\ p[1] = D!Tool /\ Acts(p[2], "install", "config")

KindInv ==
    d_op.phase # "ended" =>
       /\ Begun(d_op.kind, d_op.before, d_op.healthy)
       /\ d_op.phase = "forward" =>
             /\ \A s \in StepsOf(d_op.program) : KindStep(d_op.kind, d_op.healthy, d_op.before, s)
             /\ d_op.kind = "deploy" => DeployForm(d_op.program)
             /\ \A f \in D!Files :
                   d_disk[f] = d_op.before[f] \/ \E s \in D!Done(d_op) : Writes(s) /\ s.on = f
             /\ d_op.kind \in {"upgrade", "grant"} /\ d_op.before["trace"] # D!Missing =>
                   d_disk["trace"] # D!Missing

\* A unit that is started at boot has its file, except a Trace Helper that runs.
Off(u) == u \notin d_enabled \/ (u = "trace" /\ d_running["trace"] # D!NoProcess)
EnabledFiles == \A u \in D!Units : d_disk[u] = D!Missing => Off(u)
RemovesSafe(rest, failed) ==
    \A s \in rest : s.do = "remove" /\ s.on \in D!Units =>
       \/ Off(s.on)
       \/ \E t \in rest : /\ Acts(t, "disable", s.on)
                          /\ t.errors = "raise" \/ (t.errors = "collect" /\ s.on \in s.unless)
       \/ s.on \in failed \cap s.unless
RestartsSafe(rest) ==
    \A s \in rest : Acts(s, "restart", "trace") =>
       d_disk["trace"] # D!Missing /\ \A t \in rest : ~Acts(t, "remove", "trace")
EnabledInv ==
    /\ EnabledFiles /\ RemovesSafe(Rest, d_op.failed) /\ RestartsSafe(Rest)
    /\ d_op.phase = "forward" /\ d_op.kind = "profile" /\ d_op.before["trace"] = D!Missing => Off("trace")
    /\ d_op.phase = "forward" /\ d_op.kind = "deploy" =>
          \A u \in {"collector", "helper"} : d_op.before[u] = D!Missing /\ u \in d_enabled =>
             D!Step("enable", u) \in D!Done(d_op)

----------------------------------------------------------------------------
(* One step of a program.                                                  *)

LEMMA ProgramStep ==
    ASSUME BasicInv, D!InProgress
    PROVE  /\ D!Current \in Rest /\ D!Current \in StepsOf(d_op.program)
           /\ Rest = {d_op.program[i] : i \in (d_op.n + 2) .. Len(d_op.program)} \cup {D!Current}
           /\ Ordered(d_op.program) =>
                 \A t \in {d_op.program[i] : i \in (d_op.n + 2) .. Len(d_op.program)} :
                    Stage(D!Current) <= Stage(t)
           /\ {d_op.program[i] : i \in 1 .. (d_op.n + 1)} = D!Done(d_op) \cup {D!Current}
<1>1. Len(d_op.program) \in Nat /\ d_op.n \in Nat /\ d_op.n < Len(d_op.program)
  BY ProgramLength DEF BasicInv, D!InProgress
<1>2. d_op.n + 1 \in 1 .. Len(d_op.program)
  BY <1>1
<1>3. D!Current \in Rest /\ D!Current \in StepsOf(d_op.program)
  BY <1>1, <1>2 DEF D!Current, Rest, StepsOf
<1>4. (d_op.n + 1) .. Len(d_op.program) = {d_op.n + 1} \cup ((d_op.n + 2) .. Len(d_op.program))
  BY <1>1
<1>5. Rest = {d_op.program[i] : i \in (d_op.n + 2) .. Len(d_op.program)} \cup {D!Current}
  BY <1>4 DEF Rest, D!Current
<1>6. ASSUME Ordered(d_op.program), NEW i \in (d_op.n + 2) .. Len(d_op.program)
      PROVE  Stage(D!Current) <= Stage(d_op.program[i])
  <2>1. i \in 1 .. Len(d_op.program) /\ d_op.n + 1 < i
    BY <1>1
  <2> QED BY <1>2, <1>6, <2>1 DEF Ordered, D!Current
<1>7. 1 .. (d_op.n + 1) = (1 .. d_op.n) \cup {d_op.n + 1}
  BY <1>1
<1>8. {d_op.program[i] : i \in 1 .. (d_op.n + 1)} = D!Done(d_op) \cup {D!Current}
  BY <1>7 DEF D!Done, D!Current
<1> QED BY <1>3, <1>5, <1>6, <1>8

LEMMA RestSteps ==
    ASSUME BasicInv
    PROVE  Rest \subseteq StepsOf(d_op.program) /\ D!Done(d_op) \subseteq StepsOf(d_op.program)
<1>1. Len(d_op.program) \in Nat /\ d_op.n \in Nat /\ d_op.n <= Len(d_op.program)
  BY ProgramLength DEF BasicInv
<1>2. (d_op.n + 1) .. Len(d_op.program) \subseteq 1 .. Len(d_op.program)
      /\ 1 .. d_op.n \subseteq 1 .. Len(d_op.program)
  BY <1>1
<1> QED BY <1>2 DEF Rest, StepsOf, D!Done

\* What a step that fails may leave behind.
Down(s) ==
    /\ s.do = "restart"
    /\ d_running' = [u \in D!Units |-> IF u \in D!StopSet(s.on, d_loaded) THEN D!NoProcess ELSE d_running[u]]
    /\ UNCHANGED <<d_disk, d_loaded, d_enabled>>

LEMMA LeavesCases ==
    ASSUME NEW s, D!Leaves(s)
    PROVE  \/ D!NoEffect
           \/ /\ D!Possible(s) /\ D!Effect(s)
              /\ Writes(s) => d_op.kind \in Interruptible
           \/ Down(s)
BY DEF D!Leaves, Down, Writes

LEMMA EffectForm ==
    ASSUME NEW s, StepTyped(s), HostForm, D!Effect(s) \/ D!NoEffect \/ Down(s)
    PROVE  HostForm'
<1>1. CASE D!NoEffect
  BY <1>1 DEF D!NoEffect, HostForm
<1>2. CASE Down(s)
  BY <1>2 DEF Down, HostForm
<1>3. CASE D!Effect(s)
  <2>1. CASE Stage(s) = 1
    BY <1>3, <2>1, EffectStop, StagesOf DEF StepTyped
  <2>2. CASE Stage(s) = 2
    <3>1. s.do # "tool" => s.on \in D!Files
      BY <2>2, StagesOf DEF StepTyped, Writes
    <3> QED BY <1>3, <2>2, <3>1, EffectWrite DEF StepTyped
  <2>3. CASE Stage(s) = 3
    BY <1>3, <2>3, EffectReload, StagesOf
  <2>4. CASE Stage(s) = 4
    BY <1>3, <2>4, EffectEnable, EffectRestart, StagesOf DEF StepTyped
  <2>5. CASE Stage(s) = 5
    BY <1>3, <2>5, EffectWait
  <2> QED BY <2>1, <2>2, <2>3, <2>4, <2>5, StagesOf
<1> QED BY <1>1, <1>2, <1>3

\* What a step changes on disk.
LEMMA EffectDisk ==
    ASSUME NEW s, StepTyped(s), HostForm, D!Effect(s) \/ D!NoEffect \/ Down(s)
    PROVE  /\ Stage(s) # 2 => d_disk' = d_disk
           /\ \A f \in D!Files : d_disk'[f] = d_disk[f] \/ (Writes(s) /\ f = s.on /\ d_disk'[f] = s.to)
           /\ D!Effect(s) /\ Writes(s) => d_disk'[s.on] = s.to
<1>1. CASE ~D!Effect(s)
  BY <1>1 DEF D!NoEffect, Down
<1>2. CASE D!Effect(s) /\ Stage(s) # 2
  <2>1. ~Writes(s)
    BY <1>2, StagesOf DEF Writes
  <2>2. d_disk' = d_disk
    BY <1>2, <2>1 DEF D!Effect, Writes
  <2> QED BY <2>1, <2>2
<1>3. CASE D!Effect(s) /\ Stage(s) = 2
  <2>1. s.do # "tool" => s.on \in D!Files
    BY <1>3, StagesOf DEF StepTyped, Writes
  <2>2. \A f \in D!Files : d_disk'[f] = IF Writes(s) /\ f = s.on THEN s.to ELSE d_disk[f]
    BY <1>3, <2>1, EffectWrite DEF StepTyped
  <2> QED BY <1>3, <2>2 DEF StepTyped
<1> QED BY <1>1, <1>2, <1>3

LEMMA EffectTyped ==
    ASSUME NEW s, StepTyped(s), HostForm, Typed(d_disk), D!Effect(s) \/ D!NoEffect \/ Down(s)
    PROVE  Typed(d_disk)'
<1>1. \A f \in D!Files : d_disk'[f] = d_disk[f] \/ (Writes(s) /\ f = s.on /\ d_disk'[f] = s.to)
  BY EffectDisk
<1>2. d_disk' = [f \in D!Files |-> d_disk'[f]]
  BY EffectForm DEF HostForm
<1>3. Writes(s) => s.do \in {"write", "install", "remove"}
  BY DEF Writes
<1>4. d_disk'["config"] \in D!Policies \cup {D!Missing}
  BY <1>1, <1>3 DEF StepTyped, Typed, D!Files, D!Texts
<1>5. d_disk'["profile"] \in [profile : D!Profiles] \cup {D!Missing}
  BY <1>1, <1>3 DEF StepTyped, Typed, D!Files, D!Texts
<1> QED BY <1>2, <1>4, <1>5 DEF Typed

\* Removing only what is off keeps every unit that is started at boot on disk.
LEMMA EffectEnabledFiles ==
    ASSUME NEW s, StepTyped(s), HostForm, EnabledFiles, D!Effect(s) \/ D!NoEffect \/ Down(s),
           D!Effect(s) => D!Possible(s), s.do = "remove" /\ s.on \in D!Units => Off(s.on),
           Acts(s, "restart", "trace") => d_disk["trace"] # D!Missing
    PROVE  EnabledFiles'
<1>1. CASE D!NoEffect
  BY <1>1 DEF D!NoEffect, EnabledFiles, Off
<1>2. CASE Down(s)
  <2>1. s.on = "trace" => d_disk["trace"] # D!Missing
    BY <1>2 DEF Down, Acts
  <2>2. s.on # "trace" => d_running'["trace"] = d_running["trace"]
    BY <1>2 DEF Down, D!StopSet, D!Units
  <2> QED BY <1>2, <2>1, <2>2 DEF Down, EnabledFiles, Off
<1>3. CASE D!Effect(s) /\ Stage(s) = 1
  <2>1. /\ d_disk' = d_disk
        /\ \A u \in D!Units : d_running'[u] = d_running[u] \/ (d_running'[u] = D!NoProcess /\ Stops(s, u))
        /\ s.do = "stop" => d_enabled' = d_enabled
        /\ s.do = "disable" => d_enabled' = d_enabled \ {s.on}
    BY <1>3, EffectStop, StagesOf DEF StepTyped
  <2>2. s.do = "stop" => d_running'["trace"] = d_running["trace"]
    BY <2>1 DEF StepTyped, Stops, D!Units
  <2> QED BY <1>3, <2>1, <2>2, StagesOf DEF EnabledFiles, Off, Stops, D!Units
<1>4. CASE D!Effect(s) /\ Stage(s) = 2
  <2>1. s.do # "tool" => s.on \in D!Files
    BY <1>4, StagesOf DEF StepTyped, Writes
  <2>2. /\ \A f \in D!Files : d_disk'[f] = IF Writes(s) /\ f = s.on THEN s.to ELSE d_disk[f]
        /\ d_running' = d_running /\ d_enabled' = d_enabled
    BY <1>4, <2>1, EffectWrite DEF StepTyped
  <2>3. ASSUME NEW u \in D!Units, d_disk'[u] = D!Missing PROVE Off(u)
    <3>1. CASE d_disk[u] = D!Missing
      BY <3>1 DEF EnabledFiles
    <3>2. CASE Writes(s) /\ u = s.on
      BY <2>2, <2>3, <3>2 DEF StepTyped, Writes, D!Files
    <3> QED BY <2>2, <2>3, <3>1, <3>2 DEF D!Files
  <2> QED BY <2>2, <2>3 DEF EnabledFiles, Off
<1>5. CASE D!Effect(s) /\ Stage(s) = 3
  BY <1>5, EffectReload, StagesOf DEF EnabledFiles, Off
<1>6. CASE D!Effect(s) /\ s.do = "enable"
  <2>1. /\ d_disk' = d_disk /\ d_enabled' = d_enabled \cup {s.on}
        /\ \A u \in D!Units :
              d_running'[u] = IF u \in D!StartSet(s.on, D!OnDisk) /\ d_running[u] = D!NoProcess
                            THEN D!Process(u, D!OnDisk) ELSE d_running[u]
    BY <1>6, EffectEnable DEF StepTyped
  <2>2. d_disk[s.on] # D!Missing
    BY <1>6 DEF D!Possible, D!StartSet
  <2>3. d_running["trace"] # D!NoProcess => d_running'["trace"] # D!NoProcess
    BY <2>1 DEF D!Units
  <2> QED BY <2>1, <2>2, <2>3 DEF EnabledFiles, Off
<1>7. CASE D!Effect(s) /\ s.do = "restart"
  <2>1. /\ d_disk' = d_disk /\ d_enabled' = d_enabled
        /\ \A u \in D!Units :
              d_running'[u] = IF u \in D!RestartSet(s.on, d_loaded) THEN D!Process(u, d_loaded)
                            ELSE d_running[u]
    BY <1>7, EffectRestart DEF StepTyped
  <2>2. ASSUME d_disk["trace"] = D!Missing, d_running["trace"] # D!NoProcess
        PROVE  d_running'["trace"] = d_running["trace"]
    <3>1. s.on # "trace"
      BY <1>7, <2>2 DEF Acts
    <3>2. "trace" \notin D!StopSet(s.on, d_loaded)
      BY <3>1 DEF D!StopSet
    <3>3. "trace" \notin D!RestartSet(s.on, d_loaded)
      BY <3>2, <2>2 DEF D!RestartSet
    <3> QED BY <2>1, <3>3 DEF D!Units
  <2> QED BY <2>1, <2>2 DEF EnabledFiles, Off
<1>8. CASE D!Effect(s) /\ Stage(s) = 5
  BY <1>8, EffectWait DEF EnabledFiles, Off
<1> QED BY <1>1, <1>2, <1>3, <1>4, <1>5, <1>6, <1>7, <1>8, StagesOf

----------------------------------------------------------------------------
(* The programs.                                                           *)

LEMMA Contents ==
    /\ \A m, p : D!CollectorUnit(m, p) # D!Missing /\ D!CollectorUnit(m, p).mode = m
                 /\ D!CollectorUnit(m, p).profile = p
    /\ \A c : D!HelperUnit(c) # D!Missing /\ D!HelperUnit(c).grant = c.grant
    /\ \A c, p : D!TraceUnit(c, p) # D!Missing /\ D!TraceUnit(c, p).grant = c.grant
                 /\ D!TraceUnit(c, p).policy = p
    /\ \A p : [profile |-> p] # D!Missing /\ [profile |-> p].profile = p
    /\ \A v : [version |-> v] # D!Missing
    /\ \A c \in D!Policies : c # D!Missing
<1>1. \A m, p : D!CollectorUnit(m, p) # D!Missing /\ D!CollectorUnit(m, p).mode = m
                 /\ D!CollectorUnit(m, p).profile = p
  BY DEF D!CollectorUnit, D!Missing
<1>2. \A c : D!HelperUnit(c) # D!Missing /\ D!HelperUnit(c).grant = c.grant
  BY DEF D!HelperUnit, D!Missing
<1>3. \A c, p : D!TraceUnit(c, p) # D!Missing /\ D!TraceUnit(c, p).grant = c.grant
                 /\ D!TraceUnit(c, p).policy = p
  BY DEF D!TraceUnit, D!Missing
<1>4. \A p : [profile |-> p] # D!Missing /\ [profile |-> p].profile = p
  BY DEF D!Missing
<1>5. \A v : [version |-> v] # D!Missing
  BY DEF D!Missing
<1>6. \A c \in D!Policies : c # D!Missing
  BY DEF D!Policies, D!Configs, D!Missing
<1> QED BY <1>1, <1>2, <1>3, <1>4, <1>5, <1>6

\* What the program of a command is.
ProgramFacts(kind, healthy, p) ==
    /\ IsProgram(p)
    /\ \A s \in StepsOf(p) : StepTyped(s) /\ KindStep(kind, healthy, d_disk, s)
    /\ \/ Ordered(p)
       \/ kind = "profile" /\ healthy = "no" /\ \A s \in StepsOf(p) : s.do # "remove"
    /\ RemovesSafe(StepsOf(p), {}) /\ RestartsSafe(StepsOf(p))

LEMMA ModeFacts ==
    ASSUME BasicInv, NEW target \in D!CollectorModes, D!Deployed,
           D!Config.grant = "rootful" => target = "paranoid3_helper",
           D!Config.mode = "paranoid3_helper" => D!Present("helper"), NEW h
    PROVE  ProgramFacts("mode", h, D!SwitchModeProgram(target))
<1> DEFINE p == D!SwitchModeProgram(target)
<1>1. Segment(p, 1, 5) /\ StepsOf(p) =
                  {D!Step("disable", "collector")}
                  \cup (IF D!Config.mode = "paranoid3_helper" \/ D!Present("helper")
                      THEN {D!Step("disable", "helper")} ELSE {})
                  \cup {D!Write("config", [D!Config EXCEPT !.mode = target]), D!Write("collector",
                      D!CollectorUnit(target, D!ProfileOf(d_disk)))}
                  \cup (IF target = "paranoid3_helper" THEN {D!Write("helper",
                      D!HelperUnit(D!Config))} ELSE (IF D!Present("helper")
                      THEN {D!Remove("helper")} ELSE {}))
                  \cup ({D!Reload} \cup (IF target = "paranoid3_helper" THEN {D!Step("enable",
                      "helper")} ELSE {}) \cup {D!Step("enable", "collector")})
                  \cup {D!Wait(D!ProfileOf(d_disk))}
  BY ModeSteps
<1> HIDE DEF p
<1>2. D!Config \in D!Policies
  BY DEF BasicInv, Typed, D!Deployed, D!Present, D!Config
<1>3. [D!Config EXCEPT !.mode = target] \in D!Policies
  BY <1>2 DEF D!Policies, D!Configs
<1>4. ASSUME NEW s \in StepsOf(p)
      PROVE  StepTyped(s) /\ KindStep("mode", h, d_disk, s)
  <2>1. \/ s = D!Step("disable", "collector") \/ s = D!Step("disable", "helper")
        \/ s = D!Write("config", [D!Config EXCEPT !.mode = target])
        \/ s = D!Write("collector", D!CollectorUnit(target, D!ProfileOf(d_disk)))
        \/ s = D!Write("helper", D!HelperUnit(D!Config)) \/ s = D!Remove("helper")
        \/ s = D!Reload \/ s = D!Step("enable", "helper") \/ s = D!Step("enable", "collector")
        \/ s = D!Wait(D!ProfileOf(d_disk))
    BY <1>1, <1>4
  <2> QED BY <2>1, <1>3, StepFields, WriteFields, RemoveFields, ReloadFields, WaitFields, Contents
          DEF StepTyped, KindStep, Writes, ChangedBy, D!Units, D!Texts, D!Files
<1>5. RemovesSafe(StepsOf(p), {}) /\ RestartsSafe(StepsOf(p))
  BY <1>1, StepFields, WriteFields, RemoveFields, ReloadFields, WaitFields
     DEF RemovesSafe, RestartsSafe, Acts, D!Units, D!Present
<1> QED BY <1>1, <1>4, <1>5 DEF ProgramFacts, Segment, p

LEMMA FullProfileFacts ==
    ASSUME BasicInv, NEW target \in D!Profiles, D!Deployed, target = "full_diagnostics", NEW h
    PROVE  ProgramFacts("profile", h, D!SwitchProfileProgram(target))
<1> DEFINE p == D!SwitchProfileProgram(target)
<1>1. Segment(p, 1, 5) /\ StepsOf(p) =
                  {D!Step("stop", "collector")}
                  \cup {D!Write("collector", D!CollectorUnit(D!Config.mode, target)),
                      D!Write("profile", [profile |-> target])}
                  \cup {D!Write("tracePolicy", [version |-> d_package]), D!Write("trace",
                      D!TraceUnit(D!Config, [version |-> d_package])), D!Reload, D!Step("enable",
                      "trace")}
                  \cup {D!Step("enable", "collector"), D!Wait(target)}
  BY FullProfileSteps
<1> HIDE DEF p
<1>2. D!Config \in D!Policies /\ d_disk["collector"] # D!Missing /\ d_disk["config"] # D!Missing
  BY DEF BasicInv, Typed, D!Deployed, D!Present, D!Config
<1>3. [profile |-> target] \in [profile : D!Profiles]
  OBVIOUS
<1>4. ASSUME NEW s \in StepsOf(p)
      PROVE  StepTyped(s) /\ KindStep("profile", h, d_disk, s)
  <2>1. \/ FALSE
        \/ s = D!Step("stop", "collector")
        \/ s = D!Write("collector", D!CollectorUnit(D!Config.mode, target))
        \/ s = D!Write("profile", [profile |-> target])
        \/ s = D!Write("tracePolicy", [version |-> d_package])
        \/ s = D!Write("trace", D!TraceUnit(D!Config, [version |-> d_package]))
        \/ s = D!Reload
        \/ s = D!Step("enable", "trace")
        \/ s = D!Step("enable", "collector")
        \/ s = D!Wait(target)
    BY <1>1, <1>4, <1>2, <1>3
  <2> QED BY <2>1, <1>2, <1>3, StepFields, WriteFields, InstallFields, RemoveFields, ReloadFields,
        WaitFields, Contents
          DEF StepTyped, KindStep, Writes, ChangedBy, D!Units, D!Texts, D!Files, Acts
<1>5. RemovesSafe(StepsOf(p), {}) /\ RestartsSafe(StepsOf(p))
  BY <1>1, <1>2, <1>3, StepFields, WriteFields, InstallFields, RemoveFields, ReloadFields, WaitFields
     DEF RemovesSafe, RestartsSafe, Acts, D!Units, D!Present
<1> QED BY <1>1, <1>4, <1>5 DEF ProgramFacts, Segment, p

LEMMA CpuProfileFacts ==
    ASSUME BasicInv, NEW target \in D!Profiles, D!Deployed, target # "full_diagnostics",
           D!Present("trace"), NEW h
    PROVE  ProgramFacts("profile", h, D!SwitchProfileProgram(target))
<1> DEFINE p == D!SwitchProfileProgram(target)
<1>1. Segment(p, 1, 5) /\ StepsOf(p) =
                  {D!Step("stop", "collector"), D!Step("disable", "trace"), D!Remove("trace"), D!Reload,
                   D!Step("enable", "collector"), D!Wait(target),
                   D!Write("collector", D!CollectorUnit(D!Config.mode, target)),
                   D!Write("profile", [profile |-> target])}
  BY CpuProfileSteps
<1> HIDE DEF p
<1>2. D!Config \in D!Policies /\ d_disk["collector"] # D!Missing /\ d_disk["config"] # D!Missing
  BY DEF BasicInv, Typed, D!Deployed, D!Present, D!Config
<1>3. [profile |-> target] \in [profile : D!Profiles]
  OBVIOUS
<1>4. ASSUME NEW s \in StepsOf(p)
      PROVE  StepTyped(s) /\ KindStep("profile", h, d_disk, s)
  <2>1. \/ FALSE
        \/ s = D!Step("stop", "collector")
        \/ s = D!Write("collector", D!CollectorUnit(D!Config.mode, target))
        \/ s = D!Write("profile", [profile |-> target])
        \/ s = D!Step("disable", "trace")
        \/ s = D!Remove("trace")
        \/ s = D!Reload
        \/ s = D!Step("enable", "collector")
        \/ s = D!Wait(target)
    BY <1>1, <1>4, <1>2, <1>3
  <2> QED BY <2>1, <1>2, <1>3, StepFields, WriteFields, InstallFields, RemoveFields, ReloadFields,
        WaitFields, Contents
          DEF StepTyped, KindStep, Writes, ChangedBy, D!Units, D!Texts, D!Files, Acts
<1>5. RemovesSafe(StepsOf(p), {}) /\ RestartsSafe(StepsOf(p))
  BY <1>1, <1>2, <1>3, StepFields, WriteFields, InstallFields, RemoveFields, ReloadFields, WaitFields
     DEF RemovesSafe, RestartsSafe, Acts, D!Units, D!Present
<1> QED BY <1>1, <1>4, <1>5 DEF ProgramFacts, Segment, p

LEMMA StaleProfileFacts ==
    ASSUME BasicInv, NEW target \in D!Profiles, D!Deployed, target # "full_diagnostics",
           ~D!Present("trace")
    PROVE  ProgramFacts("profile", "no", D!SwitchProfileProgram(target))
<1> DEFINE p == D!SwitchProfileProgram(target)
<1>1. IsProgram(p) /\ StepsOf(p) =
                  {D!Step("stop", "collector"), D!Step("disable", "trace"), D!Reload,
                   D!Step("enable", "collector"), D!Wait(target),
                   D!Write("collector", D!CollectorUnit(D!Config.mode, target)),
                   D!Write("profile", [profile |-> target])}
  BY StaleProfileSteps
<1> HIDE DEF p
<1>2. D!Config \in D!Policies /\ d_disk["collector"] # D!Missing /\ d_disk["config"] # D!Missing
  BY DEF BasicInv, Typed, D!Deployed, D!Present, D!Config
<1>3. [profile |-> target] \in [profile : D!Profiles]
  OBVIOUS
<1>6. \A s \in StepsOf(p) : s.do # "remove"
  BY <1>1, StepFields, WriteFields, ReloadFields, WaitFields
<1>4. ASSUME NEW s \in StepsOf(p)
      PROVE  StepTyped(s) /\ KindStep("profile", "no", d_disk, s)
  <2>1. \/ FALSE
        \/ s = D!Step("stop", "collector")
        \/ s = D!Write("collector", D!CollectorUnit(D!Config.mode, target))
        \/ s = D!Write("profile", [profile |-> target])
        \/ s = D!Step("disable", "trace")
        \/ s = D!Reload
        \/ s = D!Step("enable", "collector")
        \/ s = D!Wait(target)
    BY <1>1, <1>4, <1>2, <1>3
  <2> QED BY <2>1, <1>2, <1>3, StepFields, WriteFields, InstallFields, RemoveFields, ReloadFields,
        WaitFields, Contents
          DEF StepTyped, KindStep, Writes, ChangedBy, D!Units, D!Texts, D!Files, Acts
<1>5. RemovesSafe(StepsOf(p), {}) /\ RestartsSafe(StepsOf(p))
  BY <1>1, <1>2, <1>3, StepFields, WriteFields, InstallFields, RemoveFields, ReloadFields, WaitFields
     DEF RemovesSafe, RestartsSafe, Acts, D!Units, D!Present
<1> QED BY <1>1, <1>4, <1>5, <1>6 DEF ProgramFacts, Segment, p

LEMMA UpgradeFacts ==
    ASSUME BasicInv, D!Deployed, D!ProfileOf(d_disk) = "full_diagnostics" => D!TraceTopology,
           D!Config.mode = "paranoid3_helper" => D!Present("helper"), NEW h, D!StaleHelper => h = "no"
    PROVE  ProgramFacts("upgrade", h, D!UpgradeProgram)
<1> DEFINE p == D!UpgradeProgram
<1>1. Segment(p, 1, 5) /\ StepsOf(p) =
          (IF D!StaleHelper THEN {D!Step("disable", "helper"), D!Remove("helper")}
              ELSE (IF D!Present("helper") /\ d_disk["helper"] # D!HelperUnit(D!Config)
              THEN {D!Write("helper", D!HelperUnit(D!Config))} ELSE {}))
          \cup (IF D!ProfileOf(d_disk) = "full_diagnostics"
              /\ d_disk["trace"] # D!TraceUnit(D!Config, d_disk["tracePolicy"])
              THEN {D!Write("trace", D!TraceUnit(D!Config, d_disk["tracePolicy"]))} ELSE {})
          \cup (IF d_disk["collector"] # D!CollectorUnit(D!Config.mode, D!ProfileOf(d_disk))
              THEN {D!Write("collector", D!CollectorUnit(D!Config.mode, D!ProfileOf(d_disk)))} ELSE {})
          \cup ({D!Reload} \cup (IF D!Config.mode = "paranoid3_helper" THEN {D!Step("restart",
              "helper")} ELSE {}) \cup (IF D!ProfileOf(d_disk) = "full_diagnostics"
              THEN {D!Step("restart", "trace")} ELSE {}) \cup {D!Step("restart", "collector")})
          \cup {D!Wait(IF D!ProfileOf(d_disk) = "full_diagnostics" THEN "full_diagnostics" ELSE "any")}
  BY UpgradeSteps
<1> HIDE DEF p
<1>2. D!Config \in D!Policies /\ d_disk["collector"] # D!Missing /\ d_disk["config"] # D!Missing
  BY DEF BasicInv, Typed, D!Deployed, D!Present, D!Config
<1>3. /\ D!StaleHelper => d_disk["helper"] # D!Missing
      /\ D!Present("helper") => d_disk["helper"] # D!Missing
      /\ D!ProfileOf(d_disk) = "full_diagnostics" => d_disk["trace"] # D!Missing
  BY DEF D!StaleHelper, D!Present, D!TraceTopology
<1>4. ASSUME NEW s \in StepsOf(p)
      PROVE  StepTyped(s) /\ KindStep("upgrade", h, d_disk, s)
  <2>1. \/ FALSE
        \/ s = D!Step("disable", "helper") /\ D!StaleHelper
        \/ s = D!Remove("helper") /\ D!StaleHelper
        \/ s = D!Write("helper", D!HelperUnit(D!Config)) /\ D!Present("helper")
        \/ s = D!Write("trace", D!TraceUnit(D!Config, d_disk["tracePolicy"]))
             /\ D!ProfileOf(d_disk) = "full_diagnostics"
        \/ s = D!Write("collector", D!CollectorUnit(D!Config.mode, D!ProfileOf(d_disk)))
        \/ s = D!Reload
        \/ s = D!Step("restart", "helper")
        \/ s = D!Step("restart", "trace")
        \/ s = D!Step("restart", "collector")
        \/ s = D!Wait(IF D!ProfileOf(d_disk) = "full_diagnostics" THEN "full_diagnostics" ELSE "any")
    BY <1>1, <1>4, <1>2, <1>3
  <2> QED BY <2>1, <1>2, <1>3, StepFields, WriteFields, InstallFields, RemoveFields, ReloadFields,
        WaitFields, Contents
          DEF StepTyped, KindStep, Writes, ChangedBy, D!Units, D!Texts, D!Files, Acts
<1>5. RemovesSafe(StepsOf(p), {}) /\ RestartsSafe(StepsOf(p))
  BY <1>1, <1>2, <1>3, StepFields, WriteFields, InstallFields, RemoveFields, ReloadFields, WaitFields
     DEF RemovesSafe, RestartsSafe, Acts, D!Units, D!Present
<1> QED BY <1>1, <1>4, <1>5 DEF ProgramFacts, Segment, p

LEMMA PolicyFacts ==
    ASSUME BasicInv, D!Deployed, NEW c \in D!Policies, NEW h
    PROVE  ProgramFacts("policy", h, D!UpdatePolicyProgram(c))
<1> DEFINE p == D!UpdatePolicyProgram(c)
<1>1. Segment(p, 2, 5) /\ StepsOf(p) =
                  {D!Write("config", c), D!Step("restart", "collector"), D!Wait("any")}
  BY PolicySteps
<1> HIDE DEF p
<1>2. D!Config \in D!Policies /\ d_disk["collector"] # D!Missing /\ d_disk["config"] # D!Missing
  BY DEF BasicInv, Typed, D!Deployed, D!Present, D!Config
<1>4. ASSUME NEW s \in StepsOf(p)
      PROVE  StepTyped(s) /\ KindStep("policy", h, d_disk, s)
  <2>1. \/ FALSE
        \/ s = D!Write("config", c)
        \/ s = D!Step("restart", "collector")
        \/ s = D!Wait("any")
    BY <1>1, <1>4, <1>2
  <2> QED BY <2>1, <1>2, StepFields, WriteFields, InstallFields, RemoveFields, ReloadFields,
        WaitFields, Contents
          DEF StepTyped, KindStep, Writes, ChangedBy, D!Units, D!Texts, D!Files, Acts
<1>5. RemovesSafe(StepsOf(p), {}) /\ RestartsSafe(StepsOf(p))
  BY <1>1, <1>2, StepFields, WriteFields, InstallFields, RemoveFields, ReloadFields, WaitFields
     DEF RemovesSafe, RestartsSafe, Acts, D!Units, D!Present
<1> QED BY <1>1, <1>4, <1>5 DEF ProgramFacts, Segment, p

LEMMA GrantFacts ==
    ASSUME BasicInv, D!Deployed, NEW c \in D!Policies, NEW h, d_disk["helper"] # D!Missing
    PROVE  ProgramFacts("grant", h, D!UpdateGrantProgram(c))
<1> DEFINE p == D!UpdateGrantProgram(c)
<1>1. Segment(p, 2, 5) /\ StepsOf(p) =
                  {D!Write("helper", D!HelperUnit(c))}
                  \cup (IF D!Present("trace") THEN {D!Write("trace", D!TraceUnit(c,
                      d_disk["tracePolicy"]))} ELSE {})
                  \cup {D!Write("config", c)}
                  \cup ({D!Reload} \cup (IF d_disk["config"].mode = "paranoid3_helper"
                      THEN {D!Step("restart", "helper")} ELSE {})
                      \cup (IF d_disk["trace"] # D!Missing THEN {D!Step("restart", "trace")}
                      ELSE {}) \cup {D!Step("restart", "collector")} \cup {D!Wait("any")})
  BY GrantSteps
<1> HIDE DEF p
<1>2. D!Config \in D!Policies /\ d_disk["collector"] # D!Missing /\ d_disk["config"] # D!Missing
  BY DEF BasicInv, Typed, D!Deployed, D!Present, D!Config
<1>3. D!Present("trace") <=> d_disk["trace"] # D!Missing
  BY DEF D!Present
<1>4. ASSUME NEW s \in StepsOf(p)
      PROVE  StepTyped(s) /\ KindStep("grant", h, d_disk, s)
  <2>1. \/ FALSE
        \/ s = D!Write("helper", D!HelperUnit(c))
        \/ s = D!Write("trace", D!TraceUnit(c, d_disk["tracePolicy"])) /\ d_disk["trace"] # D!Missing
        \/ s = D!Write("config", c)
        \/ s = D!Reload
        \/ s = D!Step("restart", "helper")
        \/ s = D!Step("restart", "trace")
        \/ s = D!Step("restart", "collector")
        \/ s = D!Wait("any")
    BY <1>1, <1>4, <1>2, <1>3
  <2> QED BY <2>1, <1>2, <1>3, StepFields, WriteFields, InstallFields, RemoveFields, ReloadFields,
        WaitFields, Contents
          DEF StepTyped, KindStep, Writes, ChangedBy, D!Units, D!Texts, D!Files, Acts
<1>5. RemovesSafe(StepsOf(p), {}) /\ RestartsSafe(StepsOf(p))
  BY <1>1, <1>2, <1>3, StepFields, WriteFields, InstallFields, RemoveFields, ReloadFields, WaitFields
     DEF RemovesSafe, RestartsSafe, Acts, D!Units, D!Present
<1> QED BY <1>1, <1>4, <1>5 DEF ProgramFacts, Segment, p

LEMMA UndeployFacts ==
    ASSUME BasicInv, NEW h
    PROVE  ProgramFacts("undeploy", h, D!UndeployProgram)
<1> DEFINE p == D!UndeployProgram
<1>1. Segment(p, 1, 3) /\ StepsOf(p) =
          (IF D!Present("collector") THEN {D!Step("disable", "collector")} ELSE {})
          \cup (IF D!Present("trace") THEN {D!Step("disable", "trace")} ELSE {})
          \cup (IF D!Present("helper") THEN {D!Step("disable", "helper")} ELSE {})
          \cup (IF D!Present("collector") THEN {D!Remove("collector")} ELSE {})
          \cup (IF D!Present("helper") THEN {D!Remove("helper")} ELSE {})
          \cup (IF D!Present("trace") THEN {D!Remove("trace")} ELSE {})
          \cup {D!Reload}
  BY UndeploySteps
<1> HIDE DEF p
<1>4. ASSUME NEW s \in StepsOf(p)
      PROVE  StepTyped(s) /\ KindStep("undeploy", h, d_disk, s)
  <2>1. \/ FALSE
        \/ s = D!Step("disable", "collector")
        \/ s = D!Step("disable", "trace")
        \/ s = D!Step("disable", "helper")
        \/ s = D!Remove("collector")
        \/ s = D!Remove("trace")
        \/ s = D!Remove("helper")
        \/ s = D!Reload
    BY <1>1, <1>4
  <2> QED BY <2>1, StepFields, WriteFields, InstallFields, RemoveFields, ReloadFields, WaitFields, Contents
          DEF StepTyped, KindStep, Writes, ChangedBy, D!Units, D!Texts, D!Files, Acts
<1>5. RemovesSafe(StepsOf(p), {}) /\ RestartsSafe(StepsOf(p))
  BY <1>1, StepFields, WriteFields, InstallFields, RemoveFields, ReloadFields, WaitFields
     DEF RemovesSafe, RestartsSafe, Acts, D!Units, D!Present
<1> QED BY <1>1, <1>4, <1>5 DEF ProgramFacts, Segment, p

LEMMA DeployFacts ==
    ASSUME BasicInv, NEW c \in D!Policies, NEW h
    PROVE  ProgramFacts("deploy", h, D!DeployProgram(c))
<1> DEFINE p == D!DeployProgram(c)
<1>1. Segment(p, 2, 5) /\ StepsOf(p) =
                  {D!Tool, D!Install("config", c), D!Install("collector", D!CollectorUnit(c.mode,
                      "cpu_only"))}
                  \cup (IF c.mode = "paranoid3_helper" THEN {D!Install("helper", D!HelperUnit(c))} ELSE {})
                  \cup {D!Tool}
                  \cup ({D!Reload} \cup (IF c.mode = "paranoid3_helper" THEN {D!Step("enable",
                      "helper")} ELSE {}) \cup {D!Step("enable", "collector")})
                  \cup {D!Wait("any")}
  BY DeploySteps
<1> HIDE DEF p
<1>4. ASSUME NEW s \in StepsOf(p)
      PROVE  StepTyped(s) /\ KindStep("deploy", h, d_disk, s)
  <2>1. \/ FALSE
        \/ s = D!Tool
        \/ s = D!Install("config", c)
        \/ s = D!Install("collector", D!CollectorUnit(c.mode, "cpu_only"))
        \/ s = D!Install("helper", D!HelperUnit(c))
        \/ s = D!Reload
        \/ s = D!Step("enable", "helper")
        \/ s = D!Step("enable", "collector")
        \/ s = D!Wait("any")
    BY <1>1, <1>4
  <2> QED BY <2>1, StepFields, WriteFields, InstallFields, RemoveFields, ReloadFields, WaitFields, Contents
          DEF StepTyped, KindStep, Writes, ChangedBy, D!Units, D!Texts, D!Files, Acts
<1>5. RemovesSafe(StepsOf(p), {}) /\ RestartsSafe(StepsOf(p))
  BY <1>1, StepFields, WriteFields, InstallFields, RemoveFields, ReloadFields, WaitFields
     DEF RemovesSafe, RestartsSafe, Acts, D!Units, D!Present
<1> QED BY <1>1, <1>4, <1>5 DEF ProgramFacts, Segment, p

----------------------------------------------------------------------------
(* A deployment starts the collector last and installs the policy first.   *)

LEMMA FinalJoin ==
    ASSUME NEW p, NEW q, IsProgram(p), IsProgram(q), Final(p), Final(q),
           \/ \A s \in StepsOf(p) : ~Acts(s, "enable", "collector")
           \/ \A s \in StepsOf(q) : Stage(s) = 5
    PROVE  Final(Join(p, q)) /\ IsProgram(Join(p, q))
<1>1. Len(p) \in Nat /\ Len(q) \in Nat
  BY ProgramLength
<1>2. /\ IsProgram(p \o q) /\ Len(p \o q) = Len(p) + Len(q)
      /\ \A i \in 1 .. Len(p) + Len(q) :
            (p \o q)[i] = IF i <= Len(p) THEN p[i] ELSE q[i - Len(p)]
  BY Concatenated
<1>3. \A i \in 1 .. Len(p) : p[i] \in StepsOf(p)
  BY DEF StepsOf
<1>4. \A i \in 1 .. Len(q) : q[i] \in StepsOf(q)
  BY DEF StepsOf
<1>5. ASSUME NEW i \in 1 .. Len(p) + Len(q), NEW j \in 1 .. Len(p) + Len(q), i < j,
             Acts((p \o q)[i], "enable", "collector")
      PROVE  Stage((p \o q)[j]) = 5
  <2>1. CASE j <= Len(p)
    <3>1. i \in 1 .. Len(p) /\ j \in 1 .. Len(p) /\ (p \o q)[i] = p[i] /\ (p \o q)[j] = p[j]
      BY <1>1, <1>2, <1>5, <2>1
    <3> QED BY <3>1, <1>5 DEF Final
  <2>2. CASE i <= Len(p) /\ ~(j <= Len(p))
    <3>1. i \in 1 .. Len(p) /\ j - Len(p) \in 1 .. Len(q)
          /\ (p \o q)[i] = p[i] /\ (p \o q)[j] = q[j - Len(p)]
      BY <1>1, <1>2, <1>5, <2>2
    <3> QED BY <3>1, <1>3, <1>4, <1>5
  <2>3. CASE ~(i <= Len(p))
    <3>1. i - Len(p) \in 1 .. Len(q) /\ j - Len(p) \in 1 .. Len(q) /\ i - Len(p) < j - Len(p)
          /\ (p \o q)[i] = q[i - Len(p)] /\ (p \o q)[j] = q[j - Len(p)]
      BY <1>1, <1>2, <1>5, <2>3
    <3> QED BY <3>1, <1>5 DEF Final
  <2> QED BY <2>1, <2>2, <2>3
<1> QED BY <1>2, <1>5 DEF Final, Join

LEMMA FinalSingle ==
    ASSUME NEW s
    PROVE  Final(<<s>>) /\ IsProgram(<<s>>) /\ StepsOf(<<s>>) = {s}
<1>1. Len(<<s>>) = 1
  OBVIOUS
<1>2. \A i, j \in 1 .. 1 : ~(i < j)
  OBVIOUS
<1> QED BY <1>1, <1>2, SingleSegment DEF Final, Segment

LEMMA FinalEmpty == Final(<<>>) /\ IsProgram(<<>>) /\ StepsOf(<<>>) = {}
<1>1. \A i \in 1 .. Len(<<>>) : FALSE
  OBVIOUS
<1> QED BY <1>1, EmptySegment DEF Final, Segment

\* Programs without a start of the collector.
LEMMA FinalFree ==
    ASSUME NEW p, IsProgram(p), \A s \in StepsOf(p) : ~Acts(s, "enable", "collector")
    PROVE  Final(p)
BY DEF Final, StepsOf

LEMMA StartFinal ==
    ASSUME NEW target
    PROVE  Final(D!StartCommands(target)) /\ IsProgram(D!StartCommands(target))
<1> DEFINE w == D!When(target = "paranoid3_helper", <<D!Step("enable", "helper")>>)
           p == Join(<<D!Reload>>, w)
<1>1. IsProgram(w) /\ \A s \in StepsOf(w) : s = D!Step("enable", "helper")
  BY FinalSingle, FinalEmpty DEF D!When
<1>2. \A s \in StepsOf(w) \cup {D!Reload} : ~Acts(s, "enable", "collector")
  BY <1>1, StepFields, ReloadFields DEF Acts
<1>3. IsProgram(p) /\ StepsOf(p) = {D!Reload} \cup StepsOf(w)
  BY <1>1, Concatenated, FinalSingle DEF Join
<1>4. Final(p)
  BY <1>2, <1>3, FinalFree
<1> HIDE DEF p, w
<1>5. Final(Join(p, <<D!Step("enable", "collector")>>))
      /\ IsProgram(Join(p, <<D!Step("enable", "collector")>>))
  BY <1>2, <1>3, <1>4, FinalJoin, FinalSingle
<1> QED BY <1>5 DEF p, w, Join, D!StartCommands

\* The first steps of a longer program.
LEMMA FirstSteps ==
    ASSUME NEW p, NEW q, IsProgram(p), IsProgram(q), Len(p) >= 2
    PROVE  Len(Join(p, q)) >= 2 /\ Join(p, q)[1] = p[1] /\ Join(p, q)[2] = p[2]
<1>1. Len(p) \in Nat /\ Len(q) \in Nat
  BY ProgramLength
<1>2. Len(p \o q) = Len(p) + Len(q)
      /\ \A i \in 1 .. Len(p) + Len(q) :
            (p \o q)[i] = IF i <= Len(p) THEN p[i] ELSE q[i - Len(p)]
  BY Concatenated
<1>3. 1 \in 1 .. Len(p) + Len(q) /\ 2 \in 1 .. Len(p) + Len(q) /\ 1 <= Len(p) /\ 2 <= Len(p)
  BY <1>1
<1>4. (p \o q)[1] = p[1] /\ (p \o q)[2] = p[2]
  BY <1>2, <1>3
<1> QED BY <1>1, <1>2, <1>4 DEF Join

LEMMA DeployFinal ==
    ASSUME NEW c
    PROVE  Final(D!DeployProgram(c)) /\ Len(D!DeployProgram(c)) >= 2 /\ D!DeployProgram(c)[1] = D!Tool
           /\ D!DeployProgram(c)[2] = D!Install("config", c)
<1> DEFINE a == <<D!Tool, D!Install("config", c), D!Install("collector", D!CollectorUnit(c.mode,
      "cpu_only"))>>
           w == D!When(c.mode = "paranoid3_helper", <<D!Install("helper", D!HelperUnit(c))>>)
           b == Join(a, w)
           d == Join(b, <<D!Tool>>)
           e == Join(d, D!StartCommands(c.mode))
           g == Join(e, <<D!Wait("any")>>)
<1>1. /\ IsProgram(a) /\ Len(a) = 3 /\ a[1] = D!Tool /\ a[2] = D!Install("config", c)
      /\ StepsOf(a) = {D!Tool, D!Install("config", c), D!Install("collector",
           D!CollectorUnit(c.mode, "cpu_only"))}
  BY TripleSegment, StepStages DEF Segment
<1>2. IsProgram(w) /\ \A s \in StepsOf(w) : s = D!Install("helper", D!HelperUnit(c))
  BY FinalSingle, FinalEmpty DEF D!When
<1>3. IsProgram(b) /\ StepsOf(b) = StepsOf(a) \cup StepsOf(w)
  BY <1>1, <1>2, Concatenated DEF Join
<1>4. IsProgram(d) /\ StepsOf(d) = StepsOf(b) \cup {D!Tool}
  BY <1>3, Concatenated, FinalSingle DEF Join
<1>5. \A s \in StepsOf(d) : ~Acts(s, "enable", "collector")
  BY <1>1, <1>2, <1>3, <1>4, InstallFields, ReloadFields DEF Acts
<1>6. Len(a) >= 2
  BY <1>1
<1> HIDE DEF a, w
<1>7. Len(b) >= 2 /\ b[1] = D!Tool /\ b[2] = D!Install("config", c)
  BY <1>1, <1>2, <1>6, FirstSteps
<1> HIDE DEF b
<1>8. Len(d) >= 2 /\ d[1] = D!Tool /\ d[2] = D!Install("config", c)
  BY <1>3, <1>7, FirstSteps, FinalSingle
<1>9. Final(d)
  BY <1>4, <1>5, FinalFree
<1> HIDE DEF d
<1>10. Final(e) /\ IsProgram(e)
  BY <1>4, <1>5, <1>9, StartFinal, FinalJoin
<1>11. Len(e) >= 2 /\ e[1] = D!Tool /\ e[2] = D!Install("config", c)
  BY <1>4, <1>8, FirstSteps, StartFinal
<1> HIDE DEF e
<1>12. \A s \in StepsOf(<<D!Wait("any")>>) : Stage(s) = 5
  BY FinalSingle, StepStages
<1>13. Final(g)
  BY <1>10, <1>12, FinalSingle, FinalJoin
<1>14. Len(g) >= 2 /\ g[1] = D!Tool /\ g[2] = D!Install("config", c)
  BY <1>10, <1>11, FirstSteps, FinalSingle
<1>15. D!DeployProgram(c) = g
  BY DEF g, e, d, b, a, w, Join, D!DeployProgram
<1> QED BY <1>13, <1>14, <1>15

LEMMA DeployShape ==
    ASSUME NEW c
    PROVE  DeployForm(D!DeployProgram(c))
<1> DEFINE p == D!DeployProgram(c)
<1>1. StepsOf(p) =
                  {D!Tool, D!Install("config", c), D!Install("collector", D!CollectorUnit(c.mode,
                      "cpu_only"))}
                  \cup (IF c.mode = "paranoid3_helper" THEN {D!Install("helper", D!HelperUnit(c))} ELSE {})
                  \cup {D!Tool}
                  \cup ({D!Reload} \cup (IF c.mode = "paranoid3_helper" THEN {D!Step("enable",
                      "helper")} ELSE {}) \cup {D!Step("enable", "collector")})
                  \cup {D!Wait("any")}
  BY DeploySteps
<1>2. Final(p) /\ Len(p) >= 2 /\ p[1] = D!Tool /\ Acts(p[2], "install", "config")
  BY DeployFinal, InstallFields DEF Acts
<1> HIDE DEF p
<1>3. \A s, t \in StepsOf(p) : s.do = "install" /\ t.do = "install" /\ s.on = t.on => s = t
  BY <1>1, StepFields, InstallFields, ReloadFields, WaitFields
<1>4. \A s \in StepsOf(p) : s.do = "install" /\ s.on \in D!Units => D!Step("enable", s.on) \in StepsOf(p)
  <2> SUFFICES ASSUME NEW s \in StepsOf(p), s.do = "install", s.on \in D!Units
               PROVE  D!Step("enable", s.on) \in StepsOf(p)
    OBVIOUS
  <2>1. \/ s = D!Install("collector", D!CollectorUnit(c.mode, "cpu_only"))
        \/ s = D!Install("helper", D!HelperUnit(c)) /\ c.mode = "paranoid3_helper"
    BY <1>1, StepFields, InstallFields, ReloadFields, WaitFields DEF D!Units
  <2> QED BY <2>1, <1>1, InstallFields
<1> QED BY <1>2, <1>3, <1>4 DEF DeployForm, p

----------------------------------------------------------------------------
(* The rollbacks.                                                          *)

\* What may be rolled back: o is the transaction that failed.
Undoable(o) ==
    /\ o.kind \in {"mode", "profile", "upgrade", "policy", "grant", "deploy"}
    /\ Begun(o.kind, o.before, o.healthy) /\ Typed(o.before)
    /\ \A s \in D!Done(o) : StepTyped(s) /\ KindStep(o.kind, o.healthy, o.before, s)

\* What a rollback is.
RollbackFacts(o, p) ==
    /\ IsProgram(p) /\ Ordered(p)
    /\ \A s \in StepsOf(p) : StepTyped(s)
    /\ \A s \in StepsOf(p) : s.do = "remove" /\ s.on \in D!Units =>
          \/ Acts(s, "remove", "trace") /\ o.kind = "profile" /\ o.before["trace"] = D!Missing
          \/ \E t \in StepsOf(p) : /\ Acts(t, "disable", s.on)
                                   /\ t.errors = "raise" \/ (t.errors = "collect" /\ s.on \in s.unless)
          \/ s.on \in Installed(o) \ Attempted(o) /\ o.kind = "deploy"
    /\ \A s \in StepsOf(p) : Acts(s, "restart", "trace") =>
          /\ o.kind \in {"upgrade", "grant"} /\ o.before["trace"] # D!Missing
          /\ \A t \in StepsOf(p) : t.do # "remove"

LEMMA RestoreCases ==
    ASSUME NEW f, NEW o, NEW d, NEW s \in RestoreSteps(f, o, d)
    PROVE  \/ s = D!Remove(f) /\ o.before[f] = D!Missing
           \/ s = D!Write(f, o.before[f]) /\ o.before[f] # D!Missing
BY DEF RestoreSteps

LEMMA BeforeTyped ==
    ASSUME NEW o, Typed(o.before)
    PROVE  /\ o.before["config"] # D!Missing => o.before["config"] \in D!Policies
           /\ o.before["profile"] # D!Missing => o.before["profile"] \in [profile : D!Profiles]
BY DEF Typed

LEMMA ModeRollbackFacts ==
    ASSUME NEW o, NEW d, Undoable(o), o.kind = "mode"
    PROVE  RollbackFacts(o, D!RollbackModeSwitch(o, d))
<1> DEFINE p == D!RollbackModeSwitch(o, d)
<1>1. Segment(p, 1, 5) /\ StepsOf(p) =
                  {D!Step("disable", "collector")}
                  \cup (IF o.before["config"].mode = "cap_perfmon" THEN {D!Step("disable", "helper")} ELSE {})
                  \cup RestoreSteps("config", o, d)
                  \cup RestoreSteps("collector", o, d)
                  \cup RestoreSteps("helper", o, d)
                  \cup ({D!Reload} \cup (IF o.before["config"].mode = "paranoid3_helper"
                      THEN {D!Step("enable", "helper")} ELSE {}) \cup {D!Step("enable", "collector")})
                  \cup {D!Wait(D!ProfileOf(o.before))}
  BY ModeRollbackSteps
<1> HIDE DEF p
<1>2. /\ o.before["config"] # D!Missing /\ o.before["collector"] # D!Missing
      /\ o.before["config"] \in D!Policies
      /\ o.before["config"].mode = "paranoid3_helper" => o.before["helper"] # D!Missing
  BY BeforeTyped DEF Undoable, Begun
<1>3. o.before["config"].mode \in D!CollectorModes
  BY <1>2 DEF D!Policies, D!Configs
<1>4. ASSUME NEW s \in StepsOf(p)
      PROVE  \/ s = D!Step("disable", "collector") \/ s = D!Step("disable", "helper")
             \/ s = D!Write("config", o.before["config"])
             \/ s = D!Write("collector", o.before["collector"])
             \/ s = D!Write("helper", o.before["helper"]) /\ o.before["helper"] # D!Missing
             \/ s = D!Remove("helper") /\ o.before["helper"] = D!Missing
             \/ s = D!Reload \/ s = D!Step("enable", "helper") \/ s = D!Step("enable", "collector")
             \/ s = D!Wait(D!ProfileOf(o.before))
  BY <1>1, <1>2, RestoreCases
<1>5. \A s \in StepsOf(p) : StepTyped(s)
  BY <1>2, <1>4, StepFields, WriteFields, RemoveFields, ReloadFields, WaitFields
     DEF StepTyped, Writes, D!Units, D!Texts, D!Files
<1>6. ASSUME NEW s \in StepsOf(p), s.do = "remove"
      PROVE  s.on = "helper" /\ D!Step("disable", "helper") \in StepsOf(p)
  <2>1. s = D!Remove("helper") /\ o.before["helper"] = D!Missing
    BY <1>4, <1>6, StepFields, WriteFields, RemoveFields, ReloadFields, WaitFields
  <2>2. o.before["config"].mode = "cap_perfmon"
    BY <2>1, <1>2, <1>3 DEF D!CollectorModes
  <2> QED BY <1>1, <2>1, <2>2, RemoveFields
<1>7. \A s \in StepsOf(p) : s.do # "restart"
  BY <1>4, StepFields, WriteFields, RemoveFields, ReloadFields, WaitFields
<1> QED BY <1>1, <1>5, <1>6, <1>7, StepFields DEF RollbackFacts, Segment, Acts, p

LEMMA ProfileRollbackFacts ==
    ASSUME NEW o, NEW d, Undoable(o), o.kind = "profile"
    PROVE  RollbackFacts(o, D!RollbackProfileSwitch(o, d))
<1> DEFINE p == D!RollbackProfileSwitch(o, d)
<1>1. Segment(p, 1, 5) /\ StepsOf(p) =
                  {D!Tolerated(D!Step("stop", "collector")), D!Tolerated(D!Step("disable", "trace"))}
                  \cup RestoreSteps("collector", o, d)
                  \cup RestoreSteps("trace", o, d)
                  \cup RestoreSteps("profile", o, d)
                  \cup RestoreSteps("tracePolicy", o, d)
                  \cup {D!Reload}
                  \cup (IF D!ProfileOf(o.before) = "full_diagnostics" THEN {D!Step("enable",
                      "trace")} ELSE {})
                  \cup {D!Step("enable", "collector"), D!Wait(D!ProfileOf(o.before))}
  BY ProfileRollbackSteps
<1> HIDE DEF p
<1>2. /\ o.before["collector"] # D!Missing
      /\ o.before["profile"] # D!Missing => o.before["profile"] \in [profile : D!Profiles]
  BY BeforeTyped DEF Undoable, Begun
<1>4. ASSUME NEW s \in StepsOf(p)
      PROVE  \/ s = D!Tolerated(D!Step("stop", "collector")) \/ s = D!Tolerated(D!Step("disable", "trace"))
             \/ s = D!Write("collector", o.before["collector"])
             \/ s = D!Write("trace", o.before["trace"]) /\ o.before["trace"] # D!Missing
             \/ s = D!Remove("trace") /\ o.before["trace"] = D!Missing
             \/ s = D!Write("profile", o.before["profile"]) /\ o.before["profile"] # D!Missing
             \/ s = D!Remove("profile")
             \/ s = D!Write("tracePolicy", o.before["tracePolicy"]) \/ s = D!Remove("tracePolicy")
             \/ s = D!Reload \/ s = D!Step("enable", "trace") \/ s = D!Step("enable", "collector")
             \/ s = D!Wait(D!ProfileOf(o.before))
  BY <1>1, <1>2, RestoreCases
<1>5. \A s \in StepsOf(p) : StepTyped(s)
  BY <1>2, <1>4, StepFields, ToleratedFields, WriteFields, RemoveFields, ReloadFields, WaitFields
     DEF StepTyped, Writes, D!Units, D!Texts, D!Files
<1>6. \A s \in StepsOf(p) : s.do = "remove" /\ s.on \in D!Units =>
         Acts(s, "remove", "trace") /\ o.before["trace"] = D!Missing
  BY <1>4, StepFields, ToleratedFields, WriteFields, RemoveFields, ReloadFields, WaitFields
     DEF Acts, D!Units
<1>7. \A s \in StepsOf(p) : s.do # "restart"
  BY <1>4, StepFields, ToleratedFields, WriteFields, RemoveFields, ReloadFields, WaitFields
<1> QED BY <1>1, <1>5, <1>6, <1>7 DEF RollbackFacts, Segment, Acts, p

LEMMA ReplacedBefore ==
    ASSUME NEW o, Undoable(o), o.kind \in {"upgrade", "grant"}
    PROVE  /\ \A f \in D!Replaced(o) : o.before[f] # D!Missing
           /\ D!Remove("helper") \in D!Done(o) => o.before["helper"] # D!Missing
BY RemoveFields DEF Undoable, D!Replaced, KindStep, Writes

LEMMA UpgradeRollbackFacts ==
    ASSUME NEW o, Undoable(o), o.kind = "upgrade"
    PROVE  RollbackFacts(o, D!RollbackUpgrade(o))
<1> DEFINE p == D!RollbackUpgrade(o)
<1>1. Segment(p, 2, 4) /\ StepsOf(p) =
                  (IF "collector" \in D!Replaced(o) THEN {D!Write("collector",
                      o.before["collector"])} ELSE {})
                  \cup (IF "trace" \in D!Replaced(o) THEN {D!Write("trace", o.before["trace"])} ELSE {})
                  \cup (IF "helper" \in D!Replaced(o) \/ D!Remove("helper") \in D!Done(o)
                      THEN {D!Write("helper", o.before["helper"])} ELSE {})
                  \cup ({D!Reload} \cup (IF o.before["config"].mode = "paranoid3_helper"
                      THEN {D!Step("restart", "helper")} ELSE {})
                      \cup (IF D!ProfileOf(o.before) = "full_diagnostics" THEN {D!Step("restart",
                      "trace")} ELSE {}) \cup {D!Step("restart", "collector")})
  BY UpgradeRollbackSteps
<1> HIDE DEF p
<1>2. D!ProfileOf(o.before) = "full_diagnostics" => o.before["trace"] # D!Missing
  BY DEF Undoable, Begun
<1>4. ASSUME NEW s \in StepsOf(p)
      PROVE  \/ s = D!Write("collector", o.before["collector"]) /\ o.before["collector"] # D!Missing
             \/ s = D!Write("trace", o.before["trace"]) /\ o.before["trace"] # D!Missing
             \/ s = D!Write("helper", o.before["helper"]) /\ o.before["helper"] # D!Missing
             \/ s = D!Reload \/ s = D!Step("restart", "helper") \/ s = D!Step("restart", "collector")
             \/ s = D!Step("restart", "trace") /\ o.before["trace"] # D!Missing
  BY <1>1, <1>2, ReplacedBefore
<1>5. \A s \in StepsOf(p) : StepTyped(s)
  BY <1>4, StepFields, WriteFields, ReloadFields
     DEF StepTyped, Writes, D!Units, D!Texts, D!Files
<1>6. \A s \in StepsOf(p) : s.do # "remove"
  BY <1>4, StepFields, WriteFields, ReloadFields
<1>7. \A s \in StepsOf(p) : Acts(s, "restart", "trace") => o.before["trace"] # D!Missing
  BY <1>4, StepFields, WriteFields, ReloadFields DEF Acts
<1> QED BY <1>1, <1>5, <1>6, <1>7 DEF RollbackFacts, Segment, p

LEMMA GrantRollbackFacts ==
    ASSUME NEW o, Undoable(o), o.kind = "grant"
    PROVE  RollbackFacts(o, D!RollbackGrant(o))
<1> DEFINE p == D!RollbackGrant(o)
<1>1. Segment(p, 2, 5) /\ StepsOf(p) =
                  (IF "config" \in D!Replaced(o) THEN {D!Write("config", o.before["config"])} ELSE {})
                  \cup (IF "trace" \in D!Replaced(o) THEN {D!Write("trace", o.before["trace"])} ELSE {})
                  \cup (IF "helper" \in D!Replaced(o) THEN {D!Write("helper", o.before["helper"])} ELSE {})
                  \cup ({D!Reload} \cup (IF o.before["config"].mode = "paranoid3_helper"
                      THEN {D!Step("restart", "helper")} ELSE {})
                      \cup (IF o.before["trace"] # D!Missing THEN {D!Step("restart", "trace")}
                      ELSE {}) \cup {D!Step("restart", "collector")} \cup {D!Wait("any")})
  BY GrantRollbackSteps
<1> HIDE DEF p
<1>2. o.before["config"] # D!Missing /\ o.before["config"] \in D!Policies
  BY BeforeTyped DEF Undoable, Begun
<1>4. ASSUME NEW s \in StepsOf(p)
      PROVE  \/ s = D!Write("config", o.before["config"])
             \/ s = D!Write("trace", o.before["trace"]) /\ o.before["trace"] # D!Missing
             \/ s = D!Write("helper", o.before["helper"]) /\ o.before["helper"] # D!Missing
             \/ s = D!Reload \/ s = D!Step("restart", "helper") \/ s = D!Step("restart", "collector")
             \/ s = D!Step("restart", "trace") /\ o.before["trace"] # D!Missing
             \/ s = D!Wait("any")
  BY <1>1, ReplacedBefore
<1>5. \A s \in StepsOf(p) : StepTyped(s)
  BY <1>2, <1>4, StepFields, WriteFields, ReloadFields, WaitFields
     DEF StepTyped, Writes, D!Units, D!Texts, D!Files
<1>6. \A s \in StepsOf(p) : s.do # "remove"
  BY <1>4, StepFields, WriteFields, ReloadFields, WaitFields
<1>7. \A s \in StepsOf(p) : Acts(s, "restart", "trace") => o.before["trace"] # D!Missing
  BY <1>4, StepFields, WriteFields, ReloadFields, WaitFields DEF Acts
<1> QED BY <1>1, <1>5, <1>6, <1>7 DEF RollbackFacts, Segment, p

LEMMA PolicyRollbackFacts ==
    ASSUME NEW o, NEW d, Undoable(o), o.kind = "policy"
    PROVE  RollbackFacts(o, D!RollbackPolicy(o, d))
<1> DEFINE p == D!RollbackPolicy(o, d)
<1>1. IsProgram(p) /\ Ordered(p)
      /\ \A s \in StepsOf(p) : \/ s = D!Write("config", o.before["config"])
                               \/ s = D!Step("restart", "collector") \/ s = D!Wait("any")
  BY PolicySteps, EmptySegment DEF D!RollbackPolicy, D!When, Segment
<1> HIDE DEF p
<1>2. o.before["config"] # D!Missing /\ o.before["config"] \in D!Policies
  BY BeforeTyped DEF Undoable, Begun
<1>5. \A s \in StepsOf(p) : StepTyped(s)
  BY <1>1, <1>2, StepFields, WriteFields, WaitFields
     DEF StepTyped, Writes, D!Units, D!Texts, D!Files
<1>6. \A s \in StepsOf(p) : s.do # "remove" /\ ~Acts(s, "restart", "trace")
  BY <1>1, StepFields, WriteFields, WaitFields DEF Acts
<1> QED BY <1>1, <1>5, <1>6 DEF RollbackFacts, p

LEMMA DeployRollbackFacts ==
    ASSUME NEW o, Undoable(o), o.kind = "deploy"
    PROVE  RollbackFacts(o, D!RollbackDeployment(o))
<1> DEFINE p == D!RollbackDeployment(o)
<1>1. Segment(p, 1, 3) /\ StepsOf(p) =
                  (IF "collector" \in Attempted(o) THEN {D!Collected(D!Step("disable", "collector"),
                      {})} ELSE {})
                  \cup (IF "helper" \in Attempted(o) THEN {D!Collected(D!Step("disable", "helper"),
                      {})} ELSE {})
                  \cup (IF "collector" \in Installed(o) THEN {D!Collected(D!Remove("collector"),
                      {"collector"})} ELSE {})
                  \cup (IF "helper" \in Installed(o) THEN {D!Collected(D!Remove("helper"),
                      {"helper"})} ELSE {})
                  \cup (IF "config" \in Installed(o) THEN {D!Collected(D!Remove("config"),
                      {"collector", "helper"})} ELSE {})
                  \cup (IF Installed(o) \cap D!Units # {} THEN {D!Collected(D!Reload, {})} ELSE {})
  BY DeployRollbackSteps
<1> HIDE DEF p
<1>4. ASSUME NEW s \in StepsOf(p)
      PROVE  \/ s = D!Collected(D!Step("disable", "collector"), {})
             \/ s = D!Collected(D!Step("disable", "helper"), {})
             \/ s = D!Collected(D!Remove("collector"), {"collector"}) /\ "collector" \in Installed(o)
             \/ s = D!Collected(D!Remove("helper"), {"helper"}) /\ "helper" \in Installed(o)
             \/ s = D!Collected(D!Remove("config"), {"collector", "helper"})
             \/ s = D!Collected(D!Reload, {})
  BY <1>1
<1>5. \A s \in StepsOf(p) : StepTyped(s)
  BY <1>4, CollectedFields DEF StepTyped, Writes, D!Units, D!Texts, D!Files
<1>6. ASSUME NEW s \in StepsOf(p), s.do = "remove", s.on \in D!Units
      PROVE  \/ \E t \in StepsOf(p) : /\ Acts(t, "disable", s.on)
                                      /\ t.errors = "collect" /\ s.on \in s.unless
             \/ s.on \in Installed(o) \ Attempted(o)
  <2>1. s.on \in Installed(o) /\ s.on \in s.unless /\ s.on \in {"collector", "helper"}
    BY <1>4, <1>6, CollectedFields DEF D!Units
  <2>2. s.on \in Attempted(o) => D!Collected(D!Step("disable", s.on), {}) \in StepsOf(p)
    BY <1>1, <2>1
  <2> QED BY <2>1, <2>2, CollectedFields DEF Acts
<1>7. \A s \in StepsOf(p) : s.do # "restart"
  BY <1>4, CollectedFields
<1> QED BY <1>1, <1>5, <1>6, <1>7 DEF RollbackFacts, Segment, Acts, p

LEMMA RollbackForms ==
    ASSUME NEW o, NEW d, Undoable(o)
    PROVE  RollbackFacts(o, D!Rollback(o, d))
<1>1. CASE o.kind = "mode"
  BY <1>1, ModeRollbackFacts DEF D!Rollback
<1>2. CASE o.kind = "profile"
  BY <1>2, ProfileRollbackFacts DEF D!Rollback
<1>3. CASE o.kind = "upgrade"
  BY <1>3, UpgradeRollbackFacts DEF D!Rollback
<1>4. CASE o.kind = "policy"
  BY <1>4, PolicyRollbackFacts DEF D!Rollback
<1>5. CASE o.kind = "grant"
  BY <1>5, GrantRollbackFacts DEF D!Rollback
<1>6. CASE o.kind = "deploy"
  BY <1>6, DeployRollbackFacts DEF D!Rollback
<1> QED BY <1>1, <1>2, <1>3, <1>4, <1>5, <1>6 DEF Undoable

----------------------------------------------------------------------------
(* The invariant on the programs, kept by every step.                      *)

StructInv == BasicInv /\ OrderInv /\ KindInv /\ EnabledInv

LEMMA InitStruct ==
    ASSUME D!Init
    PROVE  StructInv
<1>1. d_op = D!NoTransaction /\ d_op.program = <<>> /\ d_op.n = 0 /\ d_op.phase = "ended" /\ d_op.failed = {}
      /\ d_op.faults = 0 /\ d_op.before = [f \in D!Files |-> D!Missing] /\ d_op.result = "none"
  BY DEF D!Init, D!NoTransaction
<1>2. IsProgram(d_op.program) /\ StepsOf(d_op.program) = {} /\ Ordered(d_op.program) /\ Len(d_op.program) = 0
  BY <1>1, EmptySegment DEF Segment
<1>3. BasicInv
  <2>1. HostForm
    BY DEF D!Init, HostForm, D!Files, D!Texts
  <2>2. Typed(d_disk) /\ Typed(d_op.before)
    BY <1>1 DEF D!Init, Typed, D!Files, D!Texts, D!Units
  <2>3. OpForm
    BY <1>1 DEF OpForm, D!NoTransaction
  <2> QED BY <1>1, <1>2, <2>1, <2>2, <2>3 DEF BasicInv, D!Init
<1>4. Rest = {}
  BY <1>1, <1>2 DEF Rest
<1>5. EnabledInv
  BY <1>1, <1>4 DEF D!Init, EnabledInv, EnabledFiles, RemovesSafe, RestartsSafe, Off
<1> QED BY <1>1, <1>2, <1>3, <1>5 DEF StructInv, OrderInv, KindInv

LEMMA BegunRest ==
    ASSUME NEW p, IsProgram(p)
    PROVE  /\ {p[i] : i \in (0 + 1) .. Len(p)} = StepsOf(p)
           /\ {p[i] : i \in 1 .. 0} = {} /\ 0 <= Len(p)
<1>1. Len(p) \in Nat /\ 0 + 1 = 1
  BY ProgramLength
<1>2. \A i \in 1 .. 0 : FALSE
  OBVIOUS
<1> QED BY <1>1, <1>2 DEF StepsOf

HealthOf == IF D!Healthy THEN "yes" ELSE IF D!Absent /\ D!ProfileOf(d_disk) = "cpu_only"
    THEN "absent" ELSE "no"

LEMMA BeginForm ==
    ASSUME NEW kind, NEW p, D!Begin(kind, p), IsProgram(p)
    PROVE  /\ d_op'.kind = kind /\ d_op'.phase = "forward" /\ d_op'.program = p /\ d_op'.n = 0
           /\ d_op'.before = d_disk /\ d_op'.healthy = HealthOf /\ d_op'.faults = 0 /\ d_op'.failed = {}
           /\ d_op'.result = "none" /\ OpForm' /\ Rest' = StepsOf(p) /\ D!Done(d_op)' = {}
           /\ d_disk' = d_disk /\ d_loaded' = d_loaded /\ d_enabled' = d_enabled /\ d_running' = d_running
           /\ d_package' = d_package /\ d_faults' = d_faults
<1>1. /\ d_op'.kind = kind /\ d_op'.phase = "forward" /\ d_op'.program = p /\ d_op'.n = 0
      /\ d_op'.before = d_disk /\ d_op'.healthy = HealthOf /\ d_op'.faults = 0 /\ d_op'.failed = {}
      /\ d_op'.result = "none"
  BY DEF D!Begin, D!NoTransaction, HealthOf
<1>2. OpForm'
  BY DEF D!Begin, D!NoTransaction, OpForm
<1>3. Rest' = StepsOf(p) /\ D!Done(d_op)' = {}
  BY <1>1, BegunRest DEF Rest, D!Done
<1> QED BY <1>1, <1>2, <1>3 DEF D!Begin

LEMMA BeginStruct ==
    ASSUME StructInv, NEW kind, NEW p, D!Begin(kind, p), ProgramFacts(kind, HealthOf, p),
           Begun(kind, d_disk, HealthOf), kind = "deploy" => DeployForm(p)
    PROVE  StructInv'
<1>0. IsProgram(p)
  BY DEF ProgramFacts
<1>1. /\ d_op'.kind = kind /\ d_op'.phase = "forward" /\ d_op'.program = p /\ d_op'.n = 0
      /\ d_op'.before = d_disk /\ d_op'.healthy = HealthOf /\ d_op'.faults = 0 /\ d_op'.failed = {}
      /\ d_op'.result = "none" /\ OpForm' /\ Rest' = StepsOf(p) /\ D!Done(d_op)' = {}
      /\ d_disk' = d_disk /\ d_loaded' = d_loaded /\ d_enabled' = d_enabled /\ d_running' = d_running
      /\ d_package' = d_package /\ d_faults' = d_faults
  BY <1>0, BeginForm
<1> HIDE DEF HealthOf
<1>2. BasicInv'
  <2>1. HostForm' /\ Typed(d_disk)' /\ d_package' \in Versions
    BY <1>1 DEF StructInv, BasicInv, HostForm, Typed
  <2>2. Typed(d_op.before)'
    BY <1>1 DEF StructInv, BasicInv, Typed
  <2> QED BY <1>0, <1>1, <2>1, <2>2, BegunRest DEF BasicInv, ProgramFacts
<1>3. OrderInv'
  BY <1>1 DEF OrderInv, ProgramFacts
<1>4. KindInv'
  BY <1>1 DEF KindInv, ProgramFacts
<1>5. EnabledInv'
  <2>1. EnabledFiles' /\ EnabledFiles
    BY <1>1 DEF StructInv, EnabledInv, EnabledFiles, Off
  <2>2. RemovesSafe(Rest, d_op.failed)'
    BY <1>1 DEF ProgramFacts, RemovesSafe, Off
  <2>3. RestartsSafe(Rest)'
    BY <1>1 DEF ProgramFacts, RestartsSafe
  <2>4. d_op'.before["trace"] = D!Missing => Off("trace")'
    BY <1>1, <2>1 DEF EnabledFiles, Off, D!Units
  <2>5. \A u \in {"collector", "helper"} : d_op'.before[u] = D!Missing => u \notin d_enabled'
    BY <1>1, <2>1 DEF EnabledFiles, Off, D!Units
  <2> QED BY <2>1, <2>2, <2>3, <2>4, <2>5 DEF EnabledInv
<1> QED BY <1>2, <1>3, <1>4, <1>5 DEF StructInv

LEMMA CommandStruct ==
    ASSUME StructInv, D!Command
    PROVE  StructInv'
<1>0. BasicInv
  BY DEF StructInv
<1>h. /\ HealthOf \in {"yes", "absent", "no"}
      /\ HealthOf = "yes" => D!Consistent(d_disk)
      /\ HealthOf = "absent" => \A u \in D!Units : d_disk[u] = D!Missing
  BY DEF HealthOf, D!Healthy, D!Absent
<1> HIDE DEF HealthOf
<1>d. ASSUME D!Deployed
      PROVE  HealthOf # "absent" /\ d_disk["config"] # D!Missing /\ d_disk["collector"] # D!Missing
  BY <1>d, <1>h DEF D!Deployed, D!Present, D!Units
<1>1. ASSUME NEW c \in D!Policies, D!Deploy(c) PROVE StructInv'
  <2>1. Begun("deploy", d_disk, HealthOf)
    BY <1>h DEF Begun
  <2> QED BY <1>0, <1>1, <2>1, DeployFacts, DeployShape, BeginStruct DEF D!Deploy
<1>2. ASSUME NEW c \in D!Policies, D!UpdatePolicy(c) PROVE StructInv'
  <2>1. Begun("policy", d_disk, HealthOf)
    BY <1>2, <1>h, <1>d DEF Begun, D!UpdatePolicy
  <2> QED BY <1>0, <1>2, <2>1, PolicyFacts, BeginStruct DEF D!UpdatePolicy
<1>3. ASSUME NEW c \in D!Policies, D!UpdateGrant(c) PROVE StructInv'
  <2>1. Begun("grant", d_disk, HealthOf)
    BY <1>3, <1>h, <1>d DEF Begun, D!UpdateGrant
  <2>2. d_disk["helper"] # D!Missing
    BY <1>3, Contents DEF D!UpdateGrant
  <2> QED BY <1>0, <1>3, <2>1, <2>2, GrantFacts, BeginStruct DEF D!UpdateGrant
<1>4. ASSUME NEW target \in D!CollectorModes, D!SwitchMode(target) PROVE StructInv'
  <2>1. Begun("mode", d_disk, HealthOf)
    BY <1>4, <1>h, <1>d DEF Begun, D!SwitchMode, D!TraceTopology, D!Present, D!Config
  <2> QED BY <1>0, <1>4, <2>1, ModeFacts, BeginStruct DEF D!SwitchMode
<1>5. ASSUME NEW profile \in D!Profiles, D!SwitchProfile(profile) PROVE StructInv'
  <2>1. Begun("profile", d_disk, HealthOf)
    BY <1>5, <1>h, <1>d DEF Begun, D!SwitchProfile
  <2>2. ProgramFacts("profile", HealthOf, D!SwitchProfileProgram(profile))
    <3>1. CASE profile = "full_diagnostics"
      BY <1>0, <1>5, <3>1, FullProfileFacts DEF D!SwitchProfile
    <3>2. CASE profile # "full_diagnostics" /\ D!Present("trace")
      BY <1>0, <1>5, <3>2, CpuProfileFacts DEF D!SwitchProfile
    <3>3. CASE profile # "full_diagnostics" /\ ~D!Present("trace")
      <4>1. D!ProfileOf(d_disk) = "full_diagnostics"
        <5>1. D!ProfileOf(d_disk) \in D!Profiles
          BY <1>0 DEF BasicInv, Typed, D!ProfileOf, D!Profiles
        <5> QED BY <1>5, <3>3, <5>1 DEF D!SwitchProfile, D!Profiles
      <4>2. HealthOf # "yes"
        <5> SUFFICES ASSUME D!Consistent(d_disk) PROVE FALSE
          BY <1>h
        <5>1. d_disk["collector"].profile = "full_diagnostics" /\ d_disk["collector"] # D!Missing
          BY <4>1 DEF D!Consistent
        <5>2. "trace" \in D!Requires(d_disk["collector"])
          BY <5>1 DEF D!Requires
        <5> QED BY <5>2, <3>3 DEF D!Consistent, D!Present
      <4>3. HealthOf = "no"
        BY <1>h, <1>d, <4>2, <1>5 DEF D!SwitchProfile
      <4> QED BY <1>0, <1>5, <3>3, <4>3, StaleProfileFacts DEF D!SwitchProfile
    <3> QED BY <3>1, <3>2, <3>3
  <2> QED BY <1>5, <2>1, <2>2, BeginStruct DEF D!SwitchProfile
<1>6. ASSUME D!Upgrade PROVE StructInv'
  <2>1. Begun("upgrade", d_disk, HealthOf)
    BY <1>6, <1>h, <1>d DEF Begun, D!Upgrade, D!TraceTopology, D!Present, D!Config
  <2>2. D!StaleHelper => HealthOf = "no"
    <3>1. ASSUME D!StaleHelper, D!Consistent(d_disk) PROVE FALSE
      <4>1. d_disk["collector"].mode = "cap_perfmon" /\ d_disk["helper"] # D!Missing
        BY <3>1 DEF D!StaleHelper, D!Consistent, D!Config, D!Present
      <4>2. "helper" \notin D!Requires(d_disk["collector"])
        BY <4>1 DEF D!Requires
      <4> QED BY <3>1, <4>1, <4>2 DEF D!Consistent
    <3> QED BY <3>1, <1>6, <1>h, <1>d DEF D!Upgrade
  <2> QED BY <1>0, <1>6, <2>1, <2>2, UpgradeFacts, BeginStruct DEF D!Upgrade
<1>7. ASSUME D!Undeploy PROVE StructInv'
  <2>1. Begun("undeploy", d_disk, HealthOf)
    BY <1>h DEF Begun
  <2> QED BY <1>0, <1>7, <2>1, UndeployFacts, BeginStruct DEF D!Undeploy
<1> QED BY <1>1, <1>2, <1>3, <1>4, <1>5, <1>6, <1>7 DEF D!Command

LEMMA CurrentSafe ==
    ASSUME StructInv, D!InProgress, ~D!Skipped
    PROVE  /\ StepTyped(D!Current)
           /\ D!Current.do = "remove" /\ D!Current.on \in D!Units => Off(D!Current.on)
           /\ Acts(D!Current, "restart", "trace") => d_disk["trace"] # D!Missing
<1>1. BasicInv
  BY DEF StructInv
<1>2. D!Current \in Rest /\ D!Current \in StepsOf(d_op.program)
      /\ Rest = {d_op.program[i] : i \in (d_op.n + 2) .. Len(d_op.program)} \cup {D!Current}
      /\ (Ordered(d_op.program) =>
             \A t \in {d_op.program[i] : i \in (d_op.n + 2) .. Len(d_op.program)} :
                Stage(D!Current) <= Stage(t))
  BY <1>1, ProgramStep
<1>3. StepTyped(D!Current)
  BY <1>1, <1>2 DEF BasicInv
<1>4. ASSUME D!Current.do = "remove", D!Current.on \in D!Units PROVE Off(D!Current.on)
  <2>1. Ordered(d_op.program)
    BY <1>2, <1>4 DEF StructInv, OrderInv
  <2>2. \A t \in Rest : t.do # "disable"
    BY <1>2, <1>4, <2>1, StagesOf, StageType
  <2>3. D!Current.on \notin d_op.failed \cap D!Current.unless
    BY DEF D!Skipped
  <2> QED BY <1>2, <1>4, <2>2, <2>3 DEF StructInv, EnabledInv, RemovesSafe, Acts
<1>5. Acts(D!Current, "restart", "trace") => d_disk["trace"] # D!Missing
  BY <1>2 DEF StructInv, EnabledInv, RestartsSafe
<1> QED BY <1>3, <1>4, <1>5

\* A step of a program: done, or failed with what it leaves.
Taken(s) == (D!Effect(s) /\ D!Possible(s)) \/ D!NoEffect \/ Down(s)

LEMMA TakenHost ==
    ASSUME StructInv, D!InProgress, ~D!Skipped, Taken(D!Current)
    PROVE  HostForm' /\ Typed(d_disk)' /\ EnabledFiles'
<1>1. HostForm /\ Typed(d_disk) /\ EnabledFiles
  BY DEF StructInv, BasicInv, EnabledInv
<1>2. /\ StepTyped(D!Current)
      /\ D!Current.do = "remove" /\ D!Current.on \in D!Units => Off(D!Current.on)
      /\ Acts(D!Current, "restart", "trace") => d_disk["trace"] # D!Missing
  BY CurrentSafe
<1>3. CASE D!NoEffect
  BY <1>1, <1>3 DEF D!NoEffect, HostForm, Typed, EnabledFiles, Off
<1>4. CASE Down(D!Current)
  <2>1. ~D!Effect(D!Current) \/ D!Effect(D!Current)
    OBVIOUS
  <2>2. HostForm' /\ Typed(d_disk)'
    BY <1>1, <1>2, <1>4, EffectForm, EffectTyped
  <2>3. EnabledFiles'
    <3>1. D!Current.on = "trace" => d_disk["trace"] # D!Missing
      BY <1>2, <1>4 DEF Down, Acts
    <3>2. D!Current.on # "trace" => d_running'["trace"] = d_running["trace"]
      BY <1>4 DEF Down, D!StopSet, D!Units
    <3> QED BY <1>1, <1>4, <3>1, <3>2 DEF Down, EnabledFiles, Off
  <2> QED BY <2>2, <2>3
<1>5. CASE D!Effect(D!Current) /\ D!Possible(D!Current)
  BY <1>1, <1>2, <1>5, EffectForm, EffectTyped, EffectEnabledFiles
<1> QED BY <1>3, <1>4, <1>5 DEF Taken

\* Being off outlasts the steps before the services are started.
LEMMA OffKept ==
    ASSUME NEW s, StepTyped(s), HostForm, NEW u \in D!Units, Off(u), Stage(s) <= 2,
           D!Effect(s) \/ D!NoEffect \/ Down(s)
    PROVE  Off(u)'
<1>1. CASE D!NoEffect
  BY <1>1 DEF D!NoEffect, Off
<1>2. CASE Down(s)
  <2>1. Stage(s) = 4
    BY <1>2, StagesOf DEF Down
  <2> QED BY <2>1
<1>3. CASE D!Effect(s) /\ Stage(s) = 1
  <2>1. /\ \A v \in D!Units : d_running'[v] = d_running[v] \/ (d_running'[v] = D!NoProcess /\ Stops(s, v))
        /\ s.do = "stop" => d_enabled' = d_enabled
        /\ s.do = "disable" => d_enabled' = d_enabled \ {s.on}
    BY <1>3, EffectStop, StagesOf DEF StepTyped
  <2>2. s.do = "stop" => d_running'["trace"] = d_running["trace"]
    BY <2>1 DEF StepTyped, Stops, D!Units
  <2> QED BY <1>3, <2>1, <2>2, StagesOf DEF Off, Stops, D!Units
<1>4. CASE D!Effect(s) /\ Stage(s) = 2
  <2>1. s.do # "tool" => s.on \in D!Files
    BY <1>4, StagesOf DEF StepTyped, Writes
  <2>2. d_running' = d_running /\ d_enabled' = d_enabled
    BY <1>4, <2>1, EffectWrite DEF StepTyped
  <2> QED BY <2>2 DEF Off
<1> QED BY <1>1, <1>2, <1>3, <1>4, StageType

\* A Trace Helper that a switch of the profile enables is running.
LEMMA ProfileOff ==
    ASSUME NEW s, StepTyped(s), HostForm, Off("trace"), s.do # "restart", D!Effect(s) /\ D!Possible(s)
    PROVE  Off("trace")'
<1>1. CASE Stage(s) <= 2
  BY <1>1, OffKept DEF D!Units
<1>2. CASE Stage(s) = 3
  BY <1>2, EffectReload, StagesOf DEF Off
<1>3. CASE s.do = "enable"
  <2>1. /\ d_enabled' = d_enabled \cup {s.on}
        /\ \A u \in D!Units :
              d_running'[u] = IF u \in D!StartSet(s.on, D!OnDisk) /\ d_running[u] = D!NoProcess
                            THEN D!Process(u, D!OnDisk) ELSE d_running[u]
    BY <1>3, EffectEnable DEF StepTyped
  <2>2. d_running["trace"] # D!NoProcess => d_running'["trace"] # D!NoProcess
    BY <2>1 DEF D!Units
  <2>3. CASE s.on = "trace" /\ d_running["trace"] = D!NoProcess
    <3>1. d_disk["trace"] # D!Missing
      BY <1>3, <2>3 DEF D!Possible, D!StartSet
    <3>2. d_running'["trace"] = D!Process("trace", D!OnDisk)
      BY <2>1, <2>3 DEF D!StartSet, D!Units
    <3>3. D!OnDisk["trace"] = d_disk["trace"]
      BY DEF D!OnDisk, D!Units
    <3>4. D!Process("trace", D!OnDisk) # D!NoProcess
      <4>1. D!Process("trace", D!OnDisk).unit = d_disk["trace"] /\ D!NoProcess.unit = D!Missing
        BY <3>3 DEF D!Process, D!NoProcess
      <4> QED BY <3>1, <4>1
    <3> QED BY <3>2, <3>4 DEF Off
  <2>4. CASE s.on # "trace"
    BY <2>1, <2>2, <2>4 DEF Off
  <2> QED BY <2>2, <2>3, <2>4 DEF Off
<1>4. CASE Stage(s) = 5
  BY <1>4, EffectWait DEF Off
<1> QED BY <1>1, <1>2, <1>3, <1>4, StagesOf, StageType

\* Going on to the next step of the same program.
Advances ==
    /\ d_op'.kind = d_op.kind /\ d_op'.phase = d_op.phase /\ d_op'.program = d_op.program
    /\ d_op'.n = d_op.n + 1 /\ d_op'.before = d_op.before /\ d_op'.healthy = d_op.healthy
    /\ d_op'.result = d_op.result /\ d_op.failed \subseteq d_op'.failed /\ OpForm'
    /\ d_op'.faults \in Nat /\ d_package' = d_package
    /\ d_op.phase = "forward" => d_op'.faults = d_op.faults /\ d_op'.failed = d_op.failed

LEMMA AdvancesRest ==
    ASSUME BasicInv, D!InProgress, Advances
    PROVE  /\ Rest = Rest' \cup {D!Current} /\ D!Done(d_op)' = D!Done(d_op) \cup {D!Current}
           /\ Ordered(d_op.program) => \A t \in Rest' : Stage(D!Current) <= Stage(t)
           /\ d_op'.n \in Nat /\ d_op'.n <= Len(d_op'.program)
<1>1. Rest' = {d_op.program[i] : i \in (d_op.n + 2) .. Len(d_op.program)}
  <2>1. d_op'.n + 1 = d_op.n + 2
    BY DEF Advances, BasicInv
  <2> QED BY <2>1 DEF Rest, Advances
<1>2. D!Done(d_op)' = {d_op.program[i] : i \in 1 .. (d_op.n + 1)}
  BY DEF D!Done, Advances
<1>3. d_op'.n \in Nat /\ d_op'.n <= Len(d_op'.program)
  BY ProgramLength DEF Advances, BasicInv, D!InProgress
<1> QED BY <1>1, <1>2, <1>3, ProgramStep

LEMMA AdvanceStruct ==
    ASSUME StructInv, D!InProgress, Advances,
           \/ D!Skipped /\ D!NoEffect
           \/ ~D!Skipped /\ Taken(D!Current),
           D!Current.do = "disable" /\ D!Current.errors # "ignore" =>
              D!Effect(D!Current) \/ (D!Current.on \in d_op'.failed /\ D!Current.errors = "collect"),
           d_op.phase = "forward" => D!Effect(D!Current) /\ D!Possible(D!Current)
    PROVE  StructInv'
<1>1. BasicInv /\ HostForm
  BY DEF StructInv, BasicInv
<1>2. /\ Rest = Rest' \cup {D!Current} /\ D!Done(d_op)' = D!Done(d_op) \cup {D!Current}
      /\ Ordered(d_op.program) => \A t \in Rest' : Stage(D!Current) <= Stage(t)
      /\ d_op'.n \in Nat /\ d_op'.n <= Len(d_op'.program)
  BY <1>1, AdvancesRest
<1>3. HostForm' /\ Typed(d_disk)' /\ EnabledFiles'
  <2>1. CASE D!Skipped /\ D!NoEffect
    BY <2>1 DEF D!NoEffect, StructInv, BasicInv, EnabledInv, HostForm, Typed, EnabledFiles, Off
  <2> QED BY <2>1, TakenHost
<1>4. StepTyped(D!Current) /\ D!Current \in StepsOf(d_op.program)
  BY <1>1, ProgramStep DEF BasicInv
<1>5. BasicInv'
  <2>1. Typed(d_op.before)'
    BY <1>1 DEF BasicInv, Advances, Typed
  <2> QED BY <1>1, <1>2, <1>3, <2>1 DEF BasicInv, Advances
<1>6. OrderInv'
  BY DEF StructInv, OrderInv, Advances
<1>e. D!Effect(D!Current) \/ D!NoEffect \/ Down(D!Current)
  BY DEF Taken
<1>7. KindInv'
  <2>1. ASSUME d_op.phase = "forward", NEW f \in D!Files
        PROVE  d_disk'[f] = d_op'.before[f] \/ \E s \in D!Done(d_op)' : Writes(s) /\ s.on = f
    <3>1. d_disk[f] = d_op.before[f] \/ \E s \in D!Done(d_op) : Writes(s) /\ s.on = f
      BY <2>1 DEF StructInv, KindInv
    <3>2. d_disk'[f] = d_disk[f] \/ (Writes(D!Current) /\ f = D!Current.on)
      BY <1>1, <1>4, <1>e, EffectDisk
    <3> QED BY <1>2, <3>1, <3>2 DEF Advances
  <2>2. ASSUME d_op.phase = "forward", d_op.kind \in {"upgrade", "grant"}, d_op.before["trace"] # D!Missing
        PROVE  d_disk'["trace"] # D!Missing
    <3>1. d_disk["trace"] # D!Missing
      BY <2>2 DEF StructInv, KindInv
    <3>2. KindStep(d_op.kind, d_op.healthy, d_op.before, D!Current)
      BY <1>4, <2>2 DEF StructInv, KindInv
    <3>3. Writes(D!Current) /\ D!Current.on = "trace" => D!Current.to # D!Missing
      BY <1>4, <2>2, <3>2, RemoveFields DEF KindStep, Writes, StepTyped, D!Units
    <3>4. d_disk'["trace"] = d_disk["trace"] \/ (Writes(D!Current) /\ D!Current.on = "trace"
            /\ d_disk'["trace"] = D!Current.to)
      BY <1>1, <1>4, <1>e, EffectDisk DEF D!Files, D!Units
    <3> QED BY <3>1, <3>3, <3>4
  <2> QED BY <2>1, <2>2 DEF StructInv, KindInv, Advances
<1>8. RemovesSafe(Rest, d_op.failed)'
  <2> SUFFICES ASSUME NEW s \in Rest', s.do = "remove", s.on \in D!Units
               PROVE  \/ Off(s.on)'
                      \/ \E t \in Rest' : /\ Acts(t, "disable", s.on)
                                          /\ t.errors = "raise" \/ (t.errors = "collect" /\ s.on \in s.unless)
                      \/ s.on \in d_op'.failed \cap s.unless
    BY DEF RemovesSafe, Off
  <2>1. Ordered(d_op.program)
    <3>1. s \in StepsOf(d_op.program)
      BY <1>1, <1>2, RestSteps
    <3> QED BY <3>1 DEF StructInv, OrderInv
  <2>2. Stage(D!Current) <= 2
    BY <1>2, <2>1, StagesOf
  <2>3. \/ Off(s.on)
        \/ \E t \in Rest : /\ Acts(t, "disable", s.on)
                           /\ t.errors = "raise" \/ (t.errors = "collect" /\ s.on \in s.unless)
        \/ s.on \in d_op.failed \cap s.unless
    BY <1>2 DEF StructInv, EnabledInv, RemovesSafe
  <2>4. CASE Off(s.on)
    BY <1>1, <1>4, <1>e, <2>2, <2>4, OffKept
  <2>5. CASE \E t \in Rest : /\ Acts(t, "disable", s.on)
                             /\ t.errors = "raise" \/ (t.errors = "collect" /\ s.on \in s.unless)
    <3>1. PICK t \in Rest : /\ Acts(t, "disable", s.on)
                            /\ t.errors = "raise" \/ (t.errors = "collect" /\ s.on \in s.unless)
      BY <2>5
    <3>2. CASE t \in Rest'
      BY <3>1, <3>2
    <3>3. CASE t = D!Current
      <4>1. D!Effect(D!Current) \/ (D!Current.on \in d_op'.failed /\ D!Current.errors = "collect")
        BY <3>1, <3>3 DEF Acts
      <4>2. CASE D!Effect(D!Current)
        <5>1. d_enabled' = d_enabled \ {s.on}
          BY <1>1, <1>4, <3>1, <3>3, <4>2, EffectStop, StagesOf DEF Acts, StepTyped
        <5> QED BY <5>1 DEF Off
      <4>3. CASE D!Current.on \in d_op'.failed /\ D!Current.errors = "collect"
        BY <3>1, <3>3, <4>3 DEF Acts
      <4> QED BY <4>1, <4>2, <4>3
    <3> QED BY <1>2, <3>1, <3>2, <3>3
  <2>6. CASE s.on \in d_op.failed \cap s.unless
    BY <2>6 DEF Advances
  <2> QED BY <2>3, <2>4, <2>5, <2>6
<1>9. RestartsSafe(Rest)'
  <2> SUFFICES ASSUME NEW s \in Rest', Acts(s, "restart", "trace")
               PROVE  d_disk'["trace"] # D!Missing /\ \A t \in Rest' : ~Acts(t, "remove", "trace")
    BY DEF RestartsSafe
  <2>1. d_disk["trace"] # D!Missing /\ \A t \in Rest : ~Acts(t, "remove", "trace")
    BY <1>2 DEF StructInv, EnabledInv, RestartsSafe
  <2>2. ~Acts(D!Current, "remove", "trace")
    BY <1>2, <2>1
  <2>3. Writes(D!Current) /\ D!Current.on = "trace" => D!Current.to # D!Missing
    BY <1>4, <2>2 DEF Writes, StepTyped, D!Units, Acts
  <2>4. d_disk'["trace"] = d_disk["trace"] \/ (Writes(D!Current) /\ D!Current.on = "trace"
          /\ d_disk'["trace"] = D!Current.to)
    BY <1>1, <1>4, <1>e, EffectDisk DEF D!Files, D!Units
  <2> QED BY <1>2, <2>1, <2>3, <2>4
<1>10. ASSUME d_op.phase = "forward", d_op.kind = "profile", d_op.before["trace"] = D!Missing
       PROVE  Off("trace")'
  <2>1. Off("trace") /\ KindStep(d_op.kind, d_op.healthy, d_op.before, D!Current)
    BY <1>4, <1>10 DEF StructInv, EnabledInv, KindInv
  <2>2. D!Effect(D!Current) /\ D!Possible(D!Current)
    BY <1>10
  <2> QED BY <1>1, <1>4, <1>10, <2>1, <2>2, ProfileOff DEF KindStep
<1>11. ASSUME d_op.phase = "forward", d_op.kind = "deploy", NEW u \in {"collector", "helper"},
              d_op.before[u] = D!Missing, u \in d_enabled'
       PROVE  D!Step("enable", u) \in D!Done(d_op)'
  <2>1. KindStep(d_op.kind, d_op.healthy, d_op.before, D!Current)
    BY <1>4, <1>11 DEF StructInv, KindInv
  <2>2. d_enabled' = d_enabled \/ (D!Current.do = "enable" /\ d_enabled' = d_enabled \cup {D!Current.on})
    BY <1>11, <2>1 DEF D!Effect, KindStep
  <2>3. u \in d_enabled => D!Step("enable", u) \in D!Done(d_op)
    BY <1>11 DEF StructInv, EnabledInv
  <2>4. D!Current.do = "enable" => D!Current = D!Step("enable", D!Current.on)
    BY <1>11, <2>1 DEF KindStep
  <2> QED BY <1>2, <1>11, <2>2, <2>3, <2>4
<1>12. EnabledInv'
  BY <1>3, <1>8, <1>9, <1>10, <1>11 DEF EnabledInv, Advances
<1> QED BY <1>5, <1>6, <1>7, <1>12 DEF StructInv

\* The transaction o is op, with one fault more when there was one.
SameOp(o) ==
    /\ o.kind = d_op.kind /\ o.phase = d_op.phase /\ o.result = d_op.result /\ o.program = d_op.program
    /\ o.n = d_op.n /\ o.before = d_op.before /\ o.healthy = d_op.healthy /\ o.failed = d_op.failed
    /\ o.faults \in Nat
    /\ o = [kind |-> o.kind, phase |-> o.phase, result |-> o.result, program |-> o.program,
            n |-> o.n, before |-> o.before, healthy |-> o.healthy, faults |-> o.faults,
            failed |-> o.failed]

LEMMA FailForms ==
    ASSUME StructInv, D!Fail
    PROVE  /\ D!InProgress /\ ~D!Skipped /\ Taken(D!Current) /\ d_package' = d_package
           /\ Writes(D!Current) => D!NoEffect \/ d_op.kind \in Interruptible
           /\ \E o : /\ SameOp(o) /\ d_op' = D!Failed(o)
                     /\ \/ o.faults = d_op.faults /\ D!NoEffect /\ ~D!Possible(D!Current)
                        \/ o.faults = d_op.faults + 1
<1>1. OpForm /\ d_op.faults \in Nat
  BY DEF StructInv, BasicInv
<1>2. CASE ~D!Possible(D!Current) /\ D!NoEffect /\ d_op' = D!Failed(d_op)
  <2>1. SameOp(d_op)
    BY <1>1 DEF SameOp, OpForm
  <2> QED BY <1>2, <2>1 DEF D!Fail, Taken
<1>3. CASE D!Leaves(D!Current) /\ d_op' = D!Failed([d_op EXCEPT !.faults = @ + 1])
  <2>1. SameOp([d_op EXCEPT !.faults = @ + 1]) /\ [d_op EXCEPT !.faults = @ + 1].faults = d_op.faults + 1
    BY <1>1 DEF SameOp, OpForm
  <2>2. Taken(D!Current) /\ (Writes(D!Current) => D!NoEffect \/ d_op.kind \in Interruptible)
    <3>1. \/ D!NoEffect
          \/ D!Possible(D!Current) /\ D!Effect(D!Current) /\ (Writes(D!Current)
               => d_op.kind \in Interruptible)
          \/ Down(D!Current)
      BY <1>3, LeavesCases
    <3>2. Down(D!Current) => ~Writes(D!Current)
      BY DEF Down, Writes
    <3> QED BY <3>1, <3>2 DEF Taken
  <2> QED BY <1>3, <2>1, <2>2 DEF D!Fail
<1> QED BY <1>2, <1>3 DEF D!Fail

\* What a failure makes of the transaction.
LEMMA FailedForms ==
    ASSUME StructInv, D!InProgress, NEW o, SameOp(o), d_op' = D!Failed(o), D!Current \in StepsOf(d_op.program)
    PROVE  \/ /\ d_op.phase = "forward" /\ D!HasRollback(o)
              /\ d_op'.phase = "back" /\ d_op'.program = D!Rollback(o, d_disk') /\ d_op'.n = 0
              /\ d_op'.kind = d_op.kind /\ d_op'.before = d_op.before /\ d_op'.healthy = d_op.healthy
              /\ d_op'.result = d_op.result /\ d_op'.failed = d_op.failed /\ d_op'.faults = o.faults
                   /\ OpForm'
           \/ /\ \/ d_op.phase = "forward" /\ ~D!HasRollback(o) /\ d_op'.result = "failed"
                 \/ d_op.phase = "back" /\ D!Current.errors = "raise" /\ d_op'.result = "unrestored"
              /\ d_op'.phase = "ended" /\ d_op'.program = <<>> /\ d_op'.n = 0
              /\ d_op'.kind = d_op.kind /\ d_op'.before = d_op.before /\ d_op'.healthy = d_op.healthy
              /\ d_op'.failed = d_op.failed /\ d_op'.faults = o.faults /\ OpForm'
           \/ /\ d_op.phase = "back" /\ D!Current.errors \in {"ignore", "collect"}
              /\ d_op'.kind = d_op.kind /\ d_op'.phase = d_op.phase /\ d_op'.program = d_op.program
              /\ d_op'.n = d_op.n + 1 /\ d_op'.before = d_op.before /\ d_op'.healthy = d_op.healthy
              /\ d_op'.result = d_op.result /\ d_op.failed \subseteq d_op'.failed /\ OpForm'
              /\ d_op'.faults = o.faults
              /\ D!Current.errors = "ignore" => d_op'.failed = d_op.failed
              /\ D!Current.errors = "collect" /\ D!Current.do = "disable" => D!Current.on \in d_op'.failed
<1>1. d_op.phase \in {"forward", "back"} /\ d_op.n \in Nat /\ D!Current.errors \in {"raise",
        "ignore", "collect"}
  BY DEF StructInv, BasicInv, D!InProgress, StepTyped
<1>2. CASE d_op.phase = "forward" /\ D!HasRollback(o)
  <2>1. d_op' = [o EXCEPT !.phase = "back", !.program = D!Rollback(o, d_disk'), !.n = 0]
    BY <1>2 DEF D!Failed, SameOp
  <2> QED BY <1>2, <2>1 DEF SameOp, OpForm
<1>3. CASE d_op.phase = "forward" /\ ~D!HasRollback(o)
  <2>1. d_op' = D!Ended(o, "failed")
    BY <1>3 DEF D!Failed, SameOp
  <2> QED BY <1>3, <2>1 DEF SameOp, OpForm, D!Ended
<1>4. CASE d_op.phase = "back" /\ D!Current.errors = "raise"
  <2>1. d_op' = D!Ended(o, "unrestored")
    BY <1>4 DEF D!Failed, SameOp
  <2> QED BY <1>4, <2>1 DEF SameOp, OpForm, D!Ended
<1>5. CASE d_op.phase = "back" /\ D!Current.errors = "ignore"
  <2>1. d_op' = [o EXCEPT !.n = @ + 1]
    BY <1>5 DEF D!Failed, SameOp
  <2> QED BY <1>5, <2>1 DEF SameOp, OpForm
<1>6. CASE d_op.phase = "back" /\ D!Current.errors = "collect"
  <2>1. d_op' = [o EXCEPT !.n = @ + 1,
                      !.failed = @ \cup {IF D!Current.do = "disable" THEN D!Current.on ELSE "other"}]
    BY <1>6 DEF D!Failed, SameOp
  <2> QED BY <1>6, <2>1 DEF SameOp, OpForm
<1> QED BY <1>1, <1>2, <1>3, <1>4, <1>5, <1>6

\* The end of a transaction.
Ends ==
    /\ d_op'.phase = "ended" /\ d_op'.program = <<>> /\ d_op'.n = 0
    /\ d_op'.kind = d_op.kind /\ d_op'.before = d_op.before /\ d_op'.healthy = d_op.healthy
    /\ d_op'.failed = d_op.failed /\ d_op'.faults \in Nat /\ OpForm' /\ d_package' = d_package

LEMMA EndStruct ==
    ASSUME StructInv, Ends, HostForm', Typed(d_disk)', EnabledFiles'
    PROVE  StructInv'
<1>1. IsProgram(d_op'.program) /\ StepsOf(d_op'.program) = {} /\ Ordered(d_op'.program)
      /\ Len(d_op'.program) = 0
  BY EmptySegment DEF Segment, Ends
<1>2. Rest' = {}
  BY <1>1 DEF Rest, Ends
<1>3. BasicInv'
  <2>1. Typed(d_op.before)'
    BY DEF StructInv, BasicInv, Ends, Typed
  <2> QED BY <1>1, <2>1 DEF BasicInv, Ends, StructInv
<1>4. EnabledInv'
  BY <1>2 DEF EnabledInv, RemovesSafe, RestartsSafe, Ends
<1> QED BY <1>1, <1>3, <1>4 DEF StructInv, OrderInv, KindInv, Ends

LEMMA UndoableOp ==
    ASSUME StructInv, d_op.phase = "forward", d_op.kind # "undeploy", NEW o, SameOp(o)
    PROVE  Undoable(o) /\ D!Done(o) = D!Done(d_op)
<1>1. D!Done(o) = D!Done(d_op)
  BY DEF D!Done, SameOp
<1>2. D!Done(d_op) \subseteq StepsOf(d_op.program)
  BY RestSteps DEF StructInv
<1>3. Typed(o.before)
  BY DEF StructInv, BasicInv, SameOp
<1>4. Begun(o.kind, o.before, o.healthy)
  BY DEF StructInv, KindInv, SameOp
<1>5. o.kind \in {"mode", "profile", "upgrade", "policy", "grant", "deploy"}
  BY <1>4 DEF Begun, SameOp
<1>6. \A s \in D!Done(o) : StepTyped(s) /\ KindStep(o.kind, o.healthy, o.before, s)
  BY <1>1, <1>2 DEF StructInv, BasicInv, KindInv, SameOp
<1> QED BY <1>1, <1>3, <1>4, <1>5, <1>6 DEF Undoable

LEMMA RollbackStruct ==
    ASSUME StructInv, D!InProgress, ~D!Skipped, Taken(D!Current), d_op.phase = "forward",
        d_op.kind # "undeploy",
           NEW o, SameOp(o), NEW d, d = d_disk', d_package' = d_package,
           d_op'.phase = "back", d_op'.program = D!Rollback(o, d), d_op'.n = 0,
           d_op'.kind = d_op.kind, d_op'.before = d_op.before, d_op'.healthy = d_op.healthy,
           d_op'.result = d_op.result, d_op'.failed = d_op.failed, d_op'.faults \in Nat, OpForm'
    PROVE  StructInv'
<1> DEFINE p == D!Rollback(o, d)
<1>1. RollbackFacts(o, p)
  BY UndoableOp, RollbackForms
<1>2. HostForm' /\ Typed(d_disk)' /\ EnabledFiles'
  BY TakenHost
<1> HIDE DEF p
<1>3. d_op'.program = p /\ IsProgram(p) /\ Ordered(p) /\ \A s \in StepsOf(p) : StepTyped(s)
  BY <1>1 DEF RollbackFacts, p
<1>4. Rest' = StepsOf(p) /\ 0 <= Len(p)
  BY <1>3, BegunRest DEF Rest
<1>5. BasicInv'
  <2>1. Typed(d_op.before)'
    BY DEF StructInv, BasicInv, Typed
  <2> QED BY <1>2, <1>3, <1>4, <2>1 DEF BasicInv, StructInv
<1>6. KindInv'
  BY DEF StructInv, KindInv
<1>7. StepTyped(D!Current) /\ D!Current \in StepsOf(d_op.program) /\ HostForm
      /\ KindStep(d_op.kind, d_op.healthy, d_op.before, D!Current)
  BY ProgramStep DEF StructInv, BasicInv, KindInv
<1>e. D!Effect(D!Current) \/ D!NoEffect \/ Down(D!Current)
  BY DEF Taken
<1>8. d_op.kind = "profile" /\ d_op.before["trace"] = D!Missing => Off("trace")'
  <2> SUFFICES ASSUME d_op.kind = "profile", d_op.before["trace"] = D!Missing PROVE Off("trace")'
    OBVIOUS
  <2>1. Off("trace") /\ D!Current.do # "restart"
    BY <1>7 DEF StructInv, EnabledInv, KindStep
  <2>2. CASE D!NoEffect
    BY <2>1, <2>2 DEF D!NoEffect, Off
  <2>3. CASE D!Effect(D!Current) /\ D!Possible(D!Current)
    BY <1>7, <2>1, <2>3, ProfileOff
  <2>4. CASE Down(D!Current)
    BY <2>1, <2>4 DEF Down
  <2> QED BY <2>2, <2>3, <2>4 DEF Taken
<1>9. ASSUME d_op.kind = "deploy", NEW u \in D!Units, u \in Installed(o) \ Attempted(o)
      PROVE  Off(u)'
  <2>1. u \in {"collector", "helper"} /\ d_op.before[u] = D!Missing
    <3>1. PICK s \in D!Done(o) : s.do = "install" /\ s.on = u
      BY <1>9 DEF Installed
    <3>2. s.on \in ChangedBy("deploy")
      BY <1>9, <3>1, UndoableOp DEF Undoable, KindStep, Writes, SameOp
    <3> QED BY <1>9, <3>1, <3>2 DEF ChangedBy, D!Units, Installed, SameOp
  <2>2. D!Step("enable", u) \notin D!Done(d_op) /\ D!Step("enable", u) # D!Current
    BY <1>9, UndoableOp DEF Attempted, D!Current, SameOp
  <2>3. u \notin d_enabled
    BY <1>9, <2>1, <2>2 DEF StructInv, EnabledInv
  <2>4. d_enabled' = d_enabled \/ (D!Current.do = "enable" /\ d_enabled' = d_enabled \cup {D!Current.on})
    BY <1>9, <1>7, <1>e DEF D!Effect, D!NoEffect, Down, KindStep
  <2>5. D!Current.do = "enable" => D!Current = D!Step("enable", D!Current.on)
    BY <1>7, <1>9 DEF KindStep
  <2> QED BY <2>2, <2>3, <2>4, <2>5 DEF Off
<1>10. RemovesSafe(Rest, d_op.failed)'
  <2> SUFFICES ASSUME NEW s \in StepsOf(p), s.do = "remove", s.on \in D!Units
               PROVE  \/ Off(s.on)'
                      \/ \E t \in StepsOf(p) : /\ Acts(t, "disable", s.on)
                                               /\ t.errors = "raise" \/ (t.errors = "collect"
                                                    /\ s.on \in s.unless)
    BY <1>4 DEF RemovesSafe, Off
  <2>1. \/ Acts(s, "remove", "trace") /\ o.kind = "profile" /\ o.before["trace"] = D!Missing
        \/ \E t \in StepsOf(p) : /\ Acts(t, "disable", s.on)
                                 /\ t.errors = "raise" \/ (t.errors = "collect" /\ s.on \in s.unless)
        \/ s.on \in Installed(o) \ Attempted(o) /\ o.kind = "deploy"
    BY <1>1 DEF RollbackFacts
  <2> QED BY <2>1, <1>8, <1>9 DEF Acts, SameOp
<1>11. RestartsSafe(Rest)'
  <2> SUFFICES ASSUME NEW s \in StepsOf(p), Acts(s, "restart", "trace")
               PROVE  d_disk'["trace"] # D!Missing /\ \A t \in StepsOf(p) : ~Acts(t, "remove", "trace")
    BY <1>4 DEF RestartsSafe
  <2>1. /\ d_op.kind \in {"upgrade", "grant"} /\ d_op.before["trace"] # D!Missing
        /\ \A t \in StepsOf(p) : t.do # "remove"
    BY <1>1 DEF RollbackFacts, SameOp
  <2>2. d_disk["trace"] # D!Missing
    BY <2>1 DEF StructInv, KindInv
  <2>3. Writes(D!Current) /\ D!Current.on = "trace" => D!Current.to # D!Missing
    BY <1>7, <2>1, RemoveFields DEF KindStep, Writes, StepTyped, D!Units
  <2>4. d_disk'["trace"] = d_disk["trace"] \/ (Writes(D!Current) /\ D!Current.on = "trace"
          /\ d_disk'["trace"] = D!Current.to)
    BY <1>7, <1>e, EffectDisk DEF D!Files, D!Units
  <2> QED BY <2>1, <2>2, <2>3, <2>4 DEF Acts
<1>12. EnabledInv'
  BY <1>2, <1>10, <1>11 DEF EnabledInv
<1> QED BY <1>3, <1>5, <1>6, <1>12 DEF StructInv, OrderInv

LEMMA FailStruct ==
    ASSUME StructInv, D!Fail
    PROVE  StructInv'
<1>1. D!InProgress /\ ~D!Skipped /\ Taken(D!Current) /\ d_package' = d_package
  BY FailForms
<1>2. PICK o : SameOp(o) /\ d_op' = D!Failed(o)
  BY FailForms
<1>3. D!Current \in StepsOf(d_op.program) /\ StepTyped(D!Current)
  BY <1>1, ProgramStep DEF StructInv, BasicInv
<1>4. HostForm' /\ Typed(d_disk)' /\ EnabledFiles'
  BY <1>1, TakenHost
<1>5. o.faults \in Nat
  BY <1>2 DEF SameOp
<1>6. CASE /\ d_op.phase = "forward" /\ D!HasRollback(o)
           /\ d_op'.phase = "back" /\ d_op'.program = D!Rollback(o, d_disk') /\ d_op'.n = 0
           /\ d_op'.kind = d_op.kind /\ d_op'.before = d_op.before /\ d_op'.healthy = d_op.healthy
           /\ d_op'.result = d_op.result /\ d_op'.failed = d_op.failed /\ d_op'.faults = o.faults /\ OpForm'
  <2>1. d_op.kind # "undeploy"
    BY <1>2, <1>6 DEF D!HasRollback, SameOp
  <2>2. PICK d : d = d_disk'
    OBVIOUS
  <2> QED BY <1>1, <1>2, <1>5, <1>6, <2>1, <2>2, RollbackStruct
<1>7. CASE Ends
  BY <1>4, <1>7, EndStruct
<1>8. CASE /\ d_op.phase = "back" /\ D!Current.errors \in {"ignore", "collect"}
           /\ d_op'.kind = d_op.kind /\ d_op'.phase = d_op.phase /\ d_op'.program = d_op.program
           /\ d_op'.n = d_op.n + 1 /\ d_op'.before = d_op.before /\ d_op'.healthy = d_op.healthy
           /\ d_op'.result = d_op.result /\ d_op.failed \subseteq d_op'.failed /\ OpForm'
           /\ d_op'.faults = o.faults
           /\ D!Current.errors = "collect" /\ D!Current.do = "disable" => D!Current.on \in d_op'.failed
  <2>1. Advances
    BY <1>1, <1>5, <1>8 DEF Advances
  <2> QED BY <1>1, <1>8, <2>1, AdvanceStruct
<1> QED BY <1>1, <1>2, <1>3, <1>5, <1>6, <1>7, <1>8, FailedForms DEF Ends

LEMMA SucceedAdvances ==
    ASSUME StructInv, D!Succeed \/ D!Skip
    PROVE  /\ Advances /\ D!InProgress /\ d_op'.faults = d_op.faults /\ d_op'.failed = d_op.failed
           /\ d_faults' = d_faults
<1>1. d_op' = [d_op EXCEPT !.n = @ + 1] /\ D!InProgress /\ d_package' = d_package /\ d_faults' = d_faults
  BY DEF D!Succeed, D!Skip
<1>2. OpForm /\ d_op.faults \in Nat
  BY DEF StructInv, BasicInv
<1> QED BY <1>1, <1>2 DEF Advances, OpForm

LEMMA FinishEnds ==
    ASSUME StructInv, D!Finish
    PROVE  /\ Ends /\ d_op'.faults = d_op.faults /\ D!NoEffect /\ d_faults' = d_faults /\ Rest = {}
           /\ d_op'.result = IF d_op.phase = "forward" THEN "ok"
                           ELSE IF d_op.failed = {} THEN "restored" ELSE "unrestored"
<1>1. OpForm /\ d_op.faults \in Nat
  BY DEF StructInv, BasicInv
<1>2. Rest = {}
  <2>1. d_op.n = Len(d_op.program) /\ d_op.n \in Nat
    BY DEF D!Finish, StructInv, BasicInv
  <2>2. \A i \in (d_op.n + 1) .. Len(d_op.program) : FALSE
    BY <2>1
  <2> QED BY <2>2 DEF Rest
<1> QED BY <1>1, <1>2 DEF D!Finish, Ends, D!Ended, OpForm

LEMMA NextStruct ==
    ASSUME StructInv, [D!Next]_(D!vars)
    PROVE  StructInv'
<1>1. CASE D!Command
  BY <1>1, CommandStruct
<1>2. CASE D!Skip
  <2>1. d_op.phase # "forward"
    BY <1>2 DEF StructInv, BasicInv, D!Skip, D!Skipped
  <2>2. D!Current.do # "disable"
    <3>1. StepTyped(D!Current)
      BY <1>2, ProgramStep DEF StructInv, BasicInv, D!Skip
    <3> QED BY <1>2, <3>1 DEF StepTyped, D!Skip, D!Skipped
  <2> QED BY <1>2, <2>1, <2>2, SucceedAdvances, AdvanceStruct DEF D!Skip
<1>3. CASE D!Succeed
  BY <1>3, SucceedAdvances, AdvanceStruct DEF D!Succeed, Taken
<1>4. CASE D!Fail
  BY <1>4, FailStruct
<1>5. CASE D!Finish
  <2>1. HostForm' /\ Typed(d_disk)' /\ EnabledFiles'
    BY <1>5, FinishEnds DEF D!NoEffect, StructInv, BasicInv, EnabledInv, HostForm, Typed, EnabledFiles, Off
  <2> QED BY <1>5, <2>1, FinishEnds, EndStruct
<1>6. CASE D!InstallPackage
  <2>1. /\ d_disk' = d_disk /\ d_loaded' = d_loaded /\ d_enabled' = d_enabled /\ d_running' = d_running
        /\ d_op' = D!NoTransaction /\ d_package' \in Versions
    BY <1>6 DEF D!InstallPackage, D!NoEffect
  <2>2. /\ d_op'.program = <<>> /\ d_op'.n = 0 /\ d_op'.phase = "ended" /\ d_op'.failed = {}
        /\ d_op'.faults = 0 /\ d_op'.before = [f \in D!Files |-> D!Missing] /\ d_op'.result = "none"
    BY <2>1 DEF D!NoTransaction
  <2>3. IsProgram(d_op'.program) /\ StepsOf(d_op'.program) = {} /\ Ordered(d_op'.program)
        /\ Len(d_op'.program) = 0
    BY <2>2, EmptySegment DEF Segment
  <2>4. HostForm' /\ Typed(d_disk)' /\ EnabledFiles'
    BY <2>1 DEF StructInv, BasicInv, EnabledInv, HostForm, Typed, EnabledFiles, Off
  <2>5. Typed(d_op.before)'
    BY <2>2 DEF Typed, D!Files, D!Texts, D!Units
  <2>6. OpForm'
    BY <2>1 DEF OpForm, D!NoTransaction
  <2>7. Rest' = {}
    BY <2>2, <2>3 DEF Rest
  <2>8. BasicInv'
    BY <2>1, <2>2, <2>3, <2>4, <2>5, <2>6 DEF BasicInv
  <2>9. EnabledInv'
    BY <2>2, <2>4, <2>7 DEF EnabledInv, RemovesSafe, RestartsSafe
  <2> QED BY <2>2, <2>3, <2>8, <2>9 DEF StructInv, OrderInv, KindInv
<1>7. CASE UNCHANGED D!vars
  BY <1>7 DEF D!vars, StructInv, BasicInv, OrderInv, KindInv, EnabledInv, HostForm, Typed, OpForm,
     EnabledFiles, Off, RemovesSafe, RestartsSafe, Rest, D!Done
<1> QED BY <1>1, <1>2, <1>3, <1>4, <1>5, <1>6, <1>7 DEF D!Next

----------------------------------------------------------------------------
(* The program of a command on a healthy host leads to files that agree.   *)

LEMMA RequiresOf ==
    ASSUME NEW unit, unit # D!Missing
    PROVE  /\ "helper" \in D!Requires(unit) <=> unit.mode = "paranoid3_helper"
           /\ "trace" \in D!Requires(unit) <=> unit.profile = "full_diagnostics"
BY DEF D!Requires

LEMMA HealthyFacts ==
    ASSUME D!Healthy, HostForm
    PROVE  /\ D!Consistent(d_disk) /\ d_loaded = [u \in D!Units |-> d_disk[u]]
           /\ \A u \in D!Units :
                 /\ d_disk[u] # D!Missing => d_running[u] = Right(d_disk, u) /\ u \in d_enabled
                 /\ d_disk[u] = D!Missing => d_running[u] = D!NoProcess /\ u \notin d_enabled
BY DEF D!Healthy, D!Serving, D!OnDisk, Right

\* The files of a deployment that agree, said of each file.
LEMMA ConsistentForm ==
    ASSUME NEW T, T["config"] # D!Missing, T["collector"] # D!Missing
    PROVE  D!Consistent(T) <=>
              /\ T["collector"].mode = T["config"].mode /\ T["collector"].profile = D!ProfileOf(T)
              /\ T["helper"] # D!Missing <=> T["config"].mode = "paranoid3_helper"
              /\ T["trace"] # D!Missing <=> D!ProfileOf(T) = "full_diagnostics"
              /\ T["helper"] # D!Missing => T["helper"].grant = T["config"].grant
              /\ T["trace"] # D!Missing =>
                    T["trace"].grant = T["config"].grant /\ T["trace"].policy = T["tracePolicy"]
<1>1. /\ "helper" \in D!Requires(T["collector"]) <=> T["collector"].mode = "paranoid3_helper"
      /\ "trace" \in D!Requires(T["collector"]) <=> T["collector"].profile = "full_diagnostics"
  BY RequiresOf
<1> QED BY <1>1 DEF D!Consistent

\* What the files T of a command owe to the files before it.
TargetFits(kind, before, T) ==
    /\ kind \in {"grant", "upgrade"} => \A u \in D!Units : T[u] = D!Missing <=> before[u] = D!Missing
    /\ kind = "policy" => T["config"] # before["config"] /\ \A u \in D!Units : T[u] = before[u]
    /\ kind = "profile" => T["helper"] = before["helper"]

LEMMA ModeLeads ==
    ASSUME BasicInv, D!Healthy, NEW target \in D!CollectorModes, D!SwitchMode(target)
    PROVE  \E T : D!Consistent(T) /\ TargetFits("mode", d_disk, T)
                  /\ Leads(StepsOf(D!SwitchModeProgram(target)), T)
<1> DEFINE p == D!SwitchModeProgram(target)
           T == [f \in D!Files |->
                   IF f = "config" THEN [D!Config EXCEPT !.mode = target]
                   ELSE IF f = "collector" THEN D!CollectorUnit(target, D!ProfileOf(d_disk))
                   ELSE IF f = "helper" THEN IF target = "paranoid3_helper"
                       THEN D!HelperUnit(D!Config) ELSE D!Missing
                   ELSE d_disk[f]]
<1>1. StepsOf(p) =
                  {D!Step("disable", "collector")}
                  \cup (IF D!Config.mode = "paranoid3_helper" \/ D!Present("helper")
                      THEN {D!Step("disable", "helper")} ELSE {})
                  \cup {D!Write("config", [D!Config EXCEPT !.mode = target]), D!Write("collector",
                      D!CollectorUnit(target, D!ProfileOf(d_disk)))}
                  \cup (IF target = "paranoid3_helper" THEN {D!Write("helper",
                      D!HelperUnit(D!Config))} ELSE (IF D!Present("helper")
                      THEN {D!Remove("helper")} ELSE {}))
                  \cup ({D!Reload} \cup (IF target = "paranoid3_helper" THEN {D!Step("enable",
                      "helper")} ELSE {}) \cup {D!Step("enable", "collector")})
                  \cup {D!Wait(D!ProfileOf(d_disk))}
  BY ModeSteps
<1>2. /\ T["config"] = [D!Config EXCEPT !.mode = target]
      /\ T["collector"] = D!CollectorUnit(target, D!ProfileOf(d_disk))
      /\ T["helper"] = IF target = "paranoid3_helper" THEN D!HelperUnit(D!Config) ELSE D!Missing
      /\ T["trace"] = d_disk["trace"] /\ T["profile"] = d_disk["profile"]
      /\ T["tracePolicy"] = d_disk["tracePolicy"]
  BY DEF D!Files, D!Units, D!Texts
<1> HIDE DEF p, T
<1>3. D!Config \in D!Policies /\ D!Config = d_disk["config"]
  BY DEF BasicInv, Typed, D!SwitchMode, D!Deployed, D!Present, D!Config
<1>4. /\ T["config"] \in D!Policies /\ T["config"].mode = target /\ T["config"].grant = D!Config.grant
  BY <1>2, <1>3 DEF D!SwitchMode, D!Policies, D!Configs
<1>5. D!ProfileOf(T) = D!ProfileOf(d_disk)
  BY <1>2 DEF D!ProfileOf
<1>6. /\ D!Consistent(d_disk) /\ d_loaded = [u \in D!Units |-> d_disk[u]]
      /\ \A u \in D!Units :
            /\ d_disk[u] # D!Missing => d_running[u] = Right(d_disk, u) /\ u \in d_enabled
            /\ d_disk[u] = D!Missing => d_running[u] = D!NoProcess /\ u \notin d_enabled
  BY HealthyFacts DEF BasicInv
<1>7. d_disk["config"] # D!Missing /\ d_disk["collector"] # D!Missing
  BY DEF D!SwitchMode, D!Deployed, D!Present
<1>8. /\ d_disk["collector"].mode = d_disk["config"].mode /\ d_disk["collector"].profile = D!ProfileOf(d_disk)
      /\ d_disk["helper"] # D!Missing <=> d_disk["config"].mode = "paranoid3_helper"
      /\ d_disk["trace"] # D!Missing <=> D!ProfileOf(d_disk) = "full_diagnostics"
      /\ d_disk["trace"] # D!Missing =>
            d_disk["trace"].grant = d_disk["config"].grant /\ d_disk["trace"].policy = d_disk["tracePolicy"]
  BY <1>6, <1>7, ConsistentForm
<1>9. D!Consistent(T)
  <2>1. T["config"] # D!Missing /\ T["collector"] # D!Missing
    BY <1>2, <1>4, Contents
  <2>2. T["collector"].mode = T["config"].mode /\ T["collector"].profile = D!ProfileOf(T)
    BY <1>2, <1>4, <1>5, Contents
  <2>3. /\ T["helper"] # D!Missing <=> T["config"].mode = "paranoid3_helper"
        /\ T["helper"] # D!Missing => T["helper"].grant = T["config"].grant
    BY <1>2, <1>4, Contents
  <2>4. /\ T["trace"] # D!Missing <=> D!ProfileOf(T) = "full_diagnostics"
        /\ T["trace"] # D!Missing =>
              T["trace"].grant = T["config"].grant /\ T["trace"].policy = T["tracePolicy"]
    BY <1>2, <1>3, <1>4, <1>5, <1>8
  <2> QED BY <2>1, <2>2, <2>3, <2>4, ConsistentForm
<1>10. ASSUME NEW s \in StepsOf(p) PROVE StepFits(s, T)
  <2>1. \/ s = D!Step("disable", "collector") \/ s = D!Step("disable", "helper")
        \/ s = D!Write("config", T["config"]) \/ s = D!Write("collector", T["collector"])
        \/ s = D!Write("helper", T["helper"])
        \/ s = D!Remove("helper") /\ T["helper"] = D!Missing
        \/ s = D!Reload
        \/ s = D!Step("enable", "helper") /\ T["helper"] # D!Missing
        \/ s = D!Step("enable", "collector") /\ T["collector"] # D!Missing
        \/ s = D!Wait(D!ProfileOf(T))
    BY <1>1, <1>2, <1>5, <1>10, Contents
  <2> QED BY <2>1, StepFields, WriteFields, RemoveFields, ReloadFields, WaitFields
          DEF StepFits, Writes, D!Units, D!Texts, D!Files
<1>11. FilesLead(StepsOf(p), T)
  <2>1. \E s \in StepsOf(p) : Writes(s) /\ s.on = "config"
    BY <1>1, WriteFields DEF Writes
  <2>2. \E s \in StepsOf(p) : Writes(s) /\ s.on = "collector"
    BY <1>1, WriteFields DEF Writes
  <2>3. d_disk["helper"] = T["helper"] \/ \E s \in StepsOf(p) : Writes(s) /\ s.on = "helper"
    BY <1>1, <1>2, WriteFields, RemoveFields DEF Writes, D!Present
  <2> QED BY <1>2, <2>1, <2>2, <2>3 DEF FilesLead, D!Files, D!Units, D!Texts
<1>12. LoadedLead(StepsOf(p), T)
  BY <1>1, ReloadFields DEF LoadedLead
<1>13. \A s \in StepsOf(p) : s.do # "install"
  BY <1>1, StepFields, WriteFields, RemoveFields, ReloadFields, WaitFields
<1>14. \A s \in StepsOf(p) : s.do = "disable" =>
          d_disk[s.on] # D!Missing /\ s.on \in {"collector", "helper"}
  BY <1>1, <1>3, <1>7, <1>8, StepFields, WriteFields, RemoveFields, ReloadFields, WaitFields
     DEF D!Present
<1>15. /\ \E s \in StepsOf(p) : Acts(s, "disable", "collector")
       /\ \E s \in StepsOf(p) : Acts(s, "enable", "collector")
       /\ d_disk["helper"] # D!Missing => \E s \in StepsOf(p) : Acts(s, "disable", "helper")
       /\ T["helper"] # D!Missing => \E s \in StepsOf(p) : Acts(s, "enable", "helper")
  BY <1>1, <1>2, StepFields DEF Acts, D!Present
<1>16. \A s \in StepsOf(p) : s.do # "stop"
  BY <1>1, StepFields, WriteFields, RemoveFields, ReloadFields, WaitFields
<1>17. ServiceLeads(StepsOf(p), T, "collector") /\ EnabledLeads(StepsOf(p), "collector")
  BY <1>7, <1>15 DEF ServiceLeads, EnabledLeads, WillStop
<1>18. IF T["helper"] # D!Missing THEN ServiceLeads(StepsOf(p), T, "helper")
         /\ EnabledLeads(StepsOf(p), "helper")
       ELSE NoServiceLeads(StepsOf(p), "helper") /\ NotEnabledLeads(StepsOf(p), "helper")
  BY <1>6, <1>15 DEF ServiceLeads, EnabledLeads, WillStop, NoServiceLeads, NotEnabledLeads, D!Units
<1>19. IF T["trace"] # D!Missing THEN ServiceLeads(StepsOf(p), T, "trace")
         /\ EnabledLeads(StepsOf(p), "trace")
       ELSE NoServiceLeads(StepsOf(p), "trace") /\ NotEnabledLeads(StepsOf(p), "trace")
  <2>1. Right(T, "trace") = Right(d_disk, "trace")
    BY <1>2 DEF Right
  <2>2. \A s \in StepsOf(p) : ~Stops(s, "trace") /\ ~Acts(s, "disable", "trace")
    BY <1>14, <1>16 DEF Stops, Acts
  <2> QED BY <1>2, <1>6, <2>1, <2>2
          DEF ServiceLeads, EnabledLeads, NoServiceLeads, NotEnabledLeads, D!Units
<1>20. T["collector"] # D!Missing
  BY <1>2, Contents
<1>21. Leads(StepsOf(p), T)
  BY <1>10, <1>11, <1>12, <1>13, <1>14, <1>17, <1>18, <1>19, <1>20
     DEF Leads, StopsPossible, InstallsPossible, D!Units
<1> QED BY <1>9, <1>21 DEF p, TargetFits

LEMMA HealthyForm ==
    ASSUME BasicInv, D!Healthy
    PROVE  /\ d_disk["config"] # D!Missing /\ d_disk["collector"] # D!Missing
           /\ D!Config \in D!Policies /\ D!Config = d_disk["config"]
           /\ d_loaded = [u \in D!Units |-> d_disk[u]]
           /\ d_disk["collector"].mode = D!Config.mode /\ d_disk["collector"].profile = D!ProfileOf(d_disk)
           /\ d_disk["helper"] # D!Missing <=> D!Config.mode = "paranoid3_helper"
           /\ d_disk["trace"] # D!Missing <=> D!ProfileOf(d_disk) = "full_diagnostics"
           /\ d_disk["helper"] # D!Missing => d_disk["helper"].grant = D!Config.grant
           /\ d_disk["trace"] # D!Missing =>
                 d_disk["trace"].grant = D!Config.grant /\ d_disk["trace"].policy = d_disk["tracePolicy"]
           /\ \A u \in D!Units :
                 /\ d_disk[u] # D!Missing => d_running[u] = Right(d_disk, u) /\ u \in d_enabled
                 /\ d_disk[u] = D!Missing => d_running[u] = D!NoProcess /\ u \notin d_enabled
           /\ D!ProfileOf(d_disk) \in D!Profiles
<1>1. /\ D!Consistent(d_disk) /\ d_loaded = [u \in D!Units |-> d_disk[u]]
      /\ \A u \in D!Units :
            /\ d_disk[u] # D!Missing => d_running[u] = Right(d_disk, u) /\ u \in d_enabled
            /\ d_disk[u] = D!Missing => d_running[u] = D!NoProcess /\ u \notin d_enabled
  BY HealthyFacts DEF BasicInv
<1>2. d_disk["config"] # D!Missing /\ d_disk["collector"] # D!Missing
  BY <1>1 DEF D!Consistent
<1>3. D!Config \in D!Policies /\ D!Config = d_disk["config"]
  BY <1>2 DEF BasicInv, Typed, D!Config
<1>4. D!ProfileOf(d_disk) \in D!Profiles
  BY DEF BasicInv, Typed, D!ProfileOf, D!Profiles
<1> QED BY <1>1, <1>2, <1>3, <1>4, ConsistentForm

LEMMA FullProfileLeads ==
    ASSUME BasicInv, D!Healthy, NEW target, target = "full_diagnostics", D!SwitchProfile(target)
    PROVE  \E T : D!Consistent(T) /\ TargetFits("profile", d_disk, T)
                  /\ Leads(StepsOf(D!SwitchProfileProgram(target)), T)
<1> DEFINE p == D!SwitchProfileProgram(target)
           T == [f \in D!Files |->
                   IF f = "collector" THEN D!CollectorUnit(D!Config.mode, target)
                   ELSE IF f = "profile" THEN [profile |-> target]
                   ELSE IF f = "tracePolicy" THEN [version |-> d_package]
                   ELSE IF f = "trace" THEN D!TraceUnit(D!Config, [version |-> d_package])
                   ELSE d_disk[f]]
<1>1. StepsOf(p) =
                  {D!Step("stop", "collector")}
                  \cup {D!Write("collector", D!CollectorUnit(D!Config.mode, target)),
                      D!Write("profile", [profile |-> target])}
                  \cup {D!Write("tracePolicy", [version |-> d_package]), D!Write("trace",
                      D!TraceUnit(D!Config, [version |-> d_package])), D!Reload, D!Step("enable",
                      "trace")}
                  \cup {D!Step("enable", "collector"), D!Wait(target)}
  BY FullProfileSteps
<1>2. /\ T["config"] = d_disk["config"] /\ T["helper"] = d_disk["helper"]
      /\ T["collector"] = D!CollectorUnit(D!Config.mode, target)
      /\ T["profile"] = [profile |-> target] /\ T["tracePolicy"] = [version |-> d_package]
      /\ T["trace"] = D!TraceUnit(D!Config, [version |-> d_package])
  BY DEF D!Files, D!Units, D!Texts
<1> HIDE DEF p, T
<1>3. /\ d_disk["config"] # D!Missing /\ d_disk["collector"] # D!Missing
      /\ D!Config \in D!Policies /\ D!Config = d_disk["config"]
      /\ d_disk["helper"] # D!Missing <=> D!Config.mode = "paranoid3_helper"
      /\ d_disk["trace"] # D!Missing <=> D!ProfileOf(d_disk) = "full_diagnostics"
      /\ d_disk["helper"] # D!Missing => d_disk["helper"].grant = D!Config.grant
      /\ \A u \in D!Units :
            /\ d_disk[u] # D!Missing => d_running[u] = Right(d_disk, u) /\ u \in d_enabled
            /\ d_disk[u] = D!Missing => d_running[u] = D!NoProcess /\ u \notin d_enabled
  BY HealthyForm
<1>4. d_disk["trace"] = D!Missing
  BY <1>3 DEF D!SwitchProfile
<1>5. D!ProfileOf(T) = target
  BY <1>2, Contents DEF D!ProfileOf
<1>6. T["collector"] # D!Missing /\ T["trace"] # D!Missing
  BY <1>2, Contents
<1>9. D!Consistent(T)
  <2>1. T["collector"].mode = T["config"].mode /\ T["collector"].profile = D!ProfileOf(T)
    BY <1>2, <1>3, <1>5, Contents
  <2>2. /\ T["helper"] # D!Missing <=> T["config"].mode = "paranoid3_helper"
        /\ T["helper"] # D!Missing => T["helper"].grant = T["config"].grant
    BY <1>2, <1>3
  <2>3. T["trace"].grant = T["config"].grant /\ T["trace"].policy = T["tracePolicy"]
    BY <1>2, <1>3, Contents
  <2> QED BY <1>2, <1>3, <1>5, <1>6, <2>1, <2>2, <2>3, ConsistentForm
<1>10. ASSUME NEW s \in StepsOf(p) PROVE StepFits(s, T)
  <2>1. \/ s = D!Step("stop", "collector") \/ s = D!Write("collector", T["collector"])
        \/ s = D!Write("profile", T["profile"]) \/ s = D!Write("tracePolicy", T["tracePolicy"])
        \/ s = D!Write("trace", T["trace"])
        \/ s = D!Reload \/ s = D!Step("enable", "trace") \/ s = D!Step("enable", "collector")
        \/ s = D!Wait(D!ProfileOf(T))
    BY <1>1, <1>2, <1>5, <1>10
  <2> QED BY <1>6, <2>1, StepFields, WriteFields, ReloadFields, WaitFields
          DEF StepFits, Writes, D!Units, D!Texts, D!Files
<1>11. FilesLead(StepsOf(p), T)
  <2>1. /\ \E s \in StepsOf(p) : Writes(s) /\ s.on = "collector"
        /\ \E s \in StepsOf(p) : Writes(s) /\ s.on = "profile"
        /\ \E s \in StepsOf(p) : Writes(s) /\ s.on = "tracePolicy"
        /\ \E s \in StepsOf(p) : Writes(s) /\ s.on = "trace"
    BY <1>1, WriteFields DEF Writes
  <2> QED BY <1>2, <2>1 DEF FilesLead, D!Files, D!Units, D!Texts
<1>12. LoadedLead(StepsOf(p), T)
  BY <1>1, ReloadFields DEF LoadedLead
<1>13. \A s \in StepsOf(p) : s.do \notin {"install", "disable"} /\ (s.do = "stop" => s.on = "collector")
  BY <1>1, StepFields, WriteFields, ReloadFields, WaitFields
<1>15. /\ \E s \in StepsOf(p) : Acts(s, "stop", "collector")
       /\ \E s \in StepsOf(p) : Acts(s, "enable", "collector")
       /\ \E s \in StepsOf(p) : Acts(s, "enable", "trace")
  BY <1>1, StepFields DEF Acts
<1>17. ServiceLeads(StepsOf(p), T, "collector") /\ EnabledLeads(StepsOf(p), "collector")
  BY <1>15 DEF ServiceLeads, EnabledLeads
<1>18. ServiceLeads(StepsOf(p), T, "trace") /\ EnabledLeads(StepsOf(p), "trace")
  BY <1>3, <1>4, <1>15 DEF ServiceLeads, EnabledLeads, D!Units
<1>19. IF T["helper"] # D!Missing THEN ServiceLeads(StepsOf(p), T, "helper")
         /\ EnabledLeads(StepsOf(p), "helper")
       ELSE NoServiceLeads(StepsOf(p), "helper") /\ NotEnabledLeads(StepsOf(p), "helper")
  <2>1. Right(T, "helper") = Right(d_disk, "helper")
    BY <1>2 DEF Right
  <2>2. \A s \in StepsOf(p) : ~Stops(s, "helper") /\ ~Acts(s, "disable", "helper")
    BY <1>13 DEF Stops, Acts
  <2> QED BY <1>2, <1>3, <2>1, <2>2
          DEF ServiceLeads, EnabledLeads, NoServiceLeads, NotEnabledLeads, D!Units
<1>21. Leads(StepsOf(p), T)
  BY <1>6, <1>10, <1>11, <1>12, <1>13, <1>17, <1>18, <1>19
     DEF Leads, StopsPossible, InstallsPossible, D!Units
<1> QED BY <1>2, <1>9, <1>21 DEF p, TargetFits

LEMMA CpuProfileLeads ==
    ASSUME BasicInv, D!Healthy, NEW target \in D!Profiles, target # "full_diagnostics",
           D!SwitchProfile(target)
    PROVE  \E T : D!Consistent(T) /\ TargetFits("profile", d_disk, T)
                  /\ Leads(StepsOf(D!SwitchProfileProgram(target)), T)
<1> DEFINE p == D!SwitchProfileProgram(target)
           T == [f \in D!Files |->
                   IF f = "collector" THEN D!CollectorUnit(D!Config.mode, target)
                   ELSE IF f = "profile" THEN [profile |-> target]
                   ELSE IF f = "trace" THEN D!Missing
                   ELSE d_disk[f]]
<1>3. /\ d_disk["config"] # D!Missing /\ d_disk["collector"] # D!Missing
      /\ D!Config \in D!Policies /\ D!Config = d_disk["config"]
      /\ d_disk["helper"] # D!Missing <=> D!Config.mode = "paranoid3_helper"
      /\ d_disk["trace"] # D!Missing <=> D!ProfileOf(d_disk) = "full_diagnostics"
      /\ d_disk["helper"] # D!Missing => d_disk["helper"].grant = D!Config.grant
      /\ \A u \in D!Units :
            /\ d_disk[u] # D!Missing => d_running[u] = Right(d_disk, u) /\ u \in d_enabled
            /\ d_disk[u] = D!Missing => d_running[u] = D!NoProcess /\ u \notin d_enabled
      /\ D!ProfileOf(d_disk) \in D!Profiles
  BY HealthyForm
<1>4. d_disk["trace"] # D!Missing
  BY <1>3 DEF D!SwitchProfile, D!Profiles
<1>1. StepsOf(p) =
                  {D!Step("stop", "collector"), D!Step("disable", "trace"), D!Remove("trace"), D!Reload,
                   D!Step("enable", "collector"), D!Wait(target),
                   D!Write("collector", D!CollectorUnit(D!Config.mode, target)),
                   D!Write("profile", [profile |-> target])}
  BY <1>4, CpuProfileSteps DEF D!Present
<1>2. /\ T["config"] = d_disk["config"] /\ T["helper"] = d_disk["helper"]
      /\ T["collector"] = D!CollectorUnit(D!Config.mode, target)
      /\ T["profile"] = [profile |-> target] /\ T["tracePolicy"] = d_disk["tracePolicy"]
      /\ T["trace"] = D!Missing
  BY DEF D!Files, D!Units, D!Texts
<1> HIDE DEF p, T
<1>5. D!ProfileOf(T) = target
  BY <1>2, Contents DEF D!ProfileOf
<1>6. T["collector"] # D!Missing
  BY <1>2, Contents
<1>9. D!Consistent(T)
  <2>1. T["collector"].mode = T["config"].mode /\ T["collector"].profile = D!ProfileOf(T)
    BY <1>2, <1>3, <1>5, Contents
  <2>2. /\ T["helper"] # D!Missing <=> T["config"].mode = "paranoid3_helper"
        /\ T["helper"] # D!Missing => T["helper"].grant = T["config"].grant
    BY <1>2, <1>3
  <2> QED BY <1>2, <1>3, <1>5, <1>6, <2>1, <2>2, ConsistentForm
<1>10. ASSUME NEW s \in StepsOf(p) PROVE StepFits(s, T)
  <2>1. \/ s = D!Step("stop", "collector") \/ s = D!Step("disable", "trace")
        \/ s = D!Write("collector", T["collector"])
        \/ s = D!Write("profile", T["profile"]) \/ s = D!Remove("trace")
        \/ s = D!Reload \/ s = D!Step("enable", "collector") \/ s = D!Wait(D!ProfileOf(T))
    BY <1>1, <1>2, <1>5, <1>10
  <2> QED BY <1>2, <1>6, <2>1, StepFields, WriteFields, RemoveFields, ReloadFields, WaitFields
          DEF StepFits, Writes, D!Units, D!Texts, D!Files
<1>11. FilesLead(StepsOf(p), T)
  <2>1. /\ \E s \in StepsOf(p) : Writes(s) /\ s.on = "collector"
        /\ \E s \in StepsOf(p) : Writes(s) /\ s.on = "profile"
        /\ \E s \in StepsOf(p) : Writes(s) /\ s.on = "trace"
    BY <1>1, WriteFields, RemoveFields DEF Writes
  <2> QED BY <1>2, <2>1 DEF FilesLead, D!Files, D!Units, D!Texts
<1>12. LoadedLead(StepsOf(p), T)
  BY <1>1, ReloadFields DEF LoadedLead
<1>13. \A s \in StepsOf(p) : s.do # "install" /\ (s.do = "stop" => s.on = "collector")
          /\ (s.do = "disable" => s.on = "trace")
  BY <1>1, StepFields, WriteFields, RemoveFields, ReloadFields, WaitFields
<1>15. /\ \E s \in StepsOf(p) : Acts(s, "stop", "collector")
       /\ \E s \in StepsOf(p) : Acts(s, "enable", "collector")
       /\ \E s \in StepsOf(p) : Acts(s, "disable", "trace")
  BY <1>1, StepFields DEF Acts
<1>17. ServiceLeads(StepsOf(p), T, "collector") /\ EnabledLeads(StepsOf(p), "collector")
  BY <1>15 DEF ServiceLeads, EnabledLeads
<1>18. NoServiceLeads(StepsOf(p), "trace") /\ NotEnabledLeads(StepsOf(p), "trace")
  BY <1>4, <1>15 DEF NoServiceLeads, NotEnabledLeads, WillStop
<1>19. IF T["helper"] # D!Missing THEN ServiceLeads(StepsOf(p), T, "helper")
         /\ EnabledLeads(StepsOf(p), "helper")
       ELSE NoServiceLeads(StepsOf(p), "helper") /\ NotEnabledLeads(StepsOf(p), "helper")
  <2>1. Right(T, "helper") = Right(d_disk, "helper")
    BY <1>2 DEF Right
  <2>2. \A s \in StepsOf(p) : ~Stops(s, "helper") /\ ~Acts(s, "disable", "helper")
    BY <1>13 DEF Stops, Acts
  <2> QED BY <1>2, <1>3, <2>1, <2>2
          DEF ServiceLeads, EnabledLeads, NoServiceLeads, NotEnabledLeads, D!Units
<1>20. StopsPossible(StepsOf(p)) /\ InstallsPossible(StepsOf(p))
  BY <1>4, <1>13 DEF StopsPossible, InstallsPossible
<1>21. Leads(StepsOf(p), T)
  BY <1>2, <1>6, <1>10, <1>11, <1>12, <1>17, <1>18, <1>19, <1>20 DEF Leads, D!Units
<1> QED BY <1>2, <1>9, <1>21 DEF p, TargetFits

LEMMA PolicyLeads ==
    ASSUME BasicInv, D!Healthy, NEW c \in D!Policies, D!UpdatePolicy(c)
    PROVE  \E T : D!Consistent(T) /\ TargetFits("policy", d_disk, T)
                  /\ Leads(StepsOf(D!UpdatePolicyProgram(c)), T)
<1> DEFINE p == D!UpdatePolicyProgram(c)
           T == [f \in D!Files |-> IF f = "config" THEN c ELSE d_disk[f]]
<1>1. StepsOf(p) = {D!Write("config", c), D!Step("restart", "collector"), D!Wait("any")}
  BY PolicySteps
<1>2. /\ T["config"] = c /\ T["collector"] = d_disk["collector"] /\ T["helper"] = d_disk["helper"]
      /\ T["trace"] = d_disk["trace"] /\ T["profile"] = d_disk["profile"]
      /\ T["tracePolicy"] = d_disk["tracePolicy"]
  BY DEF D!Files, D!Units, D!Texts
<1> HIDE DEF p, T
<1>3. /\ d_disk["config"] # D!Missing /\ d_disk["collector"] # D!Missing
      /\ D!Config \in D!Policies /\ D!Config = d_disk["config"]
      /\ d_loaded = [u \in D!Units |-> d_disk[u]]
      /\ d_disk["collector"].mode = D!Config.mode /\ d_disk["collector"].profile = D!ProfileOf(d_disk)
      /\ d_disk["helper"] # D!Missing <=> D!Config.mode = "paranoid3_helper"
      /\ d_disk["trace"] # D!Missing <=> D!ProfileOf(d_disk) = "full_diagnostics"
      /\ d_disk["helper"] # D!Missing => d_disk["helper"].grant = D!Config.grant
      /\ d_disk["trace"] # D!Missing =>
            d_disk["trace"].grant = D!Config.grant /\ d_disk["trace"].policy = d_disk["tracePolicy"]
      /\ \A u \in D!Units :
            /\ d_disk[u] # D!Missing => d_running[u] = Right(d_disk, u) /\ u \in d_enabled
            /\ d_disk[u] = D!Missing => d_running[u] = D!NoProcess /\ u \notin d_enabled
  BY HealthyForm
<1>4. c # D!Config /\ c.mode = D!Config.mode /\ c.grant = D!Config.grant
  BY DEF D!UpdatePolicy
<1>5. D!ProfileOf(T) = D!ProfileOf(d_disk)
  BY <1>2 DEF D!ProfileOf
<1>6. T["collector"] # D!Missing /\ T["config"] # D!Missing
  BY <1>2, <1>3, Contents
<1>9. D!Consistent(T)
  BY <1>2, <1>3, <1>4, <1>5, <1>6, ConsistentForm
<1>10. ASSUME NEW s \in StepsOf(p) PROVE StepFits(s, T)
  <2>1. \/ s = D!Write("config", T["config"]) \/ s = D!Step("restart", "collector") \/ s = D!Wait("any")
    BY <1>1, <1>2, <1>10
  <2> QED BY <1>6, <2>1, StepFields, WriteFields, WaitFields
          DEF StepFits, Writes, D!Units, D!Texts, D!Files
<1>11. FilesLead(StepsOf(p), T)
  <2>1. \E s \in StepsOf(p) : Writes(s) /\ s.on = "config"
    BY <1>1, WriteFields DEF Writes
  <2> QED BY <1>2, <2>1 DEF FilesLead, D!Files, D!Units, D!Texts
<1>13. \A s \in StepsOf(p) : s.do \notin {"install", "stop", "disable"}
  BY <1>1, StepFields, WriteFields, WaitFields
<1>14. \A u \in D!Units : T[u] = d_disk[u]
  BY <1>2 DEF D!Units
<1>12. LoadedLead(StepsOf(p), T)
  BY <1>3, <1>13, <1>14 DEF LoadedLead
<1>15. \E s \in StepsOf(p) : Acts(s, "restart", "collector")
  BY <1>1, StepFields DEF Acts
<1>16. ASSUME NEW u \in D!Units
       PROVE  IF T[u] # D!Missing THEN ServiceLeads(StepsOf(p), T, u) /\ EnabledLeads(StepsOf(p), u)
              ELSE NoServiceLeads(StepsOf(p), u) /\ NotEnabledLeads(StepsOf(p), u)
  <2>1. u # "collector" => Right(T, u) = Right(d_disk, u)
    BY <1>14 DEF Right
  <2>2. \A s \in StepsOf(p) : ~Stops(s, u) /\ ~Acts(s, "disable", u)
    BY <1>13 DEF Stops, Acts
  <2> QED BY <1>3, <1>14, <1>15, <2>1, <2>2
          DEF ServiceLeads, EnabledLeads, NoServiceLeads, NotEnabledLeads
<1>20. StopsPossible(StepsOf(p)) /\ InstallsPossible(StepsOf(p))
  BY <1>13 DEF StopsPossible, InstallsPossible
<1>21. Leads(StepsOf(p), T)
  BY <1>10, <1>11, <1>12, <1>16, <1>20 DEF Leads
<1> QED BY <1>2, <1>3, <1>4, <1>9, <1>14, <1>21 DEF p, TargetFits

LEMMA GrantLeads ==
    ASSUME BasicInv, D!Healthy, NEW c \in D!Policies, D!UpdateGrant(c)
    PROVE  \E T : D!Consistent(T) /\ TargetFits("grant", d_disk, T)
                  /\ Leads(StepsOf(D!UpdateGrantProgram(c)), T)
<1> DEFINE p == D!UpdateGrantProgram(c)
           T == [f \in D!Files |->
                   IF f = "config" THEN c ELSE IF f = "helper" THEN D!HelperUnit(c)
                   ELSE IF f = "trace" /\ d_disk["trace"] # D!Missing THEN D!TraceUnit(c,
                       d_disk["tracePolicy"])
                   ELSE d_disk[f]]
<1>1. StepsOf(p) =
                  {D!Write("helper", D!HelperUnit(c))}
                  \cup (IF D!Present("trace") THEN {D!Write("trace", D!TraceUnit(c,
                      d_disk["tracePolicy"]))} ELSE {})
                  \cup {D!Write("config", c)}
                  \cup ({D!Reload} \cup (IF d_disk["config"].mode = "paranoid3_helper"
                      THEN {D!Step("restart", "helper")} ELSE {})
                      \cup (IF d_disk["trace"] # D!Missing THEN {D!Step("restart", "trace")}
                      ELSE {}) \cup {D!Step("restart", "collector")} \cup {D!Wait("any")})
  BY GrantSteps
<1>2. /\ T["config"] = c /\ T["collector"] = d_disk["collector"] /\ T["helper"] = D!HelperUnit(c)
      /\ T["trace"] = IF d_disk["trace"] # D!Missing THEN D!TraceUnit(c, d_disk["tracePolicy"]) ELSE D!Missing
      /\ T["profile"] = d_disk["profile"] /\ T["tracePolicy"] = d_disk["tracePolicy"]
  BY DEF D!Files, D!Units, D!Texts
<1> HIDE DEF p, T
<1>3. /\ d_disk["config"] # D!Missing /\ d_disk["collector"] # D!Missing
      /\ D!Config \in D!Policies /\ D!Config = d_disk["config"]
      /\ d_disk["collector"].mode = D!Config.mode /\ d_disk["collector"].profile = D!ProfileOf(d_disk)
      /\ d_disk["helper"] # D!Missing <=> D!Config.mode = "paranoid3_helper"
      /\ d_disk["trace"] # D!Missing <=> D!ProfileOf(d_disk) = "full_diagnostics"
      /\ \A u \in D!Units :
            /\ d_disk[u] # D!Missing => d_running[u] = Right(d_disk, u) /\ u \in d_enabled
            /\ d_disk[u] = D!Missing => d_running[u] = D!NoProcess /\ u \notin d_enabled
  BY HealthyForm
<1>4. c.mode = D!Config.mode /\ D!Config.mode = "paranoid3_helper"
  BY DEF D!UpdateGrant
<1>5. D!ProfileOf(T) = D!ProfileOf(d_disk)
  BY <1>2 DEF D!ProfileOf
<1>6. T["collector"] # D!Missing /\ T["config"] # D!Missing /\ T["helper"] # D!Missing
      /\ (T["trace"] # D!Missing <=> d_disk["trace"] # D!Missing)
  BY <1>2, <1>3, Contents
<1>9. D!Consistent(T)
  <2>1. T["helper"].grant = T["config"].grant
    BY <1>2, Contents
  <2>2. T["trace"] # D!Missing =>
            T["trace"].grant = T["config"].grant /\ T["trace"].policy = T["tracePolicy"]
    BY <1>2, <1>6, Contents
  <2> QED BY <1>2, <1>3, <1>4, <1>5, <1>6, <2>1, <2>2, ConsistentForm
<1>10. ASSUME NEW s \in StepsOf(p) PROVE StepFits(s, T)
  <2>1. \/ s = D!Write("config", T["config"]) \/ s = D!Write("helper", T["helper"])
        \/ s = D!Write("trace", T["trace"]) \/ s = D!Reload
        \/ s = D!Step("restart", "helper") \/ s = D!Step("restart", "collector") \/ s = D!Wait("any")
        \/ s = D!Step("restart", "trace") /\ T["trace"] # D!Missing
    BY <1>1, <1>2, <1>6, <1>10 DEF D!Present
  <2> QED BY <1>6, <2>1, StepFields, WriteFields, ReloadFields, WaitFields
          DEF StepFits, Writes, D!Units, D!Texts, D!Files
<1>11. FilesLead(StepsOf(p), T)
  <2>1. /\ \E s \in StepsOf(p) : Writes(s) /\ s.on = "config"
        /\ \E s \in StepsOf(p) : Writes(s) /\ s.on = "helper"
        /\ d_disk["trace"] # D!Missing => \E s \in StepsOf(p) : Writes(s) /\ s.on = "trace"
    BY <1>1, WriteFields DEF Writes, D!Present
  <2> QED BY <1>2, <2>1 DEF FilesLead, D!Files, D!Units, D!Texts
<1>12. LoadedLead(StepsOf(p), T)
  BY <1>1, ReloadFields DEF LoadedLead
<1>13. \A s \in StepsOf(p) : s.do \notin {"install", "stop", "disable"}
  BY <1>1, StepFields, WriteFields, ReloadFields, WaitFields
<1>15. /\ \E s \in StepsOf(p) : Acts(s, "restart", "collector")
       /\ \E s \in StepsOf(p) : Acts(s, "restart", "helper")
       /\ d_disk["trace"] # D!Missing => \E s \in StepsOf(p) : Acts(s, "restart", "trace")
  BY <1>1, <1>3, <1>4, StepFields DEF Acts
<1>16. ASSUME NEW u \in D!Units
       PROVE  IF T[u] # D!Missing THEN ServiceLeads(StepsOf(p), T, u) /\ EnabledLeads(StepsOf(p), u)
              ELSE NoServiceLeads(StepsOf(p), u) /\ NotEnabledLeads(StepsOf(p), u)
  <2>1. T[u] # D!Missing => \E s \in StepsOf(p) : Acts(s, "restart", u)
    BY <1>6, <1>15 DEF D!Units
  <2>2. T[u] = D!Missing <=> d_disk[u] = D!Missing
    BY <1>3, <1>4, <1>6 DEF D!Units
  <2>3. \A s \in StepsOf(p) : ~Acts(s, "disable", u)
    BY <1>13 DEF Acts
  <2> QED BY <1>3, <2>1, <2>2, <2>3
          DEF ServiceLeads, EnabledLeads, NoServiceLeads, NotEnabledLeads
<1>20. StopsPossible(StepsOf(p)) /\ InstallsPossible(StepsOf(p))
  BY <1>13 DEF StopsPossible, InstallsPossible
<1>21. Leads(StepsOf(p), T)
  BY <1>10, <1>11, <1>12, <1>16, <1>20 DEF Leads
<1>22. \A u \in D!Units : T[u] = D!Missing <=> d_disk[u] = D!Missing
  BY <1>3, <1>4, <1>6 DEF D!Units
<1> QED BY <1>9, <1>21, <1>22 DEF p, TargetFits

----------------------------------------------------------------------------
(* An upgrade leads to the units of the package, however the host was.     *)

\* What an upgrade promises of the collector and its Helper.
ServiceRestarts(rest, T, u) ==
    \/ \E s \in rest : Acts(s, "restart", u)
    \/ d_running[u] = Right(T, u) /\ \A s \in rest : Stage(s) >= 4
Upgrades(rest, T) ==
    /\ \A s \in rest : StepFits(s, T)
    /\ FilesLead(rest, T) /\ LoadedLead(rest, T)
    /\ \A u \in {"collector", "helper"} : T[u] # D!Missing => ServiceRestarts(rest, T, u)
UpgradeTarget(T) ==
    /\ T["collector"] = D!CollectorUnit(T["config"].mode, D!ProfileOf(T))
    /\ T["helper"] = IF T["config"].mode = "paranoid3_helper" THEN D!HelperUnit(T["config"]) ELSE D!Missing

LEMMA UpgradeForms ==
    ASSUME BasicInv, D!Upgrade
    PROVE  \E T : /\ UpgradeTarget(T) /\ Upgrades(StepsOf(D!UpgradeProgram), T)
                  /\ D!Healthy => /\ D!Consistent(T) /\ TargetFits("upgrade", d_disk, T)
                                  /\ Leads(StepsOf(D!UpgradeProgram), T)
<1> DEFINE p == D!UpgradeProgram
           T == [f \in D!Files |->
                   IF f = "collector" THEN D!CollectorUnit(D!Config.mode, D!ProfileOf(d_disk))
                   ELSE IF f = "helper" THEN IF D!Config.mode = "paranoid3_helper"
                       THEN D!HelperUnit(D!Config) ELSE D!Missing
                   ELSE IF f = "trace" /\ D!ProfileOf(d_disk) = "full_diagnostics"
                       THEN D!TraceUnit(D!Config, d_disk["tracePolicy"])
                   ELSE d_disk[f]]
<1>1. StepsOf(p) =
          (IF D!StaleHelper THEN {D!Step("disable", "helper"), D!Remove("helper")}
              ELSE (IF D!Present("helper") /\ d_disk["helper"] # D!HelperUnit(D!Config)
              THEN {D!Write("helper", D!HelperUnit(D!Config))} ELSE {}))
          \cup (IF D!ProfileOf(d_disk) = "full_diagnostics"
              /\ d_disk["trace"] # D!TraceUnit(D!Config, d_disk["tracePolicy"])
              THEN {D!Write("trace", D!TraceUnit(D!Config, d_disk["tracePolicy"]))} ELSE {})
          \cup (IF d_disk["collector"] # D!CollectorUnit(D!Config.mode, D!ProfileOf(d_disk))
              THEN {D!Write("collector", D!CollectorUnit(D!Config.mode, D!ProfileOf(d_disk)))} ELSE {})
          \cup ({D!Reload} \cup (IF D!Config.mode = "paranoid3_helper" THEN {D!Step("restart",
              "helper")} ELSE {}) \cup (IF D!ProfileOf(d_disk) = "full_diagnostics"
              THEN {D!Step("restart", "trace")} ELSE {}) \cup {D!Step("restart", "collector")})
          \cup {D!Wait(IF D!ProfileOf(d_disk) = "full_diagnostics" THEN "full_diagnostics" ELSE "any")}
  BY UpgradeSteps
<1>2. /\ T["config"] = d_disk["config"] /\ T["collector"] = D!CollectorUnit(D!Config.mode, D!ProfileOf(d_disk))
      /\ T["helper"] = (IF D!Config.mode = "paranoid3_helper" THEN D!HelperUnit(D!Config) ELSE D!Missing)
      /\ T["trace"] = (IF D!ProfileOf(d_disk) = "full_diagnostics" THEN D!TraceUnit(D!Config,
           d_disk["tracePolicy"]) ELSE d_disk["trace"])
      /\ T["profile"] = d_disk["profile"] /\ T["tracePolicy"] = d_disk["tracePolicy"]
  BY DEF D!Files, D!Units, D!Texts
<1> HIDE DEF p, T
<1>3. /\ d_disk["config"] # D!Missing /\ d_disk["collector"] # D!Missing /\ D!Config = d_disk["config"]
      /\ D!Config \in D!Policies
      /\ D!Config.mode = "paranoid3_helper" => d_disk["helper"] # D!Missing
      /\ D!ProfileOf(d_disk) = "full_diagnostics" => d_disk["trace"] # D!Missing
  BY DEF BasicInv, Typed, D!Upgrade, D!Deployed, D!Present, D!Config, D!TraceTopology
<1>4. D!Config.mode \in D!CollectorModes
  BY <1>3 DEF D!Policies, D!Configs
<1>5. D!ProfileOf(T) = D!ProfileOf(d_disk)
  BY <1>2 DEF D!ProfileOf
<1>6. /\ T["collector"] # D!Missing
      /\ T["helper"] # D!Missing <=> D!Config.mode = "paranoid3_helper"
      /\ D!ProfileOf(d_disk) = "full_diagnostics" => T["trace"] # D!Missing
  BY <1>2, Contents
<1>7. UpgradeTarget(T)
  BY <1>2, <1>3, <1>5 DEF UpgradeTarget
<1>8. /\ D!StaleHelper <=> D!Config.mode = "cap_perfmon" /\ d_disk["helper"] # D!Missing
      /\ D!StaleHelper => T["helper"] = D!Missing
  BY <1>2, <1>4 DEF D!StaleHelper, D!Present, D!CollectorModes
<1>10. ASSUME NEW s \in StepsOf(p) PROVE StepFits(s, T)
  <2>1. \/ s = D!Step("disable", "helper")
        \/ s = D!Remove("helper") /\ T["helper"] = D!Missing
        \/ s = D!Write("helper", T["helper"]) \/ s = D!Write("trace", T["trace"])
        \/ s = D!Write("collector", T["collector"]) \/ s = D!Reload
        \/ s = D!Step("restart", "helper") /\ T["helper"] # D!Missing
        \/ s = D!Step("restart", "trace") /\ T["trace"] # D!Missing
        \/ s = D!Step("restart", "collector")
        \/ s = D!Wait("any")
        \/ s = D!Wait("full_diagnostics") /\ D!ProfileOf(T) = "full_diagnostics"
    <3>1. ~D!StaleHelper /\ D!Present("helper") => D!Config.mode = "paranoid3_helper"
      BY <1>4, <1>8 DEF D!Present, D!CollectorModes
    <3> QED BY <1>1, <1>2, <1>5, <1>6, <1>8, <1>10, <3>1
  <2> QED BY <1>6, <2>1, StepFields, WriteFields, RemoveFields, ReloadFields, WaitFields
          DEF StepFits, Writes, D!Units, D!Texts, D!Files
<1>11. FilesLead(StepsOf(p), T)
  <2>1. d_disk["collector"] = T["collector"] \/ \E s \in StepsOf(p) : Writes(s) /\ s.on = "collector"
    BY <1>1, <1>2, WriteFields DEF Writes
  <2>2. d_disk["trace"] = T["trace"] \/ \E s \in StepsOf(p) : Writes(s) /\ s.on = "trace"
    BY <1>1, <1>2, WriteFields DEF Writes
  <2>3. d_disk["helper"] = T["helper"] \/ \E s \in StepsOf(p) : Writes(s) /\ s.on = "helper"
    <3>1. CASE D!StaleHelper
      BY <1>1, <3>1, RemoveFields DEF Writes
    <3>2. CASE ~D!StaleHelper /\ d_disk["helper"] # D!Missing
      BY <1>1, <1>2, <1>4, <1>8, <3>2, WriteFields DEF Writes, D!Present, D!CollectorModes
    <3>3. CASE d_disk["helper"] = D!Missing
      BY <1>2, <1>3, <3>3
    <3> QED BY <3>1, <3>2, <3>3
  <2> QED BY <1>2, <2>1, <2>2, <2>3 DEF FilesLead, D!Files, D!Units, D!Texts
<1>12. LoadedLead(StepsOf(p), T)
  BY <1>1, ReloadFields DEF LoadedLead
<1>15. /\ \E s \in StepsOf(p) : Acts(s, "restart", "collector")
       /\ T["helper"] # D!Missing => \E s \in StepsOf(p) : Acts(s, "restart", "helper")
       /\ D!ProfileOf(d_disk) = "full_diagnostics" => \E s \in StepsOf(p) : Acts(s, "restart", "trace")
  BY <1>1, <1>6, StepFields DEF Acts
<1>16. Upgrades(StepsOf(p), T)
  BY <1>10, <1>11, <1>12, <1>15 DEF Upgrades, ServiceRestarts
<1>17. ASSUME D!Healthy
       PROVE  D!Consistent(T) /\ TargetFits("upgrade", d_disk, T) /\ Leads(StepsOf(p), T)
  <2>1. /\ d_disk["helper"] # D!Missing <=> D!Config.mode = "paranoid3_helper"
        /\ d_disk["trace"] # D!Missing <=> D!ProfileOf(d_disk) = "full_diagnostics"
        /\ \A u \in D!Units :
              /\ d_disk[u] # D!Missing => d_running[u] = Right(d_disk, u) /\ u \in d_enabled
              /\ d_disk[u] = D!Missing => d_running[u] = D!NoProcess /\ u \notin d_enabled
    BY <1>17, HealthyForm
  <2>2. ~D!StaleHelper
    BY <1>8, <2>1
  <2>3. D!Consistent(T)
    <3>1. T["collector"].mode = T["config"].mode /\ T["collector"].profile = D!ProfileOf(T)
      BY <1>2, <1>3, <1>5, Contents
    <3>2. T["helper"] # D!Missing => T["helper"].grant = T["config"].grant
      BY <1>2, <1>3, Contents
    <3>3. T["trace"] # D!Missing =>
            T["trace"].grant = T["config"].grant /\ T["trace"].policy = T["tracePolicy"]
      BY <1>2, <1>3, <2>1, Contents
    <3>4. T["trace"] # D!Missing <=> D!ProfileOf(T) = "full_diagnostics"
      BY <1>2, <1>5, <1>6, <2>1
    <3> QED BY <1>2, <1>3, <1>6, <3>1, <3>2, <3>3, <3>4, ConsistentForm
  <2>4. \A u \in D!Units : T[u] = D!Missing <=> d_disk[u] = D!Missing
    BY <1>2, <1>3, <1>6, <2>1 DEF D!Units
  <2>5. \A s \in StepsOf(p) : s.do \notin {"install", "stop", "disable"}
    BY <1>1, <2>2, StepFields, WriteFields, ReloadFields, WaitFields
  <2>6. ASSUME NEW u \in D!Units
        PROVE  IF T[u] # D!Missing THEN ServiceLeads(StepsOf(p), T, u) /\ EnabledLeads(StepsOf(p), u)
               ELSE NoServiceLeads(StepsOf(p), u) /\ NotEnabledLeads(StepsOf(p), u)
    <3>1. T[u] # D!Missing => \E s \in StepsOf(p) : Acts(s, "restart", u)
      BY <1>15, <2>1, <2>4 DEF D!Units
    <3>2. \A s \in StepsOf(p) : ~Acts(s, "disable", u)
      BY <2>5 DEF Acts
    <3> QED BY <2>1, <2>4, <3>1, <3>2
            DEF ServiceLeads, EnabledLeads, NoServiceLeads, NotEnabledLeads
  <2>7. StopsPossible(StepsOf(p)) /\ InstallsPossible(StepsOf(p))
    BY <2>5 DEF StopsPossible, InstallsPossible
  <2>8. Leads(StepsOf(p), T)
    BY <1>10, <1>11, <1>12, <2>6, <2>7 DEF Leads
  <2> QED BY <2>3, <2>4, <2>8 DEF TargetFits
<1> QED BY <1>7, <1>16, <1>17 DEF p

LEMMA StepUpgrades ==
    ASSUME NEW T, NEW rest, NEW s, \A t \in rest : Stage(s) <= Stage(t),
           Upgrades(rest \cup {s}, T), HostForm, D!Effect(s)
    PROVE  Upgrades(rest, T)'
<1>1. StepFits(s, T) /\ (\A t \in rest : StepFits(t, T))
      /\ FilesLead(rest \cup {s}, T) /\ LoadedLead(rest \cup {s}, T)
  BY DEF Upgrades
<1>2. CASE Stage(s) = 1
  <2>0. s.on \in D!Units /\ ~Writes(s) /\ ~(s.do = "reload") /\ s.do # "restart"
    BY <1>1, <1>2, StagesOf DEF StepFits, Writes
  <2>1. /\ d_disk' = d_disk
        /\ s.do = "stop" => d_loaded' = d_loaded
        /\ s.do = "disable" => d_loaded' = D!OnDisk
    BY <1>2, <2>0, EffectStop
  <2>2. FilesLead(rest, T)'
    BY <1>1, <2>0, <2>1 DEF FilesLead
  <2>3. LoadedLead(rest, T)'
    BY <1>1, <1>2, <2>0, <2>1, StagesOf DEF LoadedLead
  <2>4. \A u \in {"collector", "helper"} : T[u] # D!Missing => ServiceRestarts(rest, T, u)'
    BY <1>2, <2>0 DEF Upgrades, ServiceRestarts, Acts
  <2> QED BY <1>1, <2>2, <2>3, <2>4 DEF Upgrades
<1>3. CASE Stage(s) = 2
  <2>0. /\ s.do # "tool" => s.on \in D!Files
        /\ s.do = "remove" => s.to = D!Missing
        /\ Writes(s) => s.on \in D!Files /\ s.to = T[s.on]
        /\ s.do \notin {"reload", "restart", "disable", "stop"}
    BY <1>1, <1>3, StagesOf DEF StepFits, Writes
  <2>1. /\ \A f \in D!Files : d_disk'[f] = IF Writes(s) /\ f = s.on THEN s.to ELSE d_disk[f]
        /\ d_running' = d_running /\ d_loaded' = d_loaded
    BY <1>3, <2>0, EffectWrite
  <2>2. FilesLead(rest, T)'
    BY <1>1, <2>0, <2>1 DEF FilesLead
  <2>3. LoadedLead(rest, T)'
    BY <1>1, <2>0, <2>1 DEF LoadedLead
  <2>4. \A u \in {"collector", "helper"} : T[u] # D!Missing => ServiceRestarts(rest, T, u)'
    BY <1>3, <2>0 DEF Upgrades, ServiceRestarts, Acts
  <2> QED BY <1>1, <2>2, <2>3, <2>4 DEF Upgrades
<1>4. CASE Stage(s) = 3
  <2>0. s.do = "reload" /\ \A t \in rest \cup {s} : Stage(t) # 2 /\ t.do # "disable"
    BY <1>4, StagesOf
  <2>1. d_disk' = d_disk /\ d_running' = d_running /\ d_loaded' = D!OnDisk
    BY <2>0, EffectReload
  <2>2. \A f \in D!Files : d_disk[f] = T[f]
    BY <1>1, <2>0, FilesDone
  <2>3. FilesLead(rest, T)'
    BY <2>1, <2>2 DEF FilesLead
  <2>4. LoadedLead(rest, T)'
    BY <2>0, <2>1, <2>2, LoadedUnits DEF LoadedLead
  <2>5. \A u \in {"collector", "helper"} : T[u] # D!Missing => ServiceRestarts(rest, T, u)'
    BY <1>4, <2>0 DEF Upgrades, ServiceRestarts, Acts
  <2> QED BY <1>1, <2>3, <2>4, <2>5 DEF Upgrades
<1>5. CASE Stage(s) = 4
  <2>0. s.on \in D!Units /\ s.do \in {"enable", "restart"}
    BY <1>1, <1>5, StagesOf DEF StepFits, Writes
  <2>1. \A t \in rest \cup {s} : Stage(t) >= 4 /\ Stage(t) # 2 /\ t.do \notin {"disable", "reload"}
    BY <1>5, StagesOf
  <2>2. \A f \in D!Files : d_disk[f] = T[f]
    BY <1>1, <2>1, FilesDone
  <2>3. d_loaded = [u \in D!Units |-> T[u]]
    BY <1>1, <2>1 DEF LoadedLead
  <2>4. /\ d_disk' = d_disk /\ d_loaded' = d_loaded
        /\ \A u \in D!Units : d_running'[u] \in {d_running[u], Right(T, u)}
        /\ s.do = "restart" => d_running'[s.on] = Right(T, s.on)
    BY <1>5, <2>0, <2>2, <2>3, StartRuns
  <2>5. FilesLead(rest, T)' /\ LoadedLead(rest, T)'
    BY <2>1, <2>2, <2>3, <2>4 DEF FilesLead, LoadedLead
  <2>6. ASSUME NEW u \in {"collector", "helper"}, T[u] # D!Missing
        PROVE  ServiceRestarts(rest, T, u)'
    <3>1. u \in D!Units /\ ServiceRestarts(rest \cup {s}, T, u)
      BY <2>6 DEF Upgrades, D!Units
    <3> QED BY <2>1, <2>4, <3>1 DEF ServiceRestarts, Acts
  <2> QED BY <1>1, <2>5, <2>6 DEF Upgrades
<1>6. CASE Stage(s) = 5
  <2>0. ~Writes(s) /\ s.do \notin {"reload", "restart", "disable"}
    BY <1>6, StagesOf DEF Writes
  <2>1. d_disk' = d_disk /\ d_running' = d_running /\ d_loaded' = d_loaded
    BY <1>6, EffectWait
  <2>2. FilesLead(rest, T)' /\ LoadedLead(rest, T)'
    BY <1>1, <2>0, <2>1 DEF FilesLead, LoadedLead
  <2>3. \A u \in {"collector", "helper"} : T[u] # D!Missing => ServiceRestarts(rest, T, u)'
    BY <2>0, <2>1 DEF Upgrades, ServiceRestarts, Acts
  <2> QED BY <1>1, <2>2, <2>3 DEF Upgrades
<1> QED BY <1>2, <1>3, <1>4, <1>5, <1>6, StageType

\* Nothing remains of an upgrade.
LEMMA UpgradesDone ==
    ASSUME NEW T, UpgradeTarget(T), Upgrades({}, T)
    PROVE  /\ d_disk["collector"] = D!CollectorUnit(D!Config.mode, D!ProfileOf(d_disk))
           /\ d_running["collector"] = [unit |-> d_disk["collector"], config |-> D!Config]
           /\ d_disk["helper"] = (IF D!Config.mode = "paranoid3_helper" THEN D!HelperUnit(D!Config)
                ELSE D!Missing)
           /\ D!Present("helper") => d_running["helper"].unit = d_disk["helper"]
<1>1. /\ d_disk["config"] = T["config"] /\ d_disk["collector"] = T["collector"]
      /\ d_disk["helper"] = T["helper"] /\ d_disk["profile"] = T["profile"]
  BY DEF Upgrades, FilesLead, D!Files, D!Units, D!Texts
<1>2. D!ProfileOf(d_disk) = D!ProfileOf(T) /\ D!Config = T["config"]
  BY <1>1 DEF D!ProfileOf, D!Config
<1>3. T["collector"] # D!Missing
  BY Contents DEF UpgradeTarget
<1>4. d_running["collector"] = Right(T, "collector")
      /\ (T["helper"] # D!Missing => d_running["helper"] = Right(T, "helper"))
  BY <1>3 DEF Upgrades, ServiceRestarts
<1>5. d_running["collector"] = [unit |-> d_disk["collector"], config |-> D!Config]
  BY <1>1, <1>2, <1>4 DEF Right
<1>6. D!Present("helper") => d_running["helper"].unit = d_disk["helper"]
  BY <1>1, <1>4 DEF Right, D!Present
<1> QED BY <1>1, <1>2, <1>5, <1>6 DEF UpgradeTarget

----------------------------------------------------------------------------
(* A deployment leads to its files, or meets one it may not replace.       *)

Doomed == \E s \in Rest : s.do = "install" /\ d_disk[s.on] \notin {D!Missing, s.to}
Blocked(p) == d_disk["config"] \notin {D!Missing, p[2].to}

LEMMA DeployLeads ==
    ASSUME BasicInv, D!Healthy, NEW c \in D!Policies
    PROVE  \/ \E s \in StepsOf(D!DeployProgram(c)) : s.do = "install" /\ d_disk[s.on] \notin {D!Missing, s.to}
           \/ Leads(StepsOf(D!DeployProgram(c)), d_disk)
<1> DEFINE p == D!DeployProgram(c)
<1>1. StepsOf(p) =
                  {D!Tool, D!Install("config", c), D!Install("collector", D!CollectorUnit(c.mode,
                      "cpu_only"))}
                  \cup (IF c.mode = "paranoid3_helper" THEN {D!Install("helper", D!HelperUnit(c))} ELSE {})
                  \cup {D!Tool}
                  \cup ({D!Reload} \cup (IF c.mode = "paranoid3_helper" THEN {D!Step("enable",
                      "helper")} ELSE {}) \cup {D!Step("enable", "collector")})
                  \cup {D!Wait("any")}
  BY DeploySteps
<1> HIDE DEF p
<1> SUFFICES ASSUME \A s \in StepsOf(p) : s.do = "install" => d_disk[s.on] \in {D!Missing, s.to}
             PROVE  Leads(StepsOf(p), d_disk)
  BY DEF p
<1>3. /\ d_disk["config"] # D!Missing /\ d_disk["collector"] # D!Missing
      /\ D!Config \in D!Policies /\ D!Config = d_disk["config"]
      /\ d_disk["helper"] # D!Missing <=> D!Config.mode = "paranoid3_helper"
      /\ \A u \in D!Units :
            /\ d_disk[u] # D!Missing => d_running[u] = Right(d_disk, u) /\ u \in d_enabled
            /\ d_disk[u] = D!Missing => d_running[u] = D!NoProcess /\ u \notin d_enabled
  BY HealthyForm
<1>4. d_disk["config"] = c
  BY <1>1, <1>3, InstallFields
<1>5. d_disk["collector"] = D!CollectorUnit(c.mode, "cpu_only")
  BY <1>1, <1>3, InstallFields
<1>6. c.mode = "paranoid3_helper" => d_disk["helper"] = D!HelperUnit(c) /\ d_disk["helper"] # D!Missing
  <2>1. c.mode = "paranoid3_helper" => d_disk["helper"] # D!Missing
    BY <1>3, <1>4
  <2> QED BY <1>1, <2>1, InstallFields
<1>10. ASSUME NEW s \in StepsOf(p) PROVE StepFits(s, d_disk)
  <2>1. \/ s = D!Tool \/ s = D!Install("config", d_disk["config"])
        \/ s = D!Install("collector", d_disk["collector"]) \/ s = D!Install("helper", d_disk["helper"])
        \/ s = D!Reload \/ s = D!Step("enable", "collector") \/ s = D!Wait("any")
        \/ s = D!Step("enable", "helper") /\ d_disk["helper"] # D!Missing
    BY <1>1, <1>4, <1>5, <1>6, <1>10
  <2> QED BY <1>3, <2>1, StepFields, InstallFields, ReloadFields, WaitFields
          DEF StepFits, Writes, D!Units, D!Texts, D!Files
<1>11. FilesLead(StepsOf(p), d_disk)
  BY DEF FilesLead
<1>12. LoadedLead(StepsOf(p), d_disk)
  BY <1>1, ReloadFields DEF LoadedLead
<1>13. \A s \in StepsOf(p) : s.do \notin {"disable", "stop"}
  BY <1>1, StepFields, InstallFields, ReloadFields, WaitFields
<1>14. ASSUME NEW u \in D!Units
       PROVE  IF d_disk[u] # D!Missing THEN ServiceLeads(StepsOf(p), d_disk, u) /\ EnabledLeads(StepsOf(p), u)
              ELSE NoServiceLeads(StepsOf(p), u) /\ NotEnabledLeads(StepsOf(p), u)
  <2>1. \A s \in StepsOf(p) : ~Stops(s, u) /\ ~Acts(s, "disable", u)
    BY <1>13 DEF Stops, Acts
  <2> QED BY <1>3, <2>1 DEF ServiceLeads, EnabledLeads, NoServiceLeads, NotEnabledLeads
<1>15. StopsPossible(StepsOf(p)) /\ InstallsPossible(StepsOf(p))
  BY <1>13 DEF StopsPossible, InstallsPossible
<1> QED BY <1>10, <1>11, <1>12, <1>14, <1>15 DEF Leads

LEMMA NewDeployLeads ==
    ASSUME BasicInv, EnabledFiles, D!Absent, D!ProfileOf(d_disk) = "cpu_only", NEW c \in D!Policies,
           ~Blocked(D!DeployProgram(c))
    PROVE  \E T : D!Consistent(T) /\ Leads(StepsOf(D!DeployProgram(c)), T)
<1> DEFINE p == D!DeployProgram(c)
           T == [f \in D!Files |->
                   IF f = "config" THEN c
                   ELSE IF f = "collector" THEN D!CollectorUnit(c.mode, "cpu_only")
                   ELSE IF f = "helper" THEN IF c.mode = "paranoid3_helper" THEN D!HelperUnit(c)
                       ELSE D!Missing
                   ELSE d_disk[f]]
<1>0. d_disk["config"] \in {D!Missing, c}
  BY DeployFinal, InstallFields DEF Blocked
<1>1. StepsOf(p) =
                  {D!Tool, D!Install("config", c), D!Install("collector", D!CollectorUnit(c.mode,
                      "cpu_only"))}
                  \cup (IF c.mode = "paranoid3_helper" THEN {D!Install("helper", D!HelperUnit(c))} ELSE {})
                  \cup {D!Tool}
                  \cup ({D!Reload} \cup (IF c.mode = "paranoid3_helper" THEN {D!Step("enable",
                      "helper")} ELSE {}) \cup {D!Step("enable", "collector")})
                  \cup {D!Wait("any")}
  BY DeploySteps
<1>2. /\ T["config"] = c /\ T["collector"] = D!CollectorUnit(c.mode, "cpu_only")
      /\ T["helper"] = (IF c.mode = "paranoid3_helper" THEN D!HelperUnit(c) ELSE D!Missing)
      /\ T["trace"] = d_disk["trace"] /\ T["profile"] = d_disk["profile"]
      /\ T["tracePolicy"] = d_disk["tracePolicy"]
  BY DEF D!Files, D!Units, D!Texts
<1> HIDE DEF p, T
<1>3. \A u \in D!Units : d_disk[u] = D!Missing /\ d_running[u] = D!NoProcess /\ u \notin d_enabled
  BY DEF D!Absent, EnabledFiles, Off
<1>5. D!ProfileOf(T) = "cpu_only"
  BY <1>2 DEF D!ProfileOf
<1>6. /\ T["config"] # D!Missing /\ T["collector"] # D!Missing /\ T["trace"] = D!Missing
      /\ T["helper"] # D!Missing <=> c.mode = "paranoid3_helper"
  BY <1>2, <1>3, Contents DEF D!Units
<1>9. D!Consistent(T)
  <2>1. T["collector"].mode = T["config"].mode /\ T["collector"].profile = D!ProfileOf(T)
    BY <1>2, <1>5, Contents
  <2>2. T["helper"] # D!Missing => T["helper"].grant = T["config"].grant
    BY <1>2, Contents
  <2> QED BY <1>2, <1>5, <1>6, <2>1, <2>2, ConsistentForm
<1>10. ASSUME NEW s \in StepsOf(p) PROVE StepFits(s, T)
  <2>1. \/ s = D!Tool \/ s = D!Install("config", T["config"])
        \/ s = D!Install("collector", T["collector"]) \/ s = D!Install("helper", T["helper"])
        \/ s = D!Reload \/ s = D!Step("enable", "collector") \/ s = D!Wait("any")
        \/ s = D!Step("enable", "helper") /\ T["helper"] # D!Missing
    BY <1>1, <1>2, <1>6, <1>10
  <2> QED BY <1>6, <2>1, StepFields, InstallFields, ReloadFields, WaitFields
          DEF StepFits, Writes, D!Units, D!Texts, D!Files
<1>11. FilesLead(StepsOf(p), T)
  <2>1. /\ \E s \in StepsOf(p) : Writes(s) /\ s.on = "config"
        /\ \E s \in StepsOf(p) : Writes(s) /\ s.on = "collector"
        /\ c.mode = "paranoid3_helper" => \E s \in StepsOf(p) : Writes(s) /\ s.on = "helper"
    BY <1>1, InstallFields DEF Writes
  <2>2. c.mode # "paranoid3_helper" => d_disk["helper"] = T["helper"]
    BY <1>2, <1>3 DEF D!Units
  <2> QED BY <1>2, <2>1, <2>2 DEF FilesLead, D!Files, D!Units, D!Texts
<1>12. LoadedLead(StepsOf(p), T)
  BY <1>1, ReloadFields DEF LoadedLead
<1>13. \A s \in StepsOf(p) : s.do \notin {"disable", "stop"}
  BY <1>1, StepFields, InstallFields, ReloadFields, WaitFields
<1>14. InstallsPossible(StepsOf(p))
  <2>1. \A s \in StepsOf(p) : s.do = "install" =>
           \/ s.on \in D!Units
           \/ s.on = "config" /\ s.to = c
    BY <1>1, StepFields, InstallFields, ReloadFields, WaitFields DEF D!Units
  <2> QED BY <1>0, <1>3, <2>1 DEF InstallsPossible
<1>15. /\ \E s \in StepsOf(p) : Acts(s, "enable", "collector")
       /\ c.mode = "paranoid3_helper" => \E s \in StepsOf(p) : Acts(s, "enable", "helper")
  BY <1>1, StepFields DEF Acts
<1>16. ASSUME NEW u \in D!Units
       PROVE  IF T[u] # D!Missing THEN ServiceLeads(StepsOf(p), T, u) /\ EnabledLeads(StepsOf(p), u)
              ELSE NoServiceLeads(StepsOf(p), u) /\ NotEnabledLeads(StepsOf(p), u)
  <2>1. T[u] # D!Missing => \E s \in StepsOf(p) : Acts(s, "enable", u)
    BY <1>6, <1>15 DEF D!Units
  <2> QED BY <1>3, <2>1 DEF ServiceLeads, EnabledLeads, NoServiceLeads, NotEnabledLeads
<1>17. StopsPossible(StepsOf(p))
  BY <1>13 DEF StopsPossible
<1>18. Leads(StepsOf(p), T)
  BY <1>10, <1>11, <1>12, <1>14, <1>16, <1>17 DEF Leads
<1> QED BY <1>9, <1>18 DEF p

----------------------------------------------------------------------------
(* The invariant on the host.                                              *)

\* What a rollback needs that the files and the rest of the program do not say.
UndoInv(kind, before) ==
    /\ kind = "policy" /\ d_disk["config"] = before["config"] =>
          d_running["collector"] = Right(before, "collector")
    /\ kind = "profile" /\ d_disk["trace"] = D!Missing =>
          d_running["trace"] = D!NoProcess /\ "trace" \notin d_enabled

\* A deployment on a host without services runs what it has installed and enabled.
NewServices(before, done) ==
    /\ \A u \in D!Units : d_running[u] # D!NoProcess => D!Step("enable", u) \in done /\ d_disk[u] # D!Missing
    /\ \A f \in D!Files : d_disk[f] # before[f] =>
          before[f] = D!Missing /\ \E s \in done : Acts(s, "install", f)
UnitsInstalled(done) ==
    \A s \in done : s.do = "install" /\ s.on \in D!Units => d_disk[s.on] # D!Missing

ForwardInv ==
    d_op.phase = "forward" =>
       /\ d_op.healthy = "yes" /\ d_op.kind # "undeploy" =>
             /\ UndoInv(d_op.kind, d_op.before)
             /\ \/ d_op.kind = "deploy" /\ Doomed
                \/ \E T : D!Consistent(T) /\ TargetFits(d_op.kind, d_op.before, T) /\ Leads(Rest, T)
       /\ d_op.healthy = "absent" /\ d_op.kind = "deploy" =>
             /\ NewServices(d_op.before, D!Done(d_op)) /\ UnitsInstalled(D!Done(d_op))
             /\ \/ d_op.n <= 1 /\ Blocked(d_op.program)
                \/ \E T : D!Consistent(T) /\ Leads(Rest, T)
       /\ d_op.kind = "upgrade" => \E T : UpgradeTarget(T) /\ Upgrades(Rest, T)

\* The rollback of a deployment on a host without services.
Undeploys(rest, before) ==
    /\ \A s \in rest :
          /\ s.errors = "collect"
          /\ \/ s.do = "disable" /\ s.on \in D!Units /\ d_disk[s.on] # D!Missing
             \/ s.do = "remove" /\ s.on \in D!Files /\ s.to = D!Missing /\ before[s.on] = D!Missing
             \/ s.do = "reload"
    /\ \A f \in D!Files : d_disk[f] = before[f] \/ \E s \in rest : Acts(s, "remove", f)
    /\ \A u \in D!Units : d_running[u] = D!NoProcess \/ \E s \in rest : Acts(s, "disable", u)

BackInv ==
    d_op.phase = "back" =>
       /\ d_op.healthy = "yes" /\ d_op.kind \in {"profile", "grant", "policy", "upgrade"} =>
             d_op.faults >= 1 /\ (d_op.faults = 1 => Leads(Rest, d_op.before))
       /\ d_op.healthy = "absent" /\ d_op.kind = "deploy" =>
             /\ d_op.faults <= 1 => d_op.failed = {} /\ Undeploys(Rest, d_op.before)
             /\ d_op.faults = 0 => Rest = {}

HostInv == ForwardInv /\ BackInv /\ D!Converges /\ D!OneFaultRestored

LEMMA InitHost ==
    ASSUME D!Init
    PROVE  HostInv
<1>1. d_op.phase = "ended" /\ d_op.result = "none" /\ d_op.faults = 0
  BY DEF D!Init, D!NoTransaction
<1> QED BY <1>1 DEF HostInv, ForwardInv, BackInv, D!Converges, D!SuccessConverges,
      D!UpgradeConverges, D!OneFaultRestored

LEMMA BeginHost ==
    ASSUME StructInv, NEW kind, NEW p, D!Begin(kind, p), IsProgram(p),
           D!Healthy /\ kind # "undeploy" =>
              \/ kind = "deploy" /\ \E s \in StepsOf(p) : s.do = "install"
                   /\ d_disk[s.on] \notin {D!Missing, s.to}
              \/ \E T : D!Consistent(T) /\ TargetFits(kind, d_disk, T) /\ Leads(StepsOf(p), T),
           ~D!Healthy /\ D!Absent /\ D!ProfileOf(d_disk) = "cpu_only" /\ kind = "deploy" =>
              Blocked(p) \/ \E T : D!Consistent(T) /\ Leads(StepsOf(p), T),
           kind = "upgrade" => \E T : UpgradeTarget(T) /\ Upgrades(StepsOf(p), T)
    PROVE  HostInv'
<1>1. /\ d_op'.kind = kind /\ d_op'.phase = "forward" /\ d_op'.program = p /\ d_op'.n = 0
      /\ d_op'.before = d_disk /\ d_op'.healthy = HealthOf /\ d_op'.faults = 0 /\ d_op'.failed = {}
      /\ d_op'.result = "none" /\ Rest' = StepsOf(p) /\ D!Done(d_op)' = {}
      /\ d_disk' = d_disk /\ d_loaded' = d_loaded /\ d_enabled' = d_enabled /\ d_running' = d_running
      /\ d_package' = d_package
  BY BeginForm
<1>2. /\ HealthOf = "yes" <=> D!Healthy
      /\ HealthOf = "absent" => ~D!Healthy /\ D!Absent /\ D!ProfileOf(d_disk) = "cpu_only"
  BY DEF HealthOf
<1> HIDE DEF HealthOf
<1>3. ASSUME D!Healthy, kind # "undeploy"
      PROVE  /\ UndoInv(d_op.kind, d_op.before)'
             /\ \/ d_op'.kind = "deploy" /\ Doomed'
                \/ \E T : D!Consistent(T) /\ TargetFits(d_op'.kind, d_op'.before, T) /\ Leads(Rest, T)'
  <2>1. /\ d_disk["collector"] # D!Missing
        /\ \A u \in D!Units :
            /\ d_disk[u] # D!Missing => d_running[u] = Right(d_disk, u) /\ u \in d_enabled
            /\ d_disk[u] = D!Missing => d_running[u] = D!NoProcess /\ u \notin d_enabled
    BY <1>3, HealthyForm DEF StructInv
  <2>2. UndoInv(d_op.kind, d_op.before)'
    BY <1>1, <2>1 DEF UndoInv, D!Units
  <2>3. CASE kind = "deploy" /\ \E s \in StepsOf(p) : s.do = "install"
          /\ d_disk[s.on] \notin {D!Missing, s.to}
    BY <1>1, <2>2, <2>3 DEF Doomed
  <2>4. CASE \E T : D!Consistent(T) /\ TargetFits(kind, d_disk, T) /\ Leads(StepsOf(p), T)
    <3>1. PICK T : D!Consistent(T) /\ TargetFits(kind, d_disk, T) /\ Leads(StepsOf(p), T)
      BY <2>4
    <3>2. Leads(Rest, T)'
      BY <1>1, <3>1 DEF Leads, FilesLead, LoadedLead, StopsPossible, InstallsPossible,
         ServiceLeads, NoServiceLeads, EnabledLeads, NotEnabledLeads, WillStop
    <3> QED BY <1>1, <2>2, <3>1, <3>2
  <2> QED BY <1>3, <2>3, <2>4
<1>4. ASSUME ~D!Healthy, D!Absent, D!ProfileOf(d_disk) = "cpu_only", kind = "deploy"
      PROVE  /\ NewServices(d_op.before, D!Done(d_op))' /\ UnitsInstalled(D!Done(d_op))'
             /\ \/ d_op'.n <= 1 /\ Blocked(d_op.program)'
                \/ \E T : D!Consistent(T) /\ Leads(Rest, T)'
  <2>1. NewServices(d_op.before, D!Done(d_op))' /\ UnitsInstalled(D!Done(d_op))'
    BY <1>1, <1>4 DEF NewServices, UnitsInstalled, D!Absent
  <2>3. CASE Blocked(p)
    BY <1>1, <2>1, <2>3 DEF Blocked
  <2>4. CASE \E T : D!Consistent(T) /\ Leads(StepsOf(p), T)
    <3>1. PICK T : D!Consistent(T) /\ Leads(StepsOf(p), T)
      BY <2>4
    <3>2. Leads(Rest, T)'
      BY <1>1, <3>1 DEF Leads, FilesLead, LoadedLead, StopsPossible, InstallsPossible,
         ServiceLeads, NoServiceLeads, EnabledLeads, NotEnabledLeads, WillStop
    <3> QED BY <2>1, <3>1, <3>2
  <2> QED BY <1>4, <2>3, <2>4
<1>5. ASSUME kind = "upgrade"
      PROVE  \E T : UpgradeTarget(T)' /\ Upgrades(Rest, T)'
  <2>1. PICK T : UpgradeTarget(T) /\ Upgrades(StepsOf(p), T)
    BY <1>5
  <2>2. UpgradeTarget(T)'
    BY <1>1, <2>1 DEF UpgradeTarget, D!CollectorUnit, D!HelperUnit
  <2>3. Upgrades(Rest, T)'
    BY <1>1, <2>1 DEF Upgrades, FilesLead, LoadedLead, ServiceRestarts
  <2> QED BY <2>2, <2>3
<1>6. ForwardInv'
  BY <1>1, <1>2, <1>3, <1>4, <1>5 DEF ForwardInv
<1> QED BY <1>1, <1>6 DEF HostInv, BackInv, D!Converges, D!SuccessConverges, D!UpgradeConverges,
      D!OneFaultRestored

LEMMA CommandHost ==
    ASSUME StructInv, HostInv, D!Command
    PROVE  HostInv'
<1>0. BasicInv /\ EnabledFiles
  BY DEF StructInv, EnabledInv
<1>1. ASSUME NEW c \in D!Policies, D!Deploy(c) PROVE HostInv'
  <2>1. IsProgram(D!DeployProgram(c))
    BY DeploySteps DEF Segment
  <2>2. D!Healthy => \/ \E s \in StepsOf(D!DeployProgram(c)) : s.do = "install" /\ d_disk[s.on] \notin {D!Missing, s.to}
                     \/ D!Consistent(d_disk) /\ TargetFits("deploy", d_disk, d_disk)
                          /\ Leads(StepsOf(D!DeployProgram(c)), d_disk)
    BY <1>0, DeployLeads DEF D!Healthy, TargetFits
  <2>3. D!Absent /\ D!ProfileOf(d_disk) = "cpu_only" =>
           Blocked(D!DeployProgram(c)) \/ \E T : D!Consistent(T) /\ Leads(StepsOf(D!DeployProgram(c)), T)
    BY <1>0, NewDeployLeads
  <2> QED BY <1>1, <2>1, <2>2, <2>3, BeginHost DEF D!Deploy
<1>2. ASSUME NEW c \in D!Policies, D!UpdatePolicy(c) PROVE HostInv'
  <2>1. IsProgram(D!UpdatePolicyProgram(c))
    BY PolicySteps DEF Segment
  <2>2. D!Healthy => \E T : D!Consistent(T) /\ TargetFits("policy", d_disk, T)
          /\ Leads(StepsOf(D!UpdatePolicyProgram(c)), T)
    BY <1>0, <1>2, PolicyLeads
  <2> QED BY <1>2, <2>1, <2>2, BeginHost DEF D!UpdatePolicy
<1>3. ASSUME NEW c \in D!Policies, D!UpdateGrant(c) PROVE HostInv'
  <2>1. IsProgram(D!UpdateGrantProgram(c))
    BY GrantSteps DEF Segment
  <2>2. D!Healthy => \E T : D!Consistent(T) /\ TargetFits("grant", d_disk, T)
          /\ Leads(StepsOf(D!UpdateGrantProgram(c)), T)
    BY <1>0, <1>3, GrantLeads
  <2> QED BY <1>3, <2>1, <2>2, BeginHost DEF D!UpdateGrant
<1>4. ASSUME NEW target \in D!CollectorModes, D!SwitchMode(target) PROVE HostInv'
  <2>1. IsProgram(D!SwitchModeProgram(target))
    BY ModeSteps DEF Segment
  <2>2. D!Healthy => \E T : D!Consistent(T) /\ TargetFits("mode", d_disk, T)
          /\ Leads(StepsOf(D!SwitchModeProgram(target)), T)
    BY <1>0, <1>4, ModeLeads
  <2> QED BY <1>4, <2>1, <2>2, BeginHost DEF D!SwitchMode
<1>5. ASSUME NEW profile \in D!Profiles, D!SwitchProfile(profile) PROVE HostInv'
  <2>1. IsProgram(D!SwitchProfileProgram(profile))
    BY FullProfileSteps, CpuProfileSteps, StaleProfileSteps DEF Segment
  <2>2. D!Healthy => \E T : D!Consistent(T) /\ TargetFits("profile", d_disk, T)
          /\ Leads(StepsOf(D!SwitchProfileProgram(profile)), T)
    BY <1>0, <1>5, FullProfileLeads, CpuProfileLeads
  <2> QED BY <1>5, <2>1, <2>2, BeginHost DEF D!SwitchProfile
<1>6. ASSUME D!Upgrade PROVE HostInv'
  <2>1. IsProgram(D!UpgradeProgram)
    BY UpgradeSteps DEF Segment
  <2>2. PICK T : /\ UpgradeTarget(T) /\ Upgrades(StepsOf(D!UpgradeProgram), T)
                 /\ D!Healthy => /\ D!Consistent(T) /\ TargetFits("upgrade", d_disk, T)
                                 /\ Leads(StepsOf(D!UpgradeProgram), T)
    BY <1>0, <1>6, UpgradeForms
  <2> QED BY <1>6, <2>1, <2>2, BeginHost DEF D!Upgrade
<1>7. ASSUME D!Undeploy PROVE HostInv'
  <2>1. IsProgram(D!UndeployProgram)
    BY UndeploySteps DEF Segment
  <2> QED BY <1>7, <2>1, BeginHost DEF D!Undeploy
<1> QED BY <1>1, <1>2, <1>3, <1>4, <1>5, <1>6, <1>7 DEF D!Command

----------------------------------------------------------------------------
(* A step of a command that succeeds.                                      *)

\* The facts a rollback needs after a step of a program that leads to T.
LEMMA StepUndo ==
    ASSUME NEW T, NEW rest, NEW s, NEW kind, NEW before, \A t \in rest : Stage(s) <= Stage(t),
           D!Consistent(T), TargetFits(kind, before, T), Leads(rest \cup {s}, T), HostForm,
           \A t \in rest \cup {s} : KindStep(kind, "yes", before, t) /\ StepTyped(t),
           UndoInv(kind, before), D!Possible(s), D!Effect(s)
    PROVE  UndoInv(kind, before)'
<1>0. Leads(rest, T)'
  BY StepLeads
<1>f. StepFits(s, T) /\ FilesLead(rest, T)' /\ FilesLead(rest \cup {s}, T)
  BY <1>0 DEF Leads
<1>1. ASSUME kind = "policy", d_disk'["config"] = before["config"]
      PROVE  d_running'["collector"] = Right(before, "collector")
  <2>1. PICK t \in rest : Writes(t) /\ t.on = "config"
    BY <1>1, <1>f DEF FilesLead, TargetFits, D!Files, D!Texts
  <2>2. Stage(s) = 2
    BY <1>1, <2>1, StagesOf DEF KindStep, Writes, Acts
  <2>3. /\ s.do # "tool" => s.on \in D!Files
        /\ s.do = "remove" => s.to = D!Missing
    BY <2>2, StagesOf DEF StepTyped, Writes
  <2>4. /\ \A f \in D!Files : d_disk'[f] = IF Writes(s) /\ f = s.on THEN s.to ELSE d_disk[f]
        /\ d_running' = d_running
    BY <2>2, <2>3, EffectWrite
  <2>5. ~(Writes(s) /\ s.on = "config")
    BY <1>1, <1>f, <2>4 DEF StepFits, TargetFits, D!Files, D!Texts, Writes
  <2> QED BY <1>1, <2>4, <2>5 DEF UndoInv, D!Files, D!Texts
<1>2. ASSUME kind = "profile", d_disk'["trace"] = D!Missing
      PROVE  d_running'["trace"] = D!NoProcess /\ "trace" \notin d_enabled'
  <2>1. CASE T["trace"] = D!Missing
    BY <1>0, <1>2, <2>1 DEF Leads, NoServiceLeads, NotEnabledLeads, WillStop, D!Units
  <2>2. CASE T["trace"] # D!Missing
    <3>1. PICK t \in rest : Writes(t) /\ t.on = "trace"
      BY <1>2, <1>f, <2>2 DEF FilesLead, D!Files, D!Units
    <3>2. Stage(s) \in {1, 2}
      BY <3>1, StagesOf, StageType DEF Writes
    <3>3. CASE Stage(s) = 1
      <4>1. /\ d_disk' = d_disk
            /\ \A u \in D!Units : d_running'[u] = d_running[u] \/ (d_running'[u] = D!NoProcess /\ Stops(s, u))
            /\ s.do = "stop" => d_enabled' = d_enabled
            /\ s.do = "disable" => d_enabled' = d_enabled \ {s.on}
        BY <3>3, StagesOf, EffectStop DEF StepTyped
      <4> QED BY <1>2, <3>3, <4>1, StagesOf DEF UndoInv, D!Units
    <3>4. CASE Stage(s) = 2
      <4>1. /\ s.do # "tool" => s.on \in D!Files
            /\ s.do = "remove" => s.to = D!Missing
        BY <3>4, StagesOf DEF StepTyped, Writes
      <4>2. /\ \A f \in D!Files : d_disk'[f] = IF Writes(s) /\ f = s.on THEN s.to ELSE d_disk[f]
            /\ d_running' = d_running /\ d_enabled' = d_enabled
        BY <3>4, <4>1, EffectWrite
      <4>3. ~(Writes(s) /\ s.on = "trace")
        BY <1>2, <1>f, <2>2, <4>2 DEF StepFits, D!Files, D!Units, Writes
      <4> QED BY <1>2, <4>2, <4>3 DEF UndoInv, D!Files, D!Units
    <3> QED BY <3>2, <3>3, <3>4
  <2> QED BY <2>1, <2>2
<1> QED BY <1>1, <1>2 DEF UndoInv

\* A deployment that meets a file it may not replace.
LEMMA DoomedStays ==
    ASSUME StructInv, d_op.phase = "forward", d_op.kind = "deploy", Doomed, D!Succeed
    PROVE  Doomed'
<1>1. PICK s \in Rest : s.do = "install" /\ d_disk[s.on] \notin {D!Missing, s.to}
  BY DEF Doomed
<1>2. BasicInv /\ HostForm /\ D!InProgress /\ Advances /\ D!Possible(D!Current) /\ D!Effect(D!Current)
  BY SucceedAdvances DEF StructInv, BasicInv, D!Succeed
<1>3. Rest = Rest' \cup {D!Current}
  BY <1>2, AdvancesRest
<1>4. D!Current \in StepsOf(d_op.program) /\ s \in StepsOf(d_op.program) /\ StepTyped(D!Current)
        /\ StepTyped(s)
  BY <1>2, ProgramStep, RestSteps DEF BasicInv
<1>5. s # D!Current
  BY <1>1, <1>2 DEF D!Possible
<1>6. Writes(D!Current) => D!Current.do = "install"
  BY <1>4 DEF StructInv, KindInv, KindStep, Writes
<1>7. ~(Writes(D!Current) /\ D!Current.on = s.on)
  BY <1>1, <1>4, <1>5, <1>6 DEF StructInv, KindInv, DeployForm
<1>8. s.on \in D!Files
  BY <1>1, <1>4 DEF StepTyped, Writes
<1>9. d_disk'[s.on] = d_disk[s.on]
  BY <1>2, <1>4, <1>7, <1>8, EffectDisk
<1> QED BY <1>1, <1>3, <1>5, <1>9 DEF Doomed

\* What a deployment runs and has installed, whether its step succeeds or not.
LEMMA DeployRuns ==
    ASSUME StructInv, d_op.phase = "forward", d_op.kind = "deploy", d_op.healthy = "absent",
           D!InProgress, NewServices(d_op.before, D!Done(d_op)), UnitsInstalled(D!Done(d_op)),
               Taken(D!Current),
           NEW before, before = d_op.before, NEW done, done = D!Done(d_op), NEW s, s = D!Current
    PROVE  /\ NewServices(before, done \cup {s})' /\ UnitsInstalled(done)'
           /\ D!Effect(D!Current) => UnitsInstalled(done \cup {s})'
<1>1. BasicInv /\ HostForm
  BY DEF StructInv, BasicInv
<1>2. D!Current \in StepsOf(d_op.program) /\ StepTyped(D!Current)
      /\ KindStep("deploy", d_op.healthy, d_op.before, D!Current)
  BY <1>1, ProgramStep DEF BasicInv, StructInv, KindInv
<1>3. DeployForm(d_op.program) /\ \A u \in D!Units : d_op.before[u] = D!Missing
  BY DEF StructInv, KindInv, Begun
<1>4. D!Effect(D!Current) \/ D!NoEffect \/ Down(D!Current)
  BY DEF Taken
<1>5. D!Current.do \in {"tool", "install", "reload", "enable", "wait"}
  BY <1>2 DEF KindStep
<1>6. \A f \in D!Files : d_disk'[f] = d_disk[f] \/ (Writes(D!Current) /\ f = D!Current.on
        /\ d_disk'[f] = D!Current.to)
  BY <1>1, <1>2, <1>4, EffectDisk
<1>7. Writes(D!Current) => D!Current.do = "install"
  BY <1>5 DEF Writes
<1>8. ~Down(D!Current)
  BY <1>5 DEF Down
<1>9. \A u \in D!Units : d_disk[u] # D!Missing => d_disk'[u] # D!Missing
  BY <1>2, <1>6, <1>7 DEF StepTyped, D!Files
<1>10. ASSUME NEW u \in D!Units, d_running'[u] # D!NoProcess
       PROVE  D!Step("enable", u) \in D!Done(d_op) \cup {D!Current} /\ d_disk'[u] # D!Missing
  <2>1. CASE d_running[u] # D!NoProcess
    BY <1>9, <2>1 DEF NewServices
  <2>2. CASE d_running[u] = D!NoProcess
    <3>1. D!Effect(D!Current) /\ D!Possible(D!Current)
      BY <1>8, <1>10, <2>2 DEF Taken, D!NoEffect
    <3>2. D!Current.do = "enable"
      BY <1>5, <1>10, <2>2, <3>1 DEF D!Effect
    <3>3. D!Current.on \in D!Units /\ D!Current = D!Step("enable", D!Current.on)
      BY <1>2, <3>2 DEF StepTyped, KindStep
    <3>4. /\ d_disk' = d_disk
          /\ \A v \in D!Units :
                d_running'[v] = IF v \in D!StartSet(D!Current.on, D!OnDisk) /\ d_running[v] = D!NoProcess
                              THEN D!Process(v, D!OnDisk) ELSE d_running[v]
      BY <1>1, <3>1, <3>2, <3>3, EffectEnable
    <3>5. u \in D!StartSet(D!Current.on, D!OnDisk)
      BY <1>10, <2>2, <3>4
    <3>6. d_disk[u] # D!Missing
      BY <3>1, <3>2, <3>5 DEF D!Possible
    <3>7. CASE u = D!Current.on
      BY <3>3, <3>4, <3>6, <3>7
    <3>8. CASE u # D!Current.on
      <4>1. Acts(D!Current, "enable", "collector")
        BY <3>2, <3>5, <3>8 DEF D!StartSet, Acts
      <4>2. \E t \in D!Done(d_op) : Acts(t, "install", u)
        BY <1>3, <3>6 DEF NewServices, D!Files
      <4>3. D!Step("enable", u) \in StepsOf(d_op.program)
        BY <1>1, <1>3, <4>2, RestSteps DEF DeployForm, Acts
      <4>4. PICK i \in 1 .. Len(d_op.program) : d_op.program[i] = D!Step("enable", u)
        BY <4>3 DEF StepsOf
      <4>5. Len(d_op.program) \in Nat /\ d_op.n \in Nat /\ d_op.n < Len(d_op.program)
        BY <1>1, ProgramLength DEF BasicInv, D!InProgress
      <4>6. Stage(d_op.program[i]) = 4
        BY <4>4, StepStages
      <4>7. ~(d_op.n + 1 < i)
        <5>1. d_op.n + 1 \in 1 .. Len(d_op.program)
          BY <4>5
        <5> QED BY <1>3, <4>1, <4>6, <5>1 DEF DeployForm, Final, D!Current
      <4>8. i # d_op.n + 1
        BY <3>3, <3>8, <4>4, StepFields DEF D!Current
      <4>9. i \in 1 .. d_op.n
        BY <4>5, <4>7, <4>8
      <4>10. D!Step("enable", u) \in D!Done(d_op)
        BY <4>4, <4>9 DEF D!Done
      <4> QED BY <3>4, <3>6, <4>10
    <3> QED BY <3>7, <3>8
  <2> QED BY <2>1, <2>2
<1>11. ASSUME NEW f \in D!Files, d_disk'[f] # d_op.before[f]
       PROVE  d_op.before[f] = D!Missing /\ \E t \in D!Done(d_op) \cup {D!Current} : Acts(t, "install", f)
  <2>1. CASE d_disk[f] # d_op.before[f]
    BY <2>1 DEF NewServices
  <2>2. CASE d_disk[f] = d_op.before[f]
    <3>1. Writes(D!Current) /\ f = D!Current.on /\ d_disk'[f] = D!Current.to /\ D!Current.do = "install"
      BY <1>6, <1>7, <1>11, <2>2
    <3>2. D!Effect(D!Current) /\ D!Possible(D!Current)
      BY <1>8, <1>11, <2>2 DEF Taken, D!NoEffect
    <3>3. d_disk[f] = D!Missing
      BY <1>11, <2>2, <3>1, <3>2 DEF D!Possible
    <3> QED BY <2>2, <3>1, <3>3 DEF Acts
  <2> QED BY <2>1, <2>2
<1>12. NewServices(before, done \cup {s})'
  BY <1>10, <1>11 DEF NewServices
<1>13. UnitsInstalled(done)'
  BY <1>9 DEF UnitsInstalled
<1>14. ASSUME D!Effect(D!Current), D!Current.do = "install", D!Current.on \in D!Units
       PROVE  d_disk'[D!Current.on] # D!Missing
  BY <1>1, <1>2, <1>4, <1>14, EffectDisk DEF Writes, StepTyped
<1> QED BY <1>12, <1>13, <1>14 DEF UnitsInstalled

LEMMA RunningSteps ==
    ASSUME StructInv, D!Succeed
    PROVE  /\ HostForm /\ D!InProgress /\ Advances /\ D!Possible(D!Current) /\ D!Effect(D!Current)
           /\ Rest = Rest' \cup {D!Current} /\ D!Done(d_op)' = D!Done(d_op) \cup {D!Current}
           /\ Ordered(d_op.program) => \A t \in Rest' : Stage(D!Current) <= Stage(t)
           /\ \A t \in Rest : StepTyped(t) /\ t \in StepsOf(d_op.program)
           /\ d_op'.faults = d_op.faults /\ d_op'.failed = d_op.failed
<1>1. BasicInv /\ HostForm /\ D!InProgress /\ D!Possible(D!Current) /\ D!Effect(D!Current)
  BY DEF StructInv, BasicInv, D!Succeed
<1>2. Advances /\ d_op'.faults = d_op.faults /\ d_op'.failed = d_op.failed
  BY SucceedAdvances
<1>3. /\ Rest = Rest' \cup {D!Current} /\ D!Done(d_op)' = D!Done(d_op) \cup {D!Current}
      /\ Ordered(d_op.program) => \A t \in Rest' : Stage(D!Current) <= Stage(t)
  BY <1>1, <1>2, AdvancesRest
<1>4. \A t \in Rest : StepTyped(t) /\ t \in StepsOf(d_op.program)
  BY <1>1, RestSteps DEF BasicInv
<1> QED BY <1>1, <1>2, <1>3, <1>4

\* While a transaction runs it has no result.
LEMMA RunningHost ==
    ASSUME StructInv', d_op'.phase # "ended", ForwardInv', BackInv'
    PROVE  HostInv'
<1>1. d_op'.result = "none"
  BY DEF StructInv, BasicInv
<1> QED BY <1>1 DEF HostInv, D!Converges, D!SuccessConverges, D!UpgradeConverges, D!OneFaultRestored

LEMMA ForwardSucceeds ==
    ASSUME StructInv, HostInv, D!Succeed, d_op.phase = "forward"
    PROVE  ForwardInv'
<1>1. /\ HostForm /\ D!InProgress /\ Advances /\ D!Possible(D!Current) /\ D!Effect(D!Current)
      /\ Rest = Rest' \cup {D!Current} /\ D!Done(d_op)' = D!Done(d_op) \cup {D!Current}
      /\ Ordered(d_op.program) => \A t \in Rest' : Stage(D!Current) <= Stage(t)
      /\ \A t \in Rest : StepTyped(t) /\ t \in StepsOf(d_op.program)
      /\ d_op'.faults = d_op.faults /\ d_op'.failed = d_op.failed
  BY RunningSteps
<1>2. /\ d_op'.kind = d_op.kind /\ d_op'.phase = "forward" /\ d_op'.program = d_op.program
      /\ d_op'.n = d_op.n + 1 /\ d_op'.before = d_op.before /\ d_op'.healthy = d_op.healthy
      /\ d_package' = d_package
  BY <1>1 DEF Advances
<1>3. \A t \in Rest : KindStep(d_op.kind, d_op.healthy, d_op.before, t)
  BY <1>1 DEF StructInv, KindInv
<1>4. PICK rest : rest = Rest'
  OBVIOUS
<1>5. PICK s : s = D!Current
  OBVIOUS
<1>6. Rest = rest \cup {s}
  BY <1>1, <1>4, <1>5
<1>7. ASSUME d_op.healthy = "yes", d_op.kind # "undeploy"
      PROVE  /\ UndoInv(d_op.kind, d_op.before)'
             /\ \/ d_op'.kind = "deploy" /\ Doomed'
                \/ \E T : D!Consistent(T) /\ TargetFits(d_op'.kind, d_op'.before, T) /\ Leads(Rest, T)'
  <2>0. Ordered(d_op.program)
    BY <1>7 DEF StructInv, OrderInv
  <2>1. UndoInv(d_op.kind, d_op.before)
    BY <1>7 DEF HostInv, ForwardInv
  <2>2. CASE d_op.kind = "deploy" /\ Doomed
    BY <1>2, <2>2, DoomedStays DEF UndoInv
  <2>3. CASE \E T : D!Consistent(T) /\ TargetFits(d_op.kind, d_op.before, T) /\ Leads(Rest, T)
    <3>1. PICK T : D!Consistent(T) /\ TargetFits(d_op.kind, d_op.before, T) /\ Leads(rest \cup {s}, T)
      BY <1>6, <2>3
    <3>2. Leads(rest, T)'
      BY <1>1, <1>4, <1>5, <2>0, <3>1, StepLeads
    <3>3. Leads(Rest, T)'
      BY <1>4, <3>2 DEF Leads, FilesLead, LoadedLead, StopsPossible, InstallsPossible,
         ServiceLeads, NoServiceLeads, EnabledLeads, NotEnabledLeads, WillStop
    <3>4. PICK kind : kind = d_op.kind
      OBVIOUS
    <3>5. PICK before : before = d_op.before
      OBVIOUS
    <3>6. UndoInv(kind, before)'
      <4>1. \A t \in rest \cup {s} : KindStep(kind, "yes", before, t) /\ StepTyped(t)
        BY <1>1, <1>3, <1>6, <1>7, <3>4, <3>5
      <4> QED BY <1>1, <1>4, <1>5, <2>0, <2>1, <3>1, <3>4, <3>5, <4>1, StepUndo
    <3>7. UndoInv(d_op.kind, d_op.before)'
      BY <1>2, <3>4, <3>5, <3>6 DEF UndoInv
    <3> QED BY <1>2, <3>1, <3>3, <3>7
  <2> QED BY <1>7, <2>2, <2>3 DEF HostInv, ForwardInv
<1>8. ASSUME d_op.healthy = "absent", d_op.kind = "deploy"
      PROVE  /\ NewServices(d_op.before, D!Done(d_op))' /\ UnitsInstalled(D!Done(d_op))'
             /\ \/ d_op'.n <= 1 /\ Blocked(d_op.program)'
                \/ \E T : D!Consistent(T) /\ Leads(Rest, T)'
  <2>0. Ordered(d_op.program)
    BY <1>8 DEF StructInv, OrderInv
  <2>1. NewServices(d_op.before, D!Done(d_op)) /\ UnitsInstalled(D!Done(d_op))
    BY <1>8 DEF HostInv, ForwardInv
  <2>2. PICK before : before = d_op.before
    OBVIOUS
  <2>3. PICK done : done = D!Done(d_op)
    OBVIOUS
  <2>4. NewServices(before, done \cup {s})' /\ UnitsInstalled(done \cup {s})'
    BY <1>1, <1>5, <1>8, <2>1, <2>2, <2>3, DeployRuns DEF Taken
  <2>5. NewServices(d_op.before, D!Done(d_op))' /\ UnitsInstalled(D!Done(d_op))'
    BY <1>1, <1>2, <1>5, <2>2, <2>3, <2>4 DEF NewServices, UnitsInstalled
  <2>6. CASE d_op.n <= 1 /\ Blocked(d_op.program)
    <3>1. d_op.n \in Nat
      BY DEF StructInv, BasicInv
    <3>2. d_op.program[1] = D!Tool /\ Acts(d_op.program[2], "install", "config")
      BY <1>8 DEF StructInv, KindInv, DeployForm
    <3>3. d_op.n # 1
      <4> SUFFICES ASSUME d_op.n = 1 PROVE FALSE
        OBVIOUS
      <4>1. d_op.n + 1 = 2
        OBVIOUS
      <4>2. D!Current = d_op.program[2]
        BY <4>1 DEF D!Current
      <4> QED BY <1>1, <2>6, <3>2, <4>2 DEF D!Possible, Blocked, Acts
    <3>4. d_op.n = 0 /\ d_op'.n <= 1
      BY <1>2, <2>6, <3>1, <3>3
    <3>5. 0 + 1 = 1
      OBVIOUS
    <3>6. D!Current = D!Tool
      BY <3>2, <3>4, <3>5 DEF D!Current
    <3>7. d_disk' = d_disk
      BY <1>1, <3>6, ReloadFields DEF D!Effect
    <3> QED BY <1>2, <2>5, <2>6, <3>4, <3>7 DEF Blocked
  <2>7. CASE \E T : D!Consistent(T) /\ Leads(Rest, T)
    <3>1. PICK T : D!Consistent(T) /\ Leads(rest \cup {s}, T)
      BY <1>6, <2>7
    <3>2. Leads(rest, T)'
      BY <1>1, <1>4, <1>5, <2>0, <3>1, StepLeads
    <3>3. Leads(Rest, T)'
      BY <1>4, <3>2 DEF Leads, FilesLead, LoadedLead, StopsPossible, InstallsPossible,
         ServiceLeads, NoServiceLeads, EnabledLeads, NotEnabledLeads, WillStop
    <3> QED BY <2>5, <3>1, <3>3
  <2> QED BY <1>8, <2>6, <2>7 DEF HostInv, ForwardInv
<1>9. ASSUME d_op.kind = "upgrade"
      PROVE  \E T : UpgradeTarget(T)' /\ Upgrades(Rest, T)'
  <2>0. Ordered(d_op.program)
    BY <1>9 DEF StructInv, OrderInv
  <2>1. PICK T : UpgradeTarget(T) /\ Upgrades(rest \cup {s}, T)
    BY <1>6, <1>9 DEF HostInv, ForwardInv
  <2>2. UpgradeTarget(T)'
    BY <1>2, <2>1 DEF UpgradeTarget, D!CollectorUnit, D!HelperUnit
  <2>3. Upgrades(rest, T)'
    BY <1>1, <1>4, <1>5, <2>0, <2>1, StepUpgrades
  <2>4. Upgrades(Rest, T)'
    BY <1>4, <2>3 DEF Upgrades, FilesLead, LoadedLead, ServiceRestarts
  <2> QED BY <2>2, <2>4
<1> QED BY <1>2, <1>7, <1>8, <1>9 DEF ForwardInv

\* A step of the rollback of a deployment.
LEMMA StepUndeploys ==
    ASSUME NEW rest, NEW s, NEW before, Undeploys(rest \cup {s}, before), HostForm, D!Effect(s),
           \A t \in rest : Stage(s) <= Stage(t)
    PROVE  Undeploys(rest, before)'
<1>1. CASE s.do = "disable"
  <2>0. Stage(s) = 1 /\ s.on \in D!Units
    BY <1>1, StagesOf DEF Undeploys
  <2>1. /\ d_disk' = d_disk
        /\ \A u \in D!Units : d_running'[u] = d_running[u] \/ (d_running'[u] = D!NoProcess /\ Stops(s, u))
        /\ d_running'[s.on] = D!NoProcess
    BY <2>0, EffectStop
  <2> QED BY <1>1, <2>1 DEF Undeploys, Acts
<1>2. CASE s.do = "remove"
  <2>0. Stage(s) = 2 /\ s.on \in D!Files /\ Writes(s) /\ s.to = D!Missing /\ before[s.on] = D!Missing
    BY <1>2, StagesOf DEF Undeploys, Writes
  <2>1. /\ \A f \in D!Files : d_disk'[f] = IF Writes(s) /\ f = s.on THEN s.to ELSE d_disk[f]
        /\ d_running' = d_running
    BY <2>0, EffectWrite
  <2>2. \A t \in rest : t.do # "disable"
    BY <2>0, StagesOf
  <2> QED BY <1>2, <2>0, <2>1, <2>2 DEF Undeploys, Acts
<1>3. CASE s.do = "reload"
  <2>1. d_disk' = d_disk /\ d_running' = d_running
    BY <1>3, EffectReload
  <2> QED BY <1>3, <2>1 DEF Undeploys, Acts
<1> QED BY <1>1, <1>2, <1>3 DEF Undeploys

LEMMA BackSucceeds ==
    ASSUME StructInv, HostInv, D!Succeed, d_op.phase = "back"
    PROVE  BackInv'
<1>1. /\ HostForm /\ D!InProgress /\ Advances /\ D!Possible(D!Current) /\ D!Effect(D!Current)
      /\ Rest = Rest' \cup {D!Current}
      /\ Ordered(d_op.program) => \A t \in Rest' : Stage(D!Current) <= Stage(t)
      /\ d_op'.faults = d_op.faults /\ d_op'.failed = d_op.failed
  BY RunningSteps
<1>2. /\ d_op'.kind = d_op.kind /\ d_op'.before = d_op.before /\ d_op'.healthy = d_op.healthy
  BY <1>1 DEF Advances
<1>3. Ordered(d_op.program)
  BY DEF StructInv, OrderInv
<1>4. PICK rest : rest = Rest'
  OBVIOUS
<1>5. PICK s : s = D!Current
  OBVIOUS
<1>t. PICK before : before = d_op.before
  OBVIOUS
<1>6. Rest = rest \cup {s}
  BY <1>1, <1>4, <1>5
<1>7. ASSUME d_op.healthy = "yes", d_op.kind \in {"profile", "grant", "policy", "upgrade"}
      PROVE  d_op'.faults >= 1 /\ (d_op'.faults = 1 => Leads(Rest, d_op.before)')
  <2>1. d_op.faults >= 1 /\ (d_op.faults = 1 => Leads(rest \cup {s}, before))
    BY <1>6, <1>7, <1>t DEF HostInv, BackInv
  <2>2. D!Consistent(before)
    BY <1>7, <1>t DEF StructInv, KindInv, Begun
  <2>3. d_op.faults = 1 => Leads(rest, before)'
    BY <1>1, <1>3, <1>4, <1>5, <2>1, <2>2, StepLeads
  <2>4. d_op.faults = 1 => Leads(Rest, d_op.before)'
    BY <1>2, <1>4, <1>t, <2>3 DEF Leads, FilesLead, LoadedLead, StopsPossible, InstallsPossible,
         ServiceLeads, NoServiceLeads, EnabledLeads, NotEnabledLeads, WillStop
  <2> QED BY <1>1, <2>1, <2>4
<1>8. ASSUME d_op.healthy = "absent", d_op.kind = "deploy"
      PROVE  /\ d_op'.faults <= 1 => d_op'.failed = {} /\ Undeploys(Rest, d_op.before)'
             /\ d_op'.faults = 0 => Rest' = {}
  <2>1. /\ d_op.faults <= 1 => d_op.failed = {} /\ Undeploys(rest \cup {s}, before)
        /\ d_op.faults = 0 => Rest = {}
    BY <1>6, <1>8, <1>t DEF HostInv, BackInv
  <2>2. d_op.faults <= 1 => Undeploys(rest, before)'
    BY <1>1, <1>3, <1>4, <1>5, <2>1, StepUndeploys
  <2>3. d_op.faults <= 1 => Undeploys(Rest, d_op.before)'
    BY <1>2, <1>4, <1>t, <2>2 DEF Undeploys
  <2> QED BY <1>1, <2>1, <2>3
<1> QED BY <1>2, <1>7, <1>8 DEF BackInv

LEMMA SucceedHost ==
    ASSUME StructInv, StructInv', HostInv, D!Succeed
    PROVE  HostInv'
<1>1. d_op'.phase = d_op.phase /\ d_op.phase \in {"forward", "back"}
  BY SucceedAdvances DEF Advances, D!Succeed, D!InProgress, StructInv, BasicInv
<1>2. ForwardInv' /\ BackInv'
  BY <1>1, ForwardSucceeds, BackSucceeds DEF ForwardInv, BackInv
<1> QED BY <1>1, <1>2, RunningHost

\* A step is left out only after an error that was noted.
LEMMA SkipHost ==
    ASSUME StructInv, StructInv', HostInv, D!Skip
    PROVE  HostInv'
<1>1. /\ Advances /\ D!InProgress /\ d_op'.faults = d_op.faults /\ d_op'.failed = d_op.failed
  BY SucceedAdvances
<1>2. /\ d_op'.phase = d_op.phase /\ d_op'.healthy = d_op.healthy /\ d_op'.kind = d_op.kind
      /\ d_op'.before = d_op.before
  BY <1>1 DEF Advances
<1>3. d_op.phase = "back" /\ d_op.failed # {} /\ D!Current.unless # {}
  BY DEF D!Skip, D!Skipped, D!InProgress, StructInv, BasicInv
<1>4. D!Current \in Rest
  BY <1>1, ProgramStep DEF StructInv
<1>5. ~(d_op.healthy = "yes" /\ d_op.kind \in {"profile", "grant", "policy", "upgrade"} /\ d_op.faults = 1)
  BY <1>3, <1>4 DEF HostInv, BackInv, Leads, StepFits
<1>6. ~(d_op.healthy = "absent" /\ d_op.kind = "deploy" /\ d_op.faults <= 1)
  BY <1>3 DEF HostInv, BackInv
<1>7. d_op.faults \in Nat
  BY DEF StructInv, BasicInv
<1>8. BackInv'
  BY <1>1, <1>2, <1>3, <1>5, <1>6, <1>7 DEF HostInv, BackInv
<1> QED BY <1>2, <1>3, <1>8, RunningHost DEF ForwardInv

LEMMA FinishHost ==
    ASSUME StructInv, HostInv, D!Finish
    PROVE  HostInv'
<1>1. /\ Ends /\ d_op'.faults = d_op.faults /\ D!NoEffect /\ Rest = {}
      /\ d_op'.result = IF d_op.phase = "forward" THEN "ok"
                      ELSE IF d_op.failed = {} THEN "restored" ELSE "unrestored"
  BY FinishEnds
<1>2. /\ d_op'.phase = "ended" /\ d_op'.healthy = d_op.healthy /\ d_op'.kind = d_op.kind
      /\ d_op'.before = d_op.before /\ d_package' = d_package
      /\ d_disk' = d_disk /\ d_loaded' = d_loaded /\ d_enabled' = d_enabled /\ d_running' = d_running
  BY <1>1 DEF Ends, D!NoEffect
<1>3. d_op.phase \in {"forward", "back"} /\ HostForm /\ Typed(d_disk) /\ Typed(d_op.before)
  BY DEF D!Finish, StructInv, BasicInv
<1>4. D!Healthy => D!Healthy'
  BY <1>2 DEF D!Healthy, D!Serving, D!OnDisk
<1>5. D!SuccessConverges'
  <2> SUFFICES ASSUME d_op.phase = "forward", d_op.kind # "undeploy", d_op.healthy \in {"yes", "absent"}
               PROVE  D!Healthy
    BY <1>1, <1>2, <1>3, <1>4 DEF D!SuccessConverges
  <2>1. d_op.healthy = "absent" => d_op.kind = "deploy"
    BY DEF StructInv, KindInv, Begun
  <2>2. ~Doomed
    BY <1>1 DEF Doomed
  <2>3. d_op.kind = "deploy" => ~(d_op.n <= 1)
    <3> SUFFICES ASSUME d_op.kind = "deploy" PROVE ~(d_op.n <= 1)
      OBVIOUS
    <3>1. d_op.n = Len(d_op.program) /\ Len(d_op.program) >= 2 /\ d_op.n \in Nat
      BY DEF D!Finish, StructInv, BasicInv, KindInv, DeployForm
    <3> QED BY <3>1
  <2>4. PICK T : D!Consistent(T) /\ Leads({}, T)
    BY <1>1, <2>1, <2>2, <2>3 DEF HostInv, ForwardInv
  <2> QED BY <1>3, <2>4, LeadsHealthy
<1>6. D!UpgradeConverges'
  <2> SUFFICES ASSUME d_op.phase = "forward", d_op.kind = "upgrade"
               PROVE  D!UpgradeConverges'
    BY <1>1, <1>2, <1>3 DEF D!UpgradeConverges
  <2>1. PICK T : UpgradeTarget(T) /\ Upgrades({}, T)
    BY <1>1 DEF HostInv, ForwardInv
  <2>2. /\ d_disk["collector"] = D!CollectorUnit(D!Config.mode, D!ProfileOf(d_disk))
        /\ d_running["collector"] = [unit |-> d_disk["collector"], config |-> D!Config]
        /\ d_disk["helper"] = (IF D!Config.mode = "paranoid3_helper" THEN D!HelperUnit(D!Config)
             ELSE D!Missing)
        /\ D!Present("helper") => d_running["helper"].unit = d_disk["helper"]
    BY <2>1, UpgradesDone
  <2> QED BY <1>2, <2>2 DEF D!UpgradeConverges, D!CollectorUnit, D!HelperUnit, D!Config, D!Present
<1>7. D!OneFaultRestored'
  <2> SUFFICES ASSUME d_op.phase = "back", d_op.faults = 1
               PROVE  /\ d_op.healthy = "yes" /\ d_op.kind \in {"profile", "grant", "policy", "upgrade"} =>
                             d_disk = d_op.before /\ D!Healthy
                      /\ d_op.healthy = "absent" /\ d_op.kind = "deploy" => d_disk = d_op.before /\ D!Absent
    BY <1>1, <1>2, <1>3, <1>4 DEF D!OneFaultRestored, D!Absent
  <2>1. ASSUME d_op.healthy = "yes", d_op.kind \in {"profile", "grant", "policy", "upgrade"}
        PROVE  d_disk = d_op.before /\ D!Healthy
    <3>1. D!Consistent(d_op.before)
      BY <2>1 DEF StructInv, KindInv, Begun
    <3>2. Leads({}, d_op.before)
      BY <1>1, <2>1 DEF HostInv, BackInv
    <3>3. D!Healthy /\ \A f \in D!Files : d_disk[f] = d_op.before[f]
      BY <1>3, <3>1, <3>2, LeadsHealthy
    <3> QED BY <1>3, <3>3 DEF Typed
  <2>2. ASSUME d_op.healthy = "absent", d_op.kind = "deploy"
        PROVE  d_disk = d_op.before /\ D!Absent
    <3>1. Undeploys({}, d_op.before)
      BY <1>1, <2>2 DEF HostInv, BackInv
    <3>2. \A u \in D!Units : d_op.before[u] = D!Missing
      BY <2>2 DEF StructInv, KindInv, Begun
    <3>3. \A f \in D!Files : d_disk[f] = d_op.before[f]
      BY <3>1 DEF Undeploys
    <3>4. d_disk = d_op.before
      BY <1>3, <3>3 DEF Typed
    <3> QED BY <3>1, <3>2, <3>4 DEF Undeploys, D!Absent
  <2> QED BY <2>1, <2>2
<1> QED BY <1>2, <1>5, <1>6, <1>7 DEF HostInv, ForwardInv, BackInv, D!Converges

----------------------------------------------------------------------------
(* A step of a command that fails: the rollback leads to the files before. *)

\* What the services are, whatever the step that failed left.
UndoFacts(kind, before) ==
    /\ kind \in {"grant", "upgrade", "policy"} =>
          \A u \in D!Units : /\ u \in d_enabled <=> before[u] # D!Missing
                             /\ before[u] = D!Missing => d_running[u] = D!NoProcess
    /\ kind = "policy" =>
          /\ d_loaded = [u \in D!Units |-> before[u]]
          /\ \A u \in {"helper", "trace"} : before[u] # D!Missing => d_running[u] = Right(before, u)
    /\ kind = "profile" =>
          IF before["helper"] = D!Missing THEN d_running["helper"] = D!NoProcess /\ "helper" \notin d_enabled
          ELSE d_running["helper"] = Right(before, "helper") /\ "helper" \in d_enabled

LEMMA QuietSteps ==
    ASSUME NEW kind, NEW before, NEW rest, \A t \in rest : KindStep(kind, "yes", before, t)
    PROVE  /\ kind \in {"grant", "upgrade", "policy"} =>
                 \A t \in rest : t.do \notin {"disable", "enable", "stop"}
           /\ kind = "policy" =>
                 \A t \in rest : t.do # "reload" /\ (t.do = "restart" => t.on = "collector")
           /\ kind = "profile" =>
                 \A t \in rest : t.do # "restart" /\ (t.do \in {"enable", "disable"} => t.on # "helper")
BY DEF KindStep, Acts

LEMMA LeadsUndo ==
    ASSUME NEW kind, NEW before, NEW rest, NEW T, \A t \in rest : KindStep(kind, "yes", before, t),
           TargetFits(kind, before, T), Leads(rest, T)
    PROVE  UndoFacts(kind, before)
<1>1. /\ kind \in {"grant", "upgrade", "policy"} =>
            \A t \in rest : t.do \notin {"disable", "enable", "stop"}
      /\ kind = "policy" =>
            \A t \in rest : t.do # "reload" /\ (t.do = "restart" => t.on = "collector")
      /\ kind = "profile" =>
            \A t \in rest : t.do # "restart" /\ (t.do \in {"enable", "disable"} => t.on # "helper")
  BY QuietSteps
<1>2. ASSUME kind \in {"grant", "upgrade", "policy"}, NEW u \in D!Units
      PROVE  (u \in d_enabled <=> before[u] # D!Missing) /\ (before[u] = D!Missing
          => d_running[u] = D!NoProcess)
  <2>1. T[u] = D!Missing <=> before[u] = D!Missing
    BY <1>2 DEF TargetFits
  <2> QED BY <1>1, <1>2, <2>1
          DEF Leads, EnabledLeads, NotEnabledLeads, NoServiceLeads, WillStop, Acts
<1>3. ASSUME kind = "policy"
      PROVE  /\ d_loaded = [u \in D!Units |-> before[u]]
             /\ \A u \in {"helper", "trace"} : before[u] # D!Missing => d_running[u] = Right(before, u)
  <2>1. \A u \in D!Units : T[u] = before[u]
    BY <1>3 DEF TargetFits
  <2>2. d_loaded = [u \in D!Units |-> before[u]]
    BY <1>1, <1>3, <2>1 DEF Leads, LoadedLead
  <2>3. ASSUME NEW u \in {"helper", "trace"}, before[u] # D!Missing PROVE d_running[u] = Right(before, u)
    <3>1. u \in D!Units /\ T[u] = before[u] /\ Right(T, u) = Right(before, u)
      BY <2>1 DEF D!Units, Right
    <3> QED BY <1>1, <1>3, <2>3, <3>1 DEF Leads, ServiceLeads, Acts
  <2> QED BY <2>2, <2>3
<1>4. ASSUME kind = "profile"
      PROVE  IF before["helper"] = D!Missing THEN d_running["helper"] = D!NoProcess
          /\ "helper" \notin d_enabled
             ELSE d_running["helper"] = Right(before, "helper") /\ "helper" \in d_enabled
  <2>1. T["helper"] = before["helper"] /\ Right(T, "helper") = Right(before, "helper")
    BY <1>4 DEF TargetFits, Right
  <2> QED BY <1>1, <1>4, <2>1
          DEF Leads, ServiceLeads, EnabledLeads, NotEnabledLeads, NoServiceLeads, WillStop, Acts, D!Units
<1> QED BY <1>2, <1>3, <1>4 DEF UndoFacts

\* The same of the host after a step.
LEMMA LeadsUndoNext ==
    ASSUME NEW kind, NEW before, NEW rest, NEW T, \A t \in rest : KindStep(kind, "yes", before, t),
           TargetFits(kind, before, T), Leads(rest, T)'
    PROVE  UndoFacts(kind, before)'
<1>1. /\ kind \in {"grant", "upgrade", "policy"} =>
            \A t \in rest : t.do \notin {"disable", "enable", "stop"}
      /\ kind = "policy" =>
            \A t \in rest : t.do # "reload" /\ (t.do = "restart" => t.on = "collector")
      /\ kind = "profile" =>
            \A t \in rest : t.do # "restart" /\ (t.do \in {"enable", "disable"} => t.on # "helper")
  BY QuietSteps
<1>2. ASSUME kind \in {"grant", "upgrade", "policy"}, NEW u \in D!Units
      PROVE  (u \in d_enabled' <=> before[u] # D!Missing) /\ (before[u] = D!Missing
          => d_running'[u] = D!NoProcess)
  <2>1. T[u] = D!Missing <=> before[u] = D!Missing
    BY <1>2 DEF TargetFits
  <2> QED BY <1>1, <1>2, <2>1
          DEF Leads, EnabledLeads, NotEnabledLeads, NoServiceLeads, WillStop, Acts
<1>3. ASSUME kind = "policy"
      PROVE  /\ d_loaded' = [u \in D!Units |-> before[u]]
             /\ \A u \in {"helper", "trace"} : before[u] # D!Missing => d_running'[u] = Right(before, u)
  <2>1. \A u \in D!Units : T[u] = before[u]
    BY <1>3 DEF TargetFits
  <2>2. d_loaded' = [u \in D!Units |-> before[u]]
    BY <1>1, <1>3, <2>1 DEF Leads, LoadedLead
  <2>3. ASSUME NEW u \in {"helper", "trace"}, before[u] # D!Missing PROVE d_running'[u] = Right(before, u)
    <3>1. u \in D!Units /\ T[u] = before[u] /\ Right(T, u) = Right(before, u)
      BY <2>1 DEF D!Units, Right
    <3> QED BY <1>1, <1>3, <2>3, <3>1 DEF Leads, ServiceLeads, Acts
  <2> QED BY <2>2, <2>3
<1>4. ASSUME kind = "profile"
      PROVE  IF before["helper"] = D!Missing THEN d_running'["helper"] = D!NoProcess
          /\ "helper" \notin d_enabled'
             ELSE d_running'["helper"] = Right(before, "helper") /\ "helper" \in d_enabled'
  <2>1. T["helper"] = before["helper"] /\ Right(T, "helper") = Right(before, "helper")
    BY <1>4 DEF TargetFits, Right
  <2> QED BY <1>1, <1>4, <2>1
          DEF Leads, ServiceLeads, EnabledLeads, NotEnabledLeads, NoServiceLeads, WillStop, Acts, D!Units
<1> QED BY <1>2, <1>3, <1>4 DEF UndoFacts

LEMMA TakenUndo ==
    ASSUME NEW kind \in {"profile", "grant", "policy", "upgrade"}, NEW before, NEW rest, NEW s, NEW T,
           \A t \in rest : Stage(s) <= Stage(t), D!Consistent(T), TargetFits(kind, before, T),
           Leads(rest \cup {s}, T), HostForm, UndoInv(kind, before), Taken(s),
           \A t \in rest \cup {s} : KindStep(kind, "yes", before, t) /\ StepTyped(t)
    PROVE  UndoInv(kind, before)' /\ UndoFacts(kind, before)'
<1>0. UndoFacts(kind, before)
  BY LeadsUndo
<1>1. CASE D!NoEffect
  BY <1>0, <1>1 DEF D!NoEffect, UndoInv, UndoFacts
<1>2. CASE D!Effect(s) /\ D!Possible(s)
  <2>1. Leads(rest, T)'
    BY <1>2, StepLeads
  <2>2. UndoFacts(kind, before)'
    BY <2>1, LeadsUndoNext
  <2>3. UndoInv(kind, before)'
    BY <1>2, StepUndo
  <2> QED BY <2>2, <2>3
<1>3. CASE Down(s)
  <2>1. /\ s.do = "restart" /\ d_disk' = d_disk /\ d_loaded' = d_loaded /\ d_enabled' = d_enabled
        /\ \A u \in D!Units : d_running'[u] = IF u \in D!StopSet(s.on, d_loaded) THEN D!NoProcess
             ELSE d_running[u]
    BY <1>3 DEF Down
  <2>2. kind # "profile" /\ (kind = "policy" => s.on = "collector")
    BY <2>1, QuietSteps
  <2>3. kind = "policy" => \A u \in {"helper", "trace"} : d_running'[u] = d_running[u]
    BY <2>1, <2>2 DEF D!StopSet, D!Units
  <2>4. \A f \in D!Files : d_disk[f] = T[f]
    <3>1. \A t \in rest \cup {s} : Stage(t) # 2
      BY <2>1, StagesOf
    <3> QED BY <3>1, FilesDone DEF Leads
  <2>5. UndoInv(kind, before)'
    BY <2>1, <2>2, <2>4 DEF UndoInv, TargetFits, D!Files, D!Texts
  <2>6. UndoFacts(kind, before)'
    <3>1. \A u \in D!Units : d_running[u] = D!NoProcess => d_running'[u] = D!NoProcess
      BY <2>1
    <3> QED BY <1>0, <2>1, <2>2, <2>3, <3>1 DEF UndoFacts
  <2> QED BY <2>5, <2>6
<1> QED BY <1>1, <1>2, <1>3 DEF Taken

LEMMA GrantBack ==
    ASSUME NEW o, Undoable(o), o.kind = "grant", D!Consistent(o.before), UndoFacts("grant", o.before)',
           \A f \in D!Files : d_disk'[f] = o.before[f] \/ f \in D!Replaced(o)
    PROVE  Leads(StepsOf(D!RollbackGrant(o)), o.before)'
<1> DEFINE S == StepsOf(D!RollbackGrant(o))
<1>1. S =
                  (IF "config" \in D!Replaced(o) THEN {D!Write("config", o.before["config"])} ELSE {})
                  \cup (IF "trace" \in D!Replaced(o) THEN {D!Write("trace", o.before["trace"])} ELSE {})
                  \cup (IF "helper" \in D!Replaced(o) THEN {D!Write("helper", o.before["helper"])} ELSE {})
                  \cup ({D!Reload} \cup (IF o.before["config"].mode = "paranoid3_helper"
                      THEN {D!Step("restart", "helper")} ELSE {})
                      \cup (IF o.before["trace"] # D!Missing THEN {D!Step("restart", "trace")}
                      ELSE {}) \cup {D!Step("restart", "collector")} \cup {D!Wait("any")})
  BY GrantRollbackSteps
<1> HIDE DEF S
<1>2. PICK T : T = o.before
  OBVIOUS
<1>3. /\ T["config"] # D!Missing /\ T["collector"] # D!Missing
      /\ T["helper"] # D!Missing <=> T["config"].mode = "paranoid3_helper"
  <2>1. T["config"] # D!Missing /\ T["collector"] # D!Missing
    BY <1>2 DEF D!Consistent
  <2> QED BY <1>2, <2>1, ConsistentForm
<1>4. D!Replaced(o) \subseteq {"config", "helper", "trace"}
  <2>1. \A s \in D!Done(o) : s.do = "write" => s.on \in ChangedBy("grant")
    BY DEF Undoable, KindStep, Writes
  <2> QED BY <2>1 DEF D!Replaced, ChangedBy
<1>10. ASSUME NEW s \in S PROVE StepFits(s, T)
  <2>1. \/ s = D!Write("config", T["config"]) \/ s = D!Write("helper", T["helper"])
        \/ s = D!Write("trace", T["trace"]) \/ s = D!Reload
        \/ s = D!Step("restart", "helper") /\ T["helper"] # D!Missing
        \/ s = D!Step("restart", "collector") \/ s = D!Wait("any")
        \/ s = D!Step("restart", "trace") /\ T["trace"] # D!Missing
    BY <1>1, <1>2, <1>3, <1>10
  <2> QED BY <1>3, <2>1, StepFields, WriteFields, ReloadFields, WaitFields
          DEF StepFits, Writes, D!Units, D!Texts, D!Files
<1>11. FilesLead(S, T)'
  <2>1. \A f \in D!Replaced(o) : \E s \in S : Writes(s) /\ s.on = f
    BY <1>1, <1>4, WriteFields DEF Writes
  <2> QED BY <1>2, <2>1 DEF FilesLead
<1>12. LoadedLead(S, T)'
  BY <1>1, ReloadFields DEF LoadedLead
<1>13. \A s \in S : s.do \notin {"install", "stop", "disable"}
  BY <1>1, StepFields, WriteFields, ReloadFields, WaitFields
<1>14. \A u \in D!Units : T[u] # D!Missing => \E s \in S : Acts(s, "restart", u)
  BY <1>1, <1>2, <1>3, StepFields DEF Acts, D!Units
<1>15. ASSUME NEW u \in D!Units
       PROVE  IF T[u] # D!Missing THEN ServiceLeads(S, T, u)' /\ EnabledLeads(S, u)'
              ELSE NoServiceLeads(S, u)' /\ NotEnabledLeads(S, u)'
  <2>1. /\ u \in d_enabled' <=> T[u] # D!Missing
        /\ T[u] = D!Missing => d_running'[u] = D!NoProcess
    BY <1>2 DEF UndoFacts
  <2>2. \A s \in S : ~Acts(s, "disable", u)
    BY <1>13 DEF Acts
  <2> QED BY <1>14, <2>1, <2>2 DEF ServiceLeads, EnabledLeads, NoServiceLeads, NotEnabledLeads
<1>16. StopsPossible(S)' /\ InstallsPossible(S)'
  BY <1>13 DEF StopsPossible, InstallsPossible
<1>17. Leads(S, T)'
  BY <1>10, <1>11, <1>12, <1>15, <1>16 DEF Leads
<1> QED BY <1>2, <1>17 DEF S

LEMMA UpgradeBack ==
    ASSUME NEW o, Undoable(o), o.kind = "upgrade", D!Consistent(o.before), UndoFacts("upgrade", o.before)',
           \A f \in D!Files : d_disk'[f] = o.before[f] \/ f \in D!Replaced(o)
    PROVE  Leads(StepsOf(D!RollbackUpgrade(o)), o.before)'
<1> DEFINE S == StepsOf(D!RollbackUpgrade(o))
<1>1. S =
                  (IF "collector" \in D!Replaced(o) THEN {D!Write("collector",
                      o.before["collector"])} ELSE {})
                  \cup (IF "trace" \in D!Replaced(o) THEN {D!Write("trace", o.before["trace"])} ELSE {})
                  \cup (IF "helper" \in D!Replaced(o) \/ D!Remove("helper") \in D!Done(o)
                      THEN {D!Write("helper", o.before["helper"])} ELSE {})
                  \cup ({D!Reload} \cup (IF o.before["config"].mode = "paranoid3_helper"
                      THEN {D!Step("restart", "helper")} ELSE {})
                      \cup (IF D!ProfileOf(o.before) = "full_diagnostics" THEN {D!Step("restart",
                      "trace")} ELSE {}) \cup {D!Step("restart", "collector")})
  BY UpgradeRollbackSteps
<1> HIDE DEF S
<1>2. PICK T : T = o.before
  OBVIOUS
<1>3. /\ T["config"] # D!Missing /\ T["collector"] # D!Missing
      /\ T["helper"] # D!Missing <=> T["config"].mode = "paranoid3_helper"
      /\ T["trace"] # D!Missing <=> D!ProfileOf(T) = "full_diagnostics"
  <2>1. T["config"] # D!Missing /\ T["collector"] # D!Missing
    BY <1>2 DEF D!Consistent
  <2> QED BY <1>2, <2>1, ConsistentForm
<1>4. D!Replaced(o) \subseteq {"collector", "helper", "trace"}
  <2>1. \A s \in D!Done(o) : s.do = "write" => s.on \in ChangedBy("upgrade")
    BY DEF Undoable, KindStep, Writes
  <2> QED BY <2>1 DEF D!Replaced, ChangedBy
<1>10. ASSUME NEW s \in S PROVE StepFits(s, T)
  <2>1. \/ s = D!Write("collector", T["collector"]) \/ s = D!Write("helper", T["helper"])
        \/ s = D!Write("trace", T["trace"]) \/ s = D!Reload
        \/ s = D!Step("restart", "helper") /\ T["helper"] # D!Missing
        \/ s = D!Step("restart", "collector")
        \/ s = D!Step("restart", "trace") /\ T["trace"] # D!Missing
    BY <1>1, <1>2, <1>3, <1>10
  <2> QED BY <1>3, <2>1, StepFields, WriteFields, ReloadFields
          DEF StepFits, Writes, D!Units, D!Texts, D!Files
<1>11. FilesLead(S, T)'
  <2>1. \A f \in D!Replaced(o) : \E s \in S : Writes(s) /\ s.on = f
    BY <1>1, <1>4, WriteFields DEF Writes
  <2> QED BY <1>2, <2>1 DEF FilesLead
<1>12. LoadedLead(S, T)'
  BY <1>1, ReloadFields DEF LoadedLead
<1>13. \A s \in S : s.do \notin {"install", "stop", "disable"}
  BY <1>1, StepFields, WriteFields, ReloadFields
<1>14. \A u \in D!Units : T[u] # D!Missing => \E s \in S : Acts(s, "restart", u)
  BY <1>1, <1>2, <1>3, StepFields DEF Acts, D!Units
<1>15. ASSUME NEW u \in D!Units
       PROVE  IF T[u] # D!Missing THEN ServiceLeads(S, T, u)' /\ EnabledLeads(S, u)'
              ELSE NoServiceLeads(S, u)' /\ NotEnabledLeads(S, u)'
  <2>1. /\ u \in d_enabled' <=> T[u] # D!Missing
        /\ T[u] = D!Missing => d_running'[u] = D!NoProcess
    BY <1>2 DEF UndoFacts
  <2>2. \A s \in S : ~Acts(s, "disable", u)
    BY <1>13 DEF Acts
  <2> QED BY <1>14, <2>1, <2>2 DEF ServiceLeads, EnabledLeads, NoServiceLeads, NotEnabledLeads
<1>16. StopsPossible(S)' /\ InstallsPossible(S)'
  BY <1>13 DEF StopsPossible, InstallsPossible
<1>17. Leads(S, T)'
  BY <1>10, <1>11, <1>12, <1>15, <1>16 DEF Leads
<1> QED BY <1>2, <1>17 DEF S

LEMMA PolicyBack ==
    ASSUME NEW o, Undoable(o), o.kind = "policy", D!Consistent(o.before), UndoFacts("policy", o.before)',
           UndoInv("policy", o.before)', NEW d, d = d_disk',
           \A f \in D!Files : d_disk'[f] = o.before[f] \/ f = "config"
    PROVE  Leads(StepsOf(D!RollbackPolicy(o, d)), o.before)'
<1> DEFINE S == StepsOf(D!RollbackPolicy(o, d))
<1>1. S = IF d["config"] # o.before["config"]
          THEN {D!Write("config", o.before["config"]), D!Step("restart", "collector"), D!Wait("any")} ELSE {}
  BY PolicySteps, EmptySegment DEF D!RollbackPolicy, D!When
<1> HIDE DEF S
<1>2. PICK T : T = o.before
  OBVIOUS
<1>3. T["config"] # D!Missing /\ T["collector"] # D!Missing
  BY <1>2 DEF D!Consistent
<1>10. ASSUME NEW s \in S PROVE StepFits(s, T)
  <2>1. \/ s = D!Write("config", T["config"])
        \/ s = D!Step("restart", "collector") \/ s = D!Wait("any")
    BY <1>1, <1>2, <1>10
  <2> QED BY <1>3, <2>1, StepFields, WriteFields, WaitFields
          DEF StepFits, Writes, D!Units, D!Texts, D!Files
<1>11. FilesLead(S, T)'
  <2>1. d["config"] # T["config"] => \E s \in S : Writes(s) /\ s.on = "config"
    BY <1>1, <1>2, WriteFields DEF Writes
  <2> QED BY <1>2, <2>1 DEF FilesLead
<1>13. \A s \in S : s.do \notin {"install", "stop", "disable"}
  BY <1>1, StepFields, WriteFields, WaitFields
<1>12. LoadedLead(S, T)'
  BY <1>2, <1>13 DEF LoadedLead, UndoFacts
<1>14. d["config"] # T["config"] => \E s \in S : Acts(s, "restart", "collector")
  BY <1>1, <1>2, StepFields DEF Acts
<1>15. ASSUME NEW u \in D!Units
       PROVE  IF T[u] # D!Missing THEN ServiceLeads(S, T, u)' /\ EnabledLeads(S, u)'
              ELSE NoServiceLeads(S, u)' /\ NotEnabledLeads(S, u)'
  <2>1. /\ u \in d_enabled' <=> T[u] # D!Missing
        /\ T[u] = D!Missing => d_running'[u] = D!NoProcess
    BY <1>2 DEF UndoFacts
  <2>2. \A s \in S : ~Acts(s, "disable", u) /\ ~Stops(s, u)
    BY <1>13 DEF Acts, Stops
  <2>3. T[u] # D!Missing => d_running'[u] = Right(T, u) \/ \E s \in S : Acts(s, "restart", u)
    BY <1>2, <1>14 DEF UndoFacts, UndoInv, D!Units
  <2> QED BY <2>1, <2>2, <2>3 DEF ServiceLeads, EnabledLeads, NoServiceLeads, NotEnabledLeads
<1>16. StopsPossible(S)' /\ InstallsPossible(S)'
  BY <1>13 DEF StopsPossible, InstallsPossible
<1>17. Leads(S, T)'
  BY <1>10, <1>11, <1>12, <1>15, <1>16 DEF Leads
<1> QED BY <1>2, <1>17 DEF S

LEMMA ProfileBack ==
    ASSUME NEW o, Undoable(o), o.kind = "profile", D!Consistent(o.before), UndoFacts("profile", o.before)',
           UndoInv("profile", o.before)', NEW d, d = d_disk',
           \A f \in {"config", "helper"} : d_disk'[f] = o.before[f]
    PROVE  Leads(StepsOf(D!RollbackProfileSwitch(o, d)), o.before)'
<1> DEFINE S == StepsOf(D!RollbackProfileSwitch(o, d))
<1>1. S =
                  {D!Tolerated(D!Step("stop", "collector")), D!Tolerated(D!Step("disable", "trace"))}
                  \cup RestoreSteps("collector", o, d)
                  \cup RestoreSteps("trace", o, d)
                  \cup RestoreSteps("profile", o, d)
                  \cup RestoreSteps("tracePolicy", o, d)
                  \cup {D!Reload}
                  \cup (IF D!ProfileOf(o.before) = "full_diagnostics" THEN {D!Step("enable",
                      "trace")} ELSE {})
                  \cup {D!Step("enable", "collector"), D!Wait(D!ProfileOf(o.before))}
  BY ProfileRollbackSteps
<1> HIDE DEF S
<1>2. PICK T : T = o.before
  OBVIOUS
<1>3. /\ T["config"] # D!Missing /\ T["collector"] # D!Missing
      /\ T["trace"] # D!Missing <=> D!ProfileOf(T) = "full_diagnostics"
  <2>1. T["config"] # D!Missing /\ T["collector"] # D!Missing
    BY <1>2 DEF D!Consistent
  <2> QED BY <1>2, <2>1, ConsistentForm
<1>4. ASSUME NEW s \in S
      PROVE  \/ s = D!Tolerated(D!Step("stop", "collector")) \/ s = D!Tolerated(D!Step("disable", "trace"))
             \/ \E f \in {"collector", "trace", "profile", "tracePolicy"} :
                   \/ s = D!Write(f, T[f])
                   \/ s = D!Remove(f) /\ T[f] = D!Missing
             \/ s = D!Reload
             \/ s = D!Step("enable", "trace") /\ T["trace"] # D!Missing
             \/ s = D!Step("enable", "collector") \/ s = D!Wait(D!ProfileOf(T))
  BY <1>1, <1>2, <1>3, RestoreCases
<1>10. ASSUME NEW s \in S PROVE StepFits(s, T)
  BY <1>3, <1>4, StepFields, ToleratedFields, WriteFields, RemoveFields, ReloadFields, WaitFields, StepStages
     DEF StepFits, Writes, D!Units, D!Texts, D!Files
<1>11. FilesLead(S, T)'
  <2>1. ASSUME NEW f \in {"collector", "trace", "profile", "tracePolicy"}
        PROVE  d_disk'[f] = T[f] \/ \E s \in S : Writes(s) /\ s.on = f
    <3>1. RestoreSteps(f, o, d) \subseteq S
      BY <1>1, <2>1
    <3>2. CASE T[f] = D!Missing /\ d[f] = D!Missing
      BY <3>2
    <3>3. CASE T[f] = D!Missing /\ d[f] # D!Missing
      BY <1>2, <3>1, <3>3, RemoveFields DEF RestoreSteps, Writes
    <3>4. CASE T[f] # D!Missing
      BY <1>2, <3>1, <3>4, WriteFields DEF RestoreSteps, Writes
    <3> QED BY <3>2, <3>3, <3>4
  <2> QED BY <1>2, <2>1 DEF FilesLead, D!Files, D!Units, D!Texts
<1>12. LoadedLead(S, T)'
  BY <1>1, ReloadFields DEF LoadedLead
<1>13. \A s \in S : /\ s.do # "install" /\ s.do # "restart"
                    /\ s.do = "stop" => s.on = "collector"
                    /\ s.do = "disable" => s.on = "trace" /\ s.errors = "ignore"
  BY <1>4, StepFields, ToleratedFields, WriteFields, RemoveFields, ReloadFields, WaitFields
<1>14. /\ \E s \in S : Acts(s, "stop", "collector")
       /\ \E s \in S : Acts(s, "enable", "collector")
       /\ \E s \in S : Acts(s, "disable", "trace")
       /\ T["trace"] # D!Missing => \E s \in S : Acts(s, "enable", "trace")
  BY <1>1, <1>2, <1>3, StepFields, ToleratedFields DEF Acts
<1>15. ServiceLeads(S, T, "collector")' /\ EnabledLeads(S, "collector")'
  BY <1>14 DEF ServiceLeads, EnabledLeads
<1>16. IF T["trace"] # D!Missing THEN ServiceLeads(S, T, "trace")' /\ EnabledLeads(S, "trace")'
       ELSE NoServiceLeads(S, "trace")' /\ NotEnabledLeads(S, "trace")'
  <2>1. d_disk'["trace"] = D!Missing => d_running'["trace"] = D!NoProcess /\ "trace" \notin d_enabled'
    BY DEF UndoInv
  <2> QED BY <1>14, <2>1 DEF ServiceLeads, EnabledLeads, NoServiceLeads, NotEnabledLeads, WillStop
<1>17. IF T["helper"] # D!Missing THEN ServiceLeads(S, T, "helper")' /\ EnabledLeads(S, "helper")'
       ELSE NoServiceLeads(S, "helper")' /\ NotEnabledLeads(S, "helper")'
  <2>1. \A s \in S : ~Stops(s, "helper") /\ ~Acts(s, "disable", "helper")
    BY <1>13 DEF Stops, Acts
  <2> QED BY <1>2, <2>1
          DEF ServiceLeads, EnabledLeads, NoServiceLeads, NotEnabledLeads, UndoFacts
<1>18. StopsPossible(S)' /\ InstallsPossible(S)'
  BY <1>13 DEF StopsPossible, InstallsPossible
<1>19. Leads(S, T)'
  BY <1>3, <1>10, <1>11, <1>12, <1>15, <1>16, <1>17, <1>18 DEF Leads, D!Units
<1> QED BY <1>2, <1>19 DEF S

LEMMA DeployBack ==
    ASSUME NEW o, Undoable(o), o.kind = "deploy", o.healthy = "absent",
           NEW done, NEW s, done = D!Done(o), s = o.program[o.n + 1], StepTyped(s),
           NewServices(o.before, done \cup {s})', UnitsInstalled(done)',
           \A f \in D!Files : d_disk'[f] # o.before[f] => \E t \in done : Acts(t, "install", f)
    PROVE  Undeploys(StepsOf(D!RollbackDeployment(o)), o.before)'
<1> DEFINE S == StepsOf(D!RollbackDeployment(o))
<1>1. S =
                  (IF "collector" \in Attempted(o) THEN {D!Collected(D!Step("disable", "collector"),
                      {})} ELSE {})
                  \cup (IF "helper" \in Attempted(o) THEN {D!Collected(D!Step("disable", "helper"),
                      {})} ELSE {})
                  \cup (IF "collector" \in Installed(o) THEN {D!Collected(D!Remove("collector"),
                      {"collector"})} ELSE {})
                  \cup (IF "helper" \in Installed(o) THEN {D!Collected(D!Remove("helper"),
                      {"helper"})} ELSE {})
                  \cup (IF "config" \in Installed(o) THEN {D!Collected(D!Remove("config"),
                      {"collector", "helper"})} ELSE {})
                  \cup (IF Installed(o) \cap D!Units # {} THEN {D!Collected(D!Reload, {})} ELSE {})
  BY DeployRollbackSteps
<1> HIDE DEF S
<1>2. PICK T : T = o.before
  OBVIOUS
<1>3. \A u \in D!Units : T[u] = D!Missing
  BY <1>2 DEF Undoable, Begun
<1>4. \A f \in Installed(o) : f \in {"config", "collector", "helper"} /\ T[f] = D!Missing
  <2>1. \A t \in D!Done(o) : t.do = "install" => t.on \in ChangedBy("deploy")
    BY DEF Undoable, KindStep, Writes
  <2> QED BY <1>2, <2>1 DEF Installed, ChangedBy
<1>5. \A u \in Attempted(o) : u \in Installed(o)
  BY DEF Attempted
<1>6. \A u \in D!Units : u \in Installed(o) => d_disk'[u] # D!Missing
  BY DEF Installed, UnitsInstalled
<1>7. \A f \in D!Files : d_disk'[f] = T[f] \/ f \in Installed(o)
  BY <1>2 DEF Installed, NewServices, Acts
<1>8. ASSUME NEW u \in D!Units PROVE d_running'[u] = D!NoProcess \/ u \in Attempted(o)
  <2> SUFFICES ASSUME d_running'[u] # D!NoProcess PROVE u \in Attempted(o)
    OBVIOUS
  <2>1. D!Step("enable", u) \in D!Done(o) \cup {o.program[o.n + 1]} /\ d_disk'[u] # D!Missing
    BY DEF NewServices
  <2>2. u \in Installed(o)
    BY <1>3, <1>7, <2>1 DEF D!Files
  <2> QED BY <2>1, <2>2 DEF Attempted
<1>9. ASSUME NEW t \in S
      PROVE  /\ t.errors = "collect"
             /\ \/ t.do = "disable" /\ t.on \in D!Units /\ d_disk'[t.on] # D!Missing
                \/ t.do = "remove" /\ t.on \in D!Files /\ t.to = D!Missing /\ T[t.on] = D!Missing
                \/ t.do = "reload"
  <2>1. \/ t = D!Collected(D!Step("disable", "collector"), {}) /\ d_disk'["collector"] # D!Missing
        \/ t = D!Collected(D!Step("disable", "helper"), {}) /\ d_disk'["helper"] # D!Missing
        \/ t = D!Collected(D!Remove("collector"), {"collector"}) /\ T["collector"] = D!Missing
        \/ t = D!Collected(D!Remove("helper"), {"helper"}) /\ T["helper"] = D!Missing
        \/ t = D!Collected(D!Remove("config"), {"collector", "helper"}) /\ T["config"] = D!Missing
        \/ t = D!Collected(D!Reload, {})
    BY <1>1, <1>4, <1>5, <1>6, <1>9 DEF D!Units
  <2> QED BY <2>1, CollectedFields DEF D!Units, D!Files, D!Texts
<1>10. \A f \in Installed(o) : \E t \in S : Acts(t, "remove", f)
  BY <1>1, <1>4, CollectedFields DEF Acts
<1>11. \A u \in Attempted(o) : \E t \in S : Acts(t, "disable", u)
  <2>1. \A u \in Attempted(o) : u \in {"collector", "helper"}
    <3>1. \A u \in Attempted(o) : u \in D!Units \/ u = "config"
      BY <1>4, <1>5 DEF D!Units
    <3>2. "config" \notin Attempted(o)
      <4>1. \A t \in D!Done(o) \cup {s} : t.do = "enable" => t.on \in D!Units
        BY DEF Undoable, StepTyped
      <4>2. D!Step("enable", "config") \notin D!Done(o) \cup {s}
        BY <4>1, StepFields DEF D!Units
      <4> QED BY <4>2 DEF Attempted
    <3> QED BY <1>4, <1>5, <3>2
  <2> QED BY <1>1, <2>1, CollectedFields DEF Acts
<1>12. Undeploys(S, T)'
  BY <1>7, <1>8, <1>9, <1>10, <1>11 DEF Undeploys
<1> QED BY <1>2, <1>12 DEF S

\* The files after a step of a command that fails.
LEMMA FailedFiles ==
    ASSUME StructInv, D!Fail, d_op.phase = "forward", NEW f \in D!Files
    PROVE  \/ d_disk'[f] = d_op.before[f]
           \/ \E t \in D!Done(d_op) : Writes(t) /\ t.on = f
           \/ d_op.kind \in Interruptible /\ Writes(D!Current) /\ D!Current.on = f
<1>1. D!InProgress /\ Taken(D!Current) /\ (Writes(D!Current) => D!NoEffect \/ d_op.kind \in Interruptible)
  BY FailForms
<1>2. StepTyped(D!Current) /\ HostForm
  BY <1>1, ProgramStep DEF StructInv, BasicInv
<1>3. d_disk'[f] = d_disk[f] \/ (Writes(D!Current) /\ f = D!Current.on)
  BY <1>1, <1>2, EffectDisk DEF Taken
<1>4. d_disk[f] = d_op.before[f] \/ \E t \in D!Done(d_op) : Writes(t) /\ t.on = f
  BY DEF StructInv, KindInv
<1> QED BY <1>1, <1>3, <1>4 DEF D!NoEffect

\* The rollback of a command on a healthy host leads back to it.
LEMMA FailBack ==
    ASSUME StructInv, HostInv, D!Fail, d_op.phase = "forward", d_op.healthy = "yes",
           d_op.kind \in {"profile", "grant", "policy", "upgrade"}, NEW o, SameOp(o), NEW d, d = d_disk'
    PROVE  /\ D!Possible(D!Current)
           /\ d_op.kind = "grant" => Leads(StepsOf(D!RollbackGrant(o)), o.before)'
           /\ d_op.kind = "upgrade" => Leads(StepsOf(D!RollbackUpgrade(o)), o.before)'
           /\ d_op.kind = "policy" => Leads(StepsOf(D!RollbackPolicy(o, d)), o.before)'
           /\ d_op.kind = "profile" => Leads(StepsOf(D!RollbackProfileSwitch(o, d)), o.before)'
<1>1. D!InProgress /\ Taken(D!Current)
  BY FailForms
<1>2. BasicInv /\ HostForm /\ Ordered(d_op.program)
  BY DEF StructInv, BasicInv, OrderInv
<1>3. PICK rest : rest = {d_op.program[i] : i \in (d_op.n + 2) .. Len(d_op.program)}
  OBVIOUS
<1>4. PICK s : s = D!Current
  OBVIOUS
<1>5. Rest = rest \cup {s} /\ \A t \in rest : Stage(s) <= Stage(t)
  BY <1>1, <1>2, <1>3, <1>4, ProgramStep
<1>6. \A t \in rest \cup {s} : KindStep(d_op.kind, "yes", d_op.before, t) /\ StepTyped(t)
  BY <1>2, <1>5, RestSteps DEF StructInv, BasicInv, KindInv
<1>7. PICK T : D!Consistent(T) /\ TargetFits(d_op.kind, d_op.before, T) /\ Leads(rest \cup {s}, T)
  BY <1>5 DEF HostInv, ForwardInv
<1>8. PICK kind : kind = d_op.kind
  OBVIOUS
<1>9. o.kind = kind /\ o.before = d_op.before /\ o.healthy = "yes"
  BY <1>8 DEF SameOp
<1>10. D!Possible(D!Current)
  <2>1. s.errors = "raise"
    BY <1>6 DEF KindStep
  <2> QED BY <1>4, <1>5, <1>7, <2>1, LeadsPossible
<1>11. UndoInv(kind, o.before)' /\ UndoFacts(kind, o.before)'
  <2>1. UndoInv(kind, o.before)
    BY <1>8, <1>9 DEF HostInv, ForwardInv
  <2>2. TargetFits(kind, o.before, T) /\ \A t \in rest \cup {s} : KindStep(kind, "yes", o.before, t)
          /\ StepTyped(t)
    BY <1>6, <1>7, <1>8, <1>9
  <2>3. Taken(s)
    BY <1>1, <1>4
  <2> QED BY <1>2, <1>5, <1>7, <1>8, <2>1, <2>2, <2>3, TakenUndo
<1>12. Undoable(o) /\ D!Done(o) = D!Done(d_op) /\ D!Consistent(o.before)
  <2>1. Undoable(o) /\ D!Done(o) = D!Done(d_op)
    BY UndoableOp
  <2> QED BY <1>9, <2>1 DEF Undoable, Begun
<1>13. CASE kind \in {"grant", "upgrade"}
  <2>1. kind \notin Interruptible
    BY <1>13, DeploymentAssumption DEF D!DeploymentConstants
  <2>2. \A t \in D!Done(o) : Writes(t) => t.do = "write"
    BY <1>9, <1>12, <1>13 DEF Undoable, KindStep, Writes
  <2>3. \A f \in D!Files : d_disk'[f] = o.before[f] \/ f \in D!Replaced(o)
    BY <1>8, <1>9, <1>12, <2>1, <2>2, FailedFiles DEF D!Replaced
  <2>4. kind = "grant" => Leads(StepsOf(D!RollbackGrant(o)), o.before)'
    BY <1>9, <1>11, <1>12, <2>3, GrantBack
  <2>5. kind = "upgrade" => Leads(StepsOf(D!RollbackUpgrade(o)), o.before)'
    BY <1>9, <1>11, <1>12, <2>3, UpgradeBack
  <2> QED BY <1>8, <1>10, <1>13, <2>4, <2>5
<1>14. ASSUME NEW f \in D!Files, d_disk'[f] # o.before[f] PROVE f \in ChangedBy(kind)
  <2>1. (\E t \in D!Done(o) : Writes(t) /\ t.on = f) \/ (Writes(s) /\ s.on = f)
    BY <1>4, <1>9, <1>12, <1>14, FailedFiles
  <2> QED BY <1>6, <1>8, <1>9, <1>12, <2>1 DEF Undoable, KindStep
<1>15. CASE kind = "policy"
  <2>1. \A f \in D!Files : d_disk'[f] = o.before[f] \/ f = "config"
    BY <1>14, <1>15 DEF ChangedBy
  <2>2. Leads(StepsOf(D!RollbackPolicy(o, d)), o.before)'
    BY <1>9, <1>11, <1>12, <1>15, <2>1, PolicyBack
  <2> QED BY <1>8, <1>10, <1>15, <2>2
<1>16. CASE kind = "profile"
  <2>1. \A f \in {"config", "helper"} : d_disk'[f] = o.before[f]
    BY <1>14, <1>16 DEF ChangedBy, D!Files, D!Units, D!Texts
  <2>2. Leads(StepsOf(D!RollbackProfileSwitch(o, d)), o.before)'
    BY <1>9, <1>11, <1>12, <1>16, <2>1, ProfileBack
  <2> QED BY <1>8, <1>10, <1>16, <2>2
<1> QED BY <1>8, <1>13, <1>15, <1>16

\* The rollback of a deployment on a host without services.
LEMMA FailUndeploys ==
    ASSUME StructInv, HostInv, D!Fail, d_op.phase = "forward", d_op.healthy = "absent",
           d_op.kind = "deploy", NEW o, SameOp(o)
    PROVE  /\ Undeploys(StepsOf(D!RollbackDeployment(o)), o.before)'
           /\ ~D!Possible(D!Current) => StepsOf(D!RollbackDeployment(o)) = {}
<1>1. D!InProgress /\ Taken(D!Current)
  BY FailForms
<1>2. BasicInv /\ HostForm /\ Ordered(d_op.program)
  BY DEF StructInv, BasicInv, OrderInv
<1>3. NewServices(d_op.before, D!Done(d_op)) /\ UnitsInstalled(D!Done(d_op))
  BY DEF HostInv, ForwardInv
<1>4. PICK s : s = D!Current
  OBVIOUS
<1>5. PICK done : done = D!Done(d_op)
  OBVIOUS
<1>6. o.kind = "deploy" /\ o.before = d_op.before /\ o.healthy = "absent" /\ o.program[o.n + 1] = s
  BY <1>4 DEF SameOp, D!Current
<1>7. Undoable(o) /\ done = D!Done(o)
  BY <1>5, UndoableOp
<1>8. NewServices(o.before, done \cup {s})' /\ UnitsInstalled(done)'
  BY <1>1, <1>3, <1>4, <1>5, <1>6, DeployRuns
<1>9. ASSUME NEW f \in D!Files, d_disk'[f] # o.before[f]
      PROVE  \E t \in done : Acts(t, "install", f)
  <2>1. "deploy" \notin Interruptible
    BY DeploymentAssumption DEF D!DeploymentConstants
  <2>2. PICK t \in D!Done(d_op) : Writes(t) /\ t.on = f
    BY <1>6, <1>9, <2>1, FailedFiles
  <2>3. t.do = "install"
    BY <1>5, <1>6, <1>7, <2>2 DEF Undoable, KindStep, Writes
  <2> QED BY <1>5, <2>2, <2>3 DEF Acts
<1>10. StepTyped(s)
  BY <1>1, <1>2, <1>4, ProgramStep DEF BasicInv
<1>11. Undeploys(StepsOf(D!RollbackDeployment(o)), o.before)'
  BY <1>6, <1>7, <1>8, <1>9, <1>10, DeployBack
<1>12. ASSUME ~D!Possible(D!Current)
       PROVE  StepsOf(D!RollbackDeployment(o)) = {}
  <2>1. d_op.n <= 1
    <3> SUFFICES ASSUME NEW T, D!Consistent(T), Leads(Rest, T) PROVE FALSE
      BY DEF HostInv, ForwardInv
    <3>1. PICK rest : rest = {d_op.program[i] : i \in (d_op.n + 2) .. Len(d_op.program)}
      OBVIOUS
    <3>2. Rest = rest \cup {s} /\ \A t \in rest : Stage(s) <= Stage(t)
      BY <1>1, <1>2, <1>4, <3>1, ProgramStep
    <3>3. s.errors = "raise"
      BY <1>1, <1>2, <1>4, ProgramStep DEF StructInv, KindInv, KindStep
    <3> QED BY <1>4, <1>12, <3>2, <3>3, LeadsPossible
  <2>2. D!Done(d_op) \subseteq {D!Tool}
    <3>1. d_op.n \in Nat /\ d_op.program[1] = D!Tool
      BY DEF StructInv, BasicInv, KindInv, DeployForm
    <3>2. 1 .. d_op.n \subseteq {1}
      BY <2>1, <3>1
    <3> QED BY <3>1, <3>2 DEF D!Done
  <2>3. Installed(o) = {}
    <3>1. D!Tool.do # "install"
      BY ReloadFields
    <3> QED BY <1>5, <1>7, <2>2, <3>1 DEF Installed
  <2>4. Attempted(o) = {}
    BY <2>3 DEF Attempted
  <2> QED BY <2>3, <2>4, DeployRollbackSteps
<1> QED BY <1>11, <1>12

\* A step of a command that fails and starts its rollback.
LEMMA RollbackHost ==
    ASSUME StructInv, StructInv', HostInv, D!Fail, d_op.phase = "forward", NEW o, SameOp(o),
           \/ o.faults = d_op.faults /\ D!NoEffect /\ ~D!Possible(D!Current)
           \/ o.faults = d_op.faults + 1,
           D!HasRollback(o), d_op'.phase = "back", d_op'.program = D!Rollback(o, d_disk'), d_op'.n = 0,
           d_op'.kind = d_op.kind, d_op'.before = d_op.before, d_op'.healthy = d_op.healthy,
           d_op'.failed = d_op.failed, d_op'.faults = o.faults
    PROVE  HostInv'
<1>1. d_op.faults = 0 /\ d_op.failed = {}
  BY DEF StructInv, BasicInv
<1>2. PICK d : d = d_disk'
  OBVIOUS
<1>3. PICK p : p = D!Rollback(o, d)
  OBVIOUS
<1>4. Undoable(o) /\ o.before = d_op.before /\ o.kind = d_op.kind
  <2>1. d_op.kind # "undeploy"
    BY DEF D!HasRollback, SameOp
  <2> QED BY <2>1, UndoableOp DEF SameOp
<1>5. Rest' = StepsOf(p)
  <2>1. IsProgram(p)
    BY <1>3, <1>4, RollbackForms DEF RollbackFacts
  <2> QED BY <1>2, <1>3, <2>1, BegunRest DEF Rest
<1>6. PICK before : before = o.before
  OBVIOUS
<1>7. ASSUME d_op.healthy = "yes", d_op.kind \in {"profile", "grant", "policy", "upgrade"}
      PROVE  d_op'.faults >= 1 /\ (d_op'.faults = 1 => Leads(Rest, d_op.before)')
  <2>1. /\ D!Possible(D!Current)
        /\ d_op.kind = "grant" => Leads(StepsOf(D!RollbackGrant(o)), o.before)'
        /\ d_op.kind = "upgrade" => Leads(StepsOf(D!RollbackUpgrade(o)), o.before)'
        /\ d_op.kind = "policy" => Leads(StepsOf(D!RollbackPolicy(o, d)), o.before)'
        /\ d_op.kind = "profile" => Leads(StepsOf(D!RollbackProfileSwitch(o, d)), o.before)'
    BY <1>2, <1>7, FailBack
  <2>2. d_op'.faults = 1
    BY <1>1, <2>1
  <2>3. /\ d_op.kind = "grant" => p = D!RollbackGrant(o)
        /\ d_op.kind = "upgrade" => p = D!RollbackUpgrade(o)
        /\ d_op.kind = "policy" => p = D!RollbackPolicy(o, d)
        /\ d_op.kind = "profile" => p = D!RollbackProfileSwitch(o, d)
    BY <1>3, <1>4 DEF D!Rollback
  <2>4. Leads(StepsOf(p), before)'
    BY <1>6, <1>7, <2>1, <2>3
  <2>5. Leads(Rest, d_op.before)'
    BY <1>4, <1>5, <1>6, <2>4 DEF Leads, FilesLead, LoadedLead, StopsPossible, InstallsPossible,
         ServiceLeads, NoServiceLeads, EnabledLeads, NotEnabledLeads, WillStop
  <2> QED BY <2>2, <2>5
<1>8. ASSUME d_op.healthy = "absent", d_op.kind = "deploy"
      PROVE  /\ d_op'.faults <= 1 => d_op'.failed = {} /\ Undeploys(Rest, d_op.before)'
             /\ d_op'.faults = 0 => Rest' = {}
  <2>1. p = D!RollbackDeployment(o)
    BY <1>3, <1>4, <1>8 DEF D!Rollback
  <2>2. Undeploys(StepsOf(p), before)' /\ (~D!Possible(D!Current) => StepsOf(p) = {})
    BY <1>6, <1>8, <2>1, FailUndeploys
  <2>3. Undeploys(Rest, d_op.before)'
    BY <1>4, <1>5, <1>6, <2>2 DEF Undeploys
  <2> QED BY <1>1, <1>5, <2>2, <2>3
<1>9. BackInv'
  BY <1>7, <1>8 DEF BackInv
<1> QED BY <1>9, RunningHost DEF ForwardInv

\* A command that fails before it changed anything.
LEMMA FailedHost ==
    ASSUME StructInv, HostInv, D!Fail, d_op.phase = "forward", NEW o, SameOp(o), ~D!HasRollback(o),
           d_op'.phase = "ended", d_op'.result = "failed", d_op'.kind = d_op.kind,
           d_op'.before = d_op.before, d_op'.healthy = d_op.healthy
    PROVE  HostInv'
<1>1. ASSUME d_op.healthy = "yes", d_op.kind \in {"profile", "grant", "policy", "upgrade"}
      PROVE  d_disk' = d_op.before
  <2>1. d_op.kind = "upgrade" /\ D!Replaced(o) = {}
    BY <1>1 DEF D!HasRollback, D!UpgradeTouched, SameOp
  <2>2. "upgrade" \notin Interruptible
    BY DeploymentAssumption DEF D!DeploymentConstants
  <2>3. Undoable(o) /\ D!Done(o) = D!Done(d_op) /\ o.healthy = "yes" /\ o.kind = "upgrade"
    BY <1>1, <2>1, UndoableOp DEF SameOp
  <2>4. \A t \in D!Done(d_op) : Writes(t) => t.do = "write"
    BY <2>3 DEF Undoable, KindStep, Writes
  <2>5. \A t \in D!Done(d_op) : ~Writes(t)
    BY <2>1, <2>3, <2>4 DEF D!Replaced
  <2>6. \A f \in D!Files : d_disk'[f] = d_op.before[f]
    BY <2>1, <2>2, <2>5, FailedFiles
  <2>7. Typed(d_disk)' /\ Typed(d_op.before)
    BY FailForms, TakenHost DEF StructInv, BasicInv
  <2> QED BY <2>6, <2>7 DEF Typed
<1>2. ~(d_op.healthy = "absent" /\ d_op.kind = "deploy")
  BY DEF D!HasRollback, SameOp
<1> QED BY <1>1, <1>2 DEF HostInv, ForwardInv, BackInv, D!Converges, D!SuccessConverges, D!UpgradeConverges,
        D!OneFaultRestored

\* A step of a rollback that fails.
LEMMA BackFails ==
    ASSUME StructInv, HostInv, D!Fail, d_op.phase = "back", NEW o, SameOp(o),
           \/ o.faults = d_op.faults /\ D!NoEffect /\ ~D!Possible(D!Current)
           \/ o.faults = d_op.faults + 1
    PROVE  /\ d_op.healthy = "yes" /\ d_op.kind \in {"profile", "grant", "policy", "upgrade"} =>
                 \/ o.faults >= 2
                 \/ /\ o.faults = 1 /\ D!NoEffect /\ D!Current.errors = "ignore"
                    /\ D!Current.do = "disable" /\ d_disk[D!Current.on] = D!Missing
           /\ d_op.healthy = "absent" /\ d_op.kind = "deploy" => o.faults >= 2
<1>1. D!InProgress /\ BasicInv /\ Ordered(d_op.program) /\ d_op.faults \in Nat
  BY FailForms DEF StructInv, BasicInv, OrderInv
<1>2. PICK rest : rest = {d_op.program[i] : i \in (d_op.n + 2) .. Len(d_op.program)}
  OBVIOUS
<1>3. PICK s : s = D!Current
  OBVIOUS
<1>4. Rest = rest \cup {s} /\ \A t \in rest : Stage(s) <= Stage(t)
  BY <1>1, <1>2, <1>3, ProgramStep
<1>5. ASSUME d_op.healthy = "yes", d_op.kind \in {"profile", "grant", "policy", "upgrade"}
      PROVE  \/ o.faults >= 2
             \/ /\ o.faults = 1 /\ D!NoEffect /\ D!Current.errors = "ignore"
                /\ D!Current.do = "disable" /\ d_disk[D!Current.on] = D!Missing
  <2>1. d_op.faults >= 1 /\ (d_op.faults = 1 => Leads(rest \cup {s}, d_op.before))
    BY <1>4, <1>5 DEF HostInv, BackInv
  <2>2. CASE o.faults = d_op.faults + 1
    BY <1>1, <2>1, <2>2
  <2>3. CASE o.faults = d_op.faults /\ D!NoEffect /\ ~D!Possible(D!Current) /\ d_op.faults = 1
    <3>1. D!Consistent(d_op.before)
      BY <1>5 DEF StructInv, KindInv, Begun
    <3>2. Leads(rest \cup {s}, d_op.before)
      BY <2>1, <2>3
    <3>3. D!Possible(s) \/ (s.errors = "ignore" /\ s.do = "disable" /\ d_disk[s.on] = D!Missing)
      BY <1>4, <3>1, <3>2, LeadsPossible
    <3> QED BY <1>3, <2>3, <3>3
  <2>4. d_op.faults # 1 => d_op.faults >= 2
    BY <1>1, <2>1
  <2> QED BY <2>2, <2>3, <2>4
<1>6. ASSUME d_op.healthy = "absent", d_op.kind = "deploy"
      PROVE  o.faults >= 2
  <2>1. d_op.faults # 0
    BY <1>4, <1>6 DEF HostInv, BackInv
  <2>2. d_op.faults = 1 => D!Possible(s)
    <3> SUFFICES ASSUME d_op.faults = 1 PROVE D!Possible(s)
      OBVIOUS
    <3>1. \/ s.do = "disable" /\ d_disk[s.on] # D!Missing
          \/ s.do = "remove"
          \/ s.do = "reload"
      BY <1>4, <1>6 DEF HostInv, BackInv, Undeploys
    <3> QED BY <3>1 DEF D!Possible
  <2> QED BY <1>1, <1>3, <2>1, <2>2
<1> QED BY <1>5, <1>6

LEMMA FailHost ==
    ASSUME StructInv, StructInv', HostInv, D!Fail
    PROVE  HostInv'
<1>1. PICK o : /\ SameOp(o) /\ d_op' = D!Failed(o)
               /\ \/ o.faults = d_op.faults /\ D!NoEffect /\ ~D!Possible(D!Current)
                  \/ o.faults = d_op.faults + 1
  BY FailForms
<1>2. D!InProgress /\ BasicInv /\ D!Current \in StepsOf(d_op.program) /\ d_package' = d_package
  BY FailForms, ProgramStep DEF StructInv
<1>3. CASE /\ d_op.phase = "forward" /\ D!HasRollback(o)
           /\ d_op'.phase = "back" /\ d_op'.program = D!Rollback(o, d_disk') /\ d_op'.n = 0
           /\ d_op'.kind = d_op.kind /\ d_op'.before = d_op.before /\ d_op'.healthy = d_op.healthy
           /\ d_op'.failed = d_op.failed /\ d_op'.faults = o.faults
  BY <1>1, <1>3, RollbackHost
<1>4. CASE /\ d_op.phase = "forward" /\ ~D!HasRollback(o) /\ d_op'.result = "failed"
           /\ d_op'.phase = "ended"
           /\ d_op'.kind = d_op.kind /\ d_op'.before = d_op.before /\ d_op'.healthy = d_op.healthy
  BY <1>1, <1>4, FailedHost
<1>5. CASE /\ d_op.phase = "back" /\ D!Current.errors = "raise" /\ d_op'.result = "unrestored"
           /\ d_op'.phase = "ended" /\ d_op'.kind = d_op.kind /\ d_op'.before = d_op.before
           /\ d_op'.healthy = d_op.healthy /\ d_op'.faults = o.faults
  <2>1. /\ d_op.healthy = "yes" /\ d_op.kind \in {"profile", "grant", "policy", "upgrade"} => o.faults >= 2
        /\ d_op.healthy = "absent" /\ d_op.kind = "deploy" => o.faults >= 2
    BY <1>1, <1>5, BackFails
  <2> QED BY <1>5, <2>1 DEF HostInv, ForwardInv, BackInv, D!Converges, D!SuccessConverges, D!UpgradeConverges,
          D!OneFaultRestored
<1>6. CASE /\ d_op.phase = "back" /\ D!Current.errors \in {"ignore", "collect"}
           /\ d_op'.kind = d_op.kind /\ d_op'.phase = d_op.phase /\ d_op'.program = d_op.program
           /\ d_op'.n = d_op.n + 1 /\ d_op'.before = d_op.before /\ d_op'.healthy = d_op.healthy
           /\ d_op'.result = d_op.result /\ d_op.failed \subseteq d_op'.failed /\ OpForm'
           /\ d_op'.faults = o.faults
  <2>1. Rest = Rest' \cup {D!Current}
    <3>1. o.faults \in Nat
      BY <1>1 DEF SameOp
    <3> QED BY <1>2, <1>6, <3>1, AdvancesRest DEF Advances
  <2>2. /\ d_op.healthy = "yes" /\ d_op.kind \in {"profile", "grant", "policy", "upgrade"} =>
              \/ o.faults >= 2
              \/ /\ o.faults = 1 /\ D!NoEffect /\ D!Current.errors = "ignore"
                 /\ D!Current.do = "disable" /\ d_disk[D!Current.on] = D!Missing
        /\ d_op.healthy = "absent" /\ d_op.kind = "deploy" => o.faults >= 2
    BY <1>1, <1>6, BackFails
  <2>3. ASSUME d_op.healthy = "yes", d_op.kind \in {"profile", "grant", "policy", "upgrade"}, o.faults = 1
        PROVE  Leads(Rest, d_op.before)'
    <3>1. /\ D!NoEffect /\ D!Current.do = "disable" /\ d_disk[D!Current.on] = D!Missing
      BY <2>2, <2>3
    <3>2. PICK rest : rest = Rest'
      OBVIOUS
    <3>3. PICK s : s = D!Current
      OBVIOUS
    <3>4. PICK before : before = d_op.before
      OBVIOUS
    <3>5. d_op.faults = 1
      <4>1. d_op.faults >= 1 /\ d_op.faults \in Nat
        BY <1>6, <2>3 DEF HostInv, BackInv, StructInv, BasicInv
      <4> QED BY <1>1, <2>3, <4>1
    <3>6. Leads(rest \cup {s}, before)
      BY <1>6, <2>1, <2>3, <3>2, <3>3, <3>4, <3>5 DEF HostInv, BackInv
    <3>7. Leads(rest, before)'
      BY <3>1, <3>3, <3>6, IgnoredLeads
    <3> QED BY <1>6, <3>2, <3>4, <3>7 DEF Leads, FilesLead, LoadedLead, StopsPossible, InstallsPossible,
         ServiceLeads, NoServiceLeads, EnabledLeads, NotEnabledLeads, WillStop
  <2>4. o.faults >= 2 => ~(o.faults <= 1) /\ o.faults >= 1 /\ o.faults # 0 /\ o.faults # 1
    BY <1>1 DEF SameOp
  <2>5. BackInv'
    BY <1>6, <2>2, <2>3, <2>4 DEF BackInv
  <2> QED BY <1>6, <2>5, RunningHost DEF ForwardInv
<1> QED BY <1>1, <1>2, <1>3, <1>4, <1>5, <1>6, FailedForms

LEMMA NextHost ==
    ASSUME StructInv, HostInv, [D!Next]_(D!vars)
    PROVE  HostInv'
<1>0. StructInv'
  BY NextStruct
<1>1. CASE D!Command
  BY <1>1, CommandHost
<1>2. CASE D!Skip
  BY <1>0, <1>2, SkipHost
<1>3. CASE D!Succeed
  BY <1>0, <1>3, SucceedHost
<1>4. CASE D!Fail
  BY <1>0, <1>4, FailHost
<1>5. CASE D!Finish
  BY <1>5, FinishHost
<1>6. CASE D!InstallPackage
  <2>1. d_op'.phase = "ended" /\ d_op'.result = "none" /\ d_op'.faults = 0
    BY <1>6 DEF D!InstallPackage, D!NoTransaction
  <2> QED BY <2>1 DEF HostInv, ForwardInv, BackInv, D!Converges, D!SuccessConverges, D!UpgradeConverges,
          D!OneFaultRestored
<1>7. CASE UNCHANGED D!vars
  <2>0. /\ d_disk' = d_disk /\ d_loaded' = d_loaded /\ d_enabled' = d_enabled /\ d_running' = d_running
        /\ d_package' = d_package /\ d_op' = d_op /\ Rest' = Rest /\ D!Done(d_op)' = D!Done(d_op)
    BY <1>7 DEF D!vars, Rest, D!Done
  <2>l. ASSUME NEW T, Leads(Rest, T) PROVE Leads(Rest, T)'
    <3>1. PICK rest : rest = Rest
      OBVIOUS
    <3>2. Leads(rest, T)
      BY <2>l, <3>1
    <3>3. Leads(rest, T)'
      BY <2>0, <3>2 DEF Leads, FilesLead, LoadedLead, StopsPossible, InstallsPossible, ServiceLeads,
         NoServiceLeads, EnabledLeads, NotEnabledLeads, WillStop
    <3> QED BY <2>0, <3>1, <3>3 DEF Leads, FilesLead, LoadedLead, StopsPossible, InstallsPossible,
            ServiceLeads, NoServiceLeads, EnabledLeads, NotEnabledLeads, WillStop
  <2>u. ASSUME NEW T, UpgradeTarget(T), Upgrades(Rest, T) PROVE UpgradeTarget(T)' /\ Upgrades(Rest, T)'
    BY <2>0, <2>u DEF UpgradeTarget, D!CollectorUnit, D!HelperUnit, Upgrades, FilesLead, LoadedLead,
        ServiceRestarts
  <2>1. ForwardInv'
    <3> SUFFICES ASSUME d_op.phase = "forward" PROVE ForwardInv'
      BY <2>0 DEF ForwardInv
    <3>1. ASSUME d_op.healthy = "yes", d_op.kind # "undeploy"
          PROVE  /\ UndoInv(d_op.kind, d_op.before)'
                 /\ \/ d_op'.kind = "deploy" /\ Doomed'
                    \/ \E T : D!Consistent(T) /\ TargetFits(d_op'.kind, d_op'.before, T) /\ Leads(Rest, T)'
      <4>1. UndoInv(d_op.kind, d_op.before)'
        BY <2>0, <3>1 DEF HostInv, ForwardInv, UndoInv
      <4>2. Doomed => Doomed'
        BY <2>0 DEF Doomed
      <4> QED BY <2>0, <2>l, <3>1, <4>1, <4>2 DEF HostInv, ForwardInv
    <3>2. ASSUME d_op.healthy = "absent", d_op.kind = "deploy"
          PROVE  /\ NewServices(d_op.before, D!Done(d_op))' /\ UnitsInstalled(D!Done(d_op))'
                 /\ \/ d_op'.n <= 1 /\ Blocked(d_op.program)'
                    \/ \E T : D!Consistent(T) /\ Leads(Rest, T)'
      <4>1. NewServices(d_op.before, D!Done(d_op))' /\ UnitsInstalled(D!Done(d_op))'
        BY <2>0, <3>2 DEF HostInv, ForwardInv, NewServices, UnitsInstalled
      <4>2. Blocked(d_op.program) => Blocked(d_op.program)'
        BY <2>0 DEF Blocked
      <4> QED BY <2>0, <2>l, <3>2, <4>1, <4>2 DEF HostInv, ForwardInv
    <3>3. d_op.kind = "upgrade" => \E T : UpgradeTarget(T)' /\ Upgrades(Rest, T)'
      BY <2>u DEF HostInv, ForwardInv
    <3> QED BY <2>0, <3>1, <3>2, <3>3 DEF ForwardInv
  <2>2. BackInv'
    <3>1. Leads(Rest, d_op.before) => Leads(Rest, d_op.before)'
      <4>1. PICK before : before = d_op.before
        OBVIOUS
      <4>2. Leads(Rest, before) => Leads(Rest, before)'
        BY <2>l
      <4> QED BY <2>0, <4>1, <4>2 DEF Leads, FilesLead, LoadedLead, StopsPossible, InstallsPossible,
              ServiceLeads, NoServiceLeads, EnabledLeads, NotEnabledLeads, WillStop
    <3>2. Undeploys(Rest, d_op.before) => Undeploys(Rest, d_op.before)'
      BY <2>0 DEF Undeploys
    <3> QED BY <2>0, <3>1, <3>2 DEF HostInv, BackInv
  <2>3. D!Converges' /\ D!OneFaultRestored'
    BY <1>7 DEF D!vars, HostInv, D!Converges, D!SuccessConverges, D!UpgradeConverges,
        D!OneFaultRestored, D!Healthy,
       D!Serving, D!OnDisk, D!Absent, D!CollectorUnit, D!HelperUnit, D!Config, D!Present
  <2> QED BY <2>1, <2>2, <2>3 DEF HostInv
<1> QED BY <1>1, <1>2, <1>3, <1>4, <1>5, <1>6, <1>7 DEF D!Next

\* The deployment in the model of the administration: one component runs.
LEMMA DeploymentStep ==
    ASSUME [AllNext]_all
    PROVE  [D!Next]_(D!vars)
<1>1. [D!Next]_d_vars
  BY DEF AllNext, all
<1> QED BY <1>1 DEF d_vars, D!vars

\* A deploy, switch-mode, switch-profile, upgrade or update-policy that reports
\* success on a healthy host leaves files that agree and every unit running from
\* them; an upgrade does so for the collector and the Helper whatever earlier
\* failures left (admin/deploy.py).
THEOREM CommandsConverge == AllSpec => []Converges
<1>1. AllInit => StructInv /\ HostInv
  BY InitStruct, InitHost DEF AllInit
<1>2. StructInv /\ HostInv /\ [AllNext]_all => (StructInv /\ HostInv)'
  BY DeploymentStep, NextStruct, NextHost
<1>3. HostInv => Converges
  BY DEF HostInv, Converges
<1> QED BY <1>1, <1>2, <1>3, PTL DEF AllSpec

\* One fault in a switch-profile, an upgrade or an update-policy, with or without
\* a change of the grant, is rolled back to the files and services of before, and
\* one fault in a deployment of a host without services leaves nothing of it,
\* wherever the fault strikes and whatever the failed step leaves (admin/deploy.py).
THEOREM OneFaultIsRestored == AllSpec => []OneFaultRestored
<1>1. AllInit => StructInv /\ HostInv
  BY InitStruct, InitHost DEF AllInit
<1>2. StructInv /\ HostInv /\ [AllNext]_all => (StructInv /\ HostInv)'
  BY DeploymentStep, NextStruct, NextHost
<1>3. HostInv => OneFaultRestored
  BY DEF HostInv, OneFaultRestored
<1> QED BY <1>1, <1>2, <1>3, PTL DEF AllSpec
=============================================================================
