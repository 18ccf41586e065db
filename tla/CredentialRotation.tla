------------------------- MODULE CredentialRotation -------------------------
(***************************************************************************)
(* One staged credential of a ready graph.  The scenario action            *)
(* credential-rotate replaces its member files one by one between two      *)
(* publications of generation.json; the platform's CredentialReader and    *)
(* the TLS loader of a TCP transport read the same directory without a     *)
(* lock.  Each file is replaced atomically, the directory is not; the      *)
(* rotation may be killed between any two files.                           *)
(*                                                                         *)
(* The bytes of generation g of a member are the number g, which also      *)
(* stands for their hash; a credential given next is new.                  *)
(***************************************************************************)
EXTENDS Naturals, Sequences

CONSTANTS
  Members,                    \* the member files, in the order of entry.members
  Grace,                      \* grace_ms of a rotation
  MaxGeneration, MaxNow, MaxReads   \* bounds of the model

ASSUME RotationAssumption ==
  Len(Members) \in Nat \ {0} /\ Grace \in Nat /\ {MaxGeneration, MaxNow, MaxReads} \subseteq Nat \ {0}

VARIABLES
  clock,        \* Date.now() and performance.now()
  generation,   \* generation.json
  file,         \* the member files
  previousFile, \* previous.<member>
  rotation,     \* rotateCredential: its next step and member
  reader,       \* CredentialReader.read under way, with the time of its deadline test
  known,        \* this.generations of the reader
  bundle,       \* what the last read returned
  loader,       \* secure_connection under way
  context,      \* tls_->context with its generation
  reads         \* reads and loads begun

rotationVars == <<generation, file, previousFile, rotation>>
readerVars == <<reader, known, bundle>>
credentialVars == <<clock, rotationVars, readerVars, loader, context, reads>>

Index == 1 .. Len(Members)
Latest(a, b) == IF a < b THEN b ELSE a
Earliest(a, b) == IF a < b THEN a ELSE b
\* publicGeneration: the members' hashes are the generation itself.
Metadata(g, expires) == [number |-> g, publishing |-> FALSE, expires |-> expires]
Publishing == [number |-> 0, publishing |-> TRUE, expires |-> 0]
Quiet == [step |-> "idle", index |-> 1]
NoRead == [step |-> "idle", index |-> 1, attempt |-> 1, before |-> Publishing, members |-> <<>>,
           previous |-> <<>>, deadline |-> 0, checked |-> 0]
NoLoad == [step |-> "idle", index |-> 1, before |-> Publishing, members |-> <<>>]

\* stageCredentials leaves generation 1, with no previous one.
CredentialInit ==
  /\ clock = 0 /\ generation = Metadata(1, 0)
  /\ file = [i \in Index |-> 1] /\ previousFile = [i \in Index |-> 0]
  /\ rotation = Quiet /\ reader = NoRead /\ loader = NoLoad
  /\ known = [generation |-> 0, deadline |-> 0]
  /\ bundle = [generation |-> 0, members |-> <<>>, previous |-> <<>>]
  /\ context = [generation |-> 0, members |-> <<>>] /\ reads = 0

-----------------------------------------------------------------------------
\* rotateCredential.  The metadata of an unfinished rotation makes every later
\* one refuse, as its record in the ledger does.
RotateCall ==
  /\ rotation.step = "idle" /\ ~generation.publishing /\ generation.number < MaxGeneration
  /\ rotation' = [step |-> "previous", index |-> 1] /\ generation' = Publishing
  /\ UNCHANGED <<clock, file, previousFile, readerVars, loader, context, reads>>
WritePrevious ==
  /\ rotation.step = "previous"
  /\ previousFile' = [previousFile EXCEPT ![rotation.index] = file[rotation.index]]
  /\ rotation' = [rotation EXCEPT !.step = "member"]
  /\ UNCHANGED <<clock, generation, file, readerVars, loader, context, reads>>
WriteMember ==
  /\ rotation.step = "member"
  /\ file' = [file EXCEPT ![rotation.index] = @ + 1]
  /\ rotation' = IF rotation.index = Len(Members) THEN [rotation EXCEPT !.step = "publish"]
                 ELSE [step |-> "previous", index |-> rotation.index + 1]
  /\ UNCHANGED <<clock, generation, previousFile, readerVars, loader, context, reads>>
PublishGeneration ==
  /\ rotation.step = "publish" /\ rotation' = Quiet
  /\ generation' = Metadata(file[1], clock + Grace)
  /\ UNCHANGED <<clock, file, previousFile, readerVars, loader, context, reads>>
RotationKilled ==
  /\ rotation.step # "idle" /\ rotation' = [rotation EXCEPT !.step = "killed"] /\ rotation.step # "killed"
  /\ UNCHANGED <<clock, generation, file, previousFile, readerVars, loader, context, reads>>

-----------------------------------------------------------------------------
\* CredentialReader.read.  An error leaves what the reader knew.
Throws == reader' = NoRead /\ UNCHANGED <<known, bundle>>
ReadCall ==
  /\ reader.step = "idle" /\ reads < MaxReads /\ reads' = reads + 1
  /\ reader' = [NoRead EXCEPT !.step = "generation"]
  /\ UNCHANGED <<clock, rotationVars, known, bundle, loader, context>>
ReadGeneration ==
  /\ reader.step = "generation"
  /\ IF generation.publishing \/ generation.number < known.generation THEN Throws
     ELSE /\ reader' = [reader EXCEPT !.step = "member", !.index = 1, !.before = generation,
                                      !.members = <<>>, !.previous = <<>>]
          /\ UNCHANGED <<known, bundle>>
  /\ UNCHANGED <<clock, rotationVars, loader, context, reads>>
ReadMember ==
  /\ reader.step = "member"
  /\ IF file[reader.index] # reader.before.number THEN Throws
     ELSE /\ reader' = [reader EXCEPT !.members = Append(@, file[reader.index]), !.index = @ + 1,
                                      !.step = IF reader.index = Len(Members) THEN "deadline" ELSE "member"]
          /\ UNCHANGED <<known, bundle>>
  /\ UNCHANGED <<clock, rotationVars, loader, context, reads>>
\* The overlap ends with the rotation's expiry, counted from the first sight.
Overlap(metadata) == clock + Earliest(Grace, Latest(metadata.expires, clock) - clock)
Deadline(metadata) ==
  IF known.generation = metadata.number THEN known.deadline
  ELSE IF metadata.number > 1 THEN Overlap(metadata) ELSE 0
CheckDeadline ==
  /\ reader.step = "deadline"
  /\ LET deadline == Deadline(reader.before)
         overlaps == reader.before.number > 1 /\ clock < deadline
     IN  reader' = [reader EXCEPT !.deadline = deadline, !.checked = clock, !.index = 1,
                                  !.step = IF overlaps THEN "previous" ELSE "again"]
  /\ UNCHANGED <<clock, rotationVars, known, bundle, loader, context, reads>>
ReadPrevious ==
  /\ reader.step = "previous"
  /\ IF previousFile[reader.index] # reader.before.number - 1 THEN Throws
     ELSE /\ reader' = [reader EXCEPT !.previous = Append(@, previousFile[reader.index]), !.index = @ + 1,
                                      !.step = IF reader.index = Len(Members) THEN "again" ELSE "previous"]
          /\ UNCHANGED <<known, bundle>>
  /\ UNCHANGED <<clock, rotationVars, loader, context, reads>>
ReadAgain ==
  /\ reader.step = "again"
  /\ IF generation = reader.before THEN
       /\ known' = [generation |-> reader.before.number, deadline |-> reader.deadline]
       /\ bundle' = [generation |-> reader.before.number, members |-> reader.members,
                     previous |-> reader.previous]
       /\ reader' = NoRead
     ELSE IF reader.attempt = 3 THEN Throws
     ELSE reader' = [reader EXCEPT !.step = "generation", !.attempt = @ + 1] /\ UNCHANGED <<known, bundle>>
  /\ UNCHANGED <<clock, rotationVars, loader, context, reads>>

-----------------------------------------------------------------------------
\* secure_connection: hash every file, load every file, look again.
LoadCall ==
  /\ loader.step = "idle" /\ reads < MaxReads /\ reads' = reads + 1
  /\ loader' = [NoLoad EXCEPT !.step = "generation"]
  /\ UNCHANGED <<clock, rotationVars, readerVars, context>>
LoadGeneration ==
  /\ loader.step = "generation"
  /\ loader' = IF generation.publishing \/ generation.number < context.generation THEN NoLoad
               ELSE [loader EXCEPT !.step = "hash", !.before = generation]
  /\ UNCHANGED <<clock, rotationVars, readerVars, context, reads>>
HashMember ==
  /\ loader.step = "hash"
  /\ loader' = IF file[loader.index] # loader.before.number THEN NoLoad
               ELSE IF loader.index < Len(Members) THEN [loader EXCEPT !.index = @ + 1]
               ELSE IF loader.before.number = context.generation THEN NoLoad      \* the context stays
               ELSE [loader EXCEPT !.step = "load", !.index = 1]
  /\ UNCHANGED <<clock, rotationVars, readerVars, context, reads>>
LoadMember ==
  /\ loader.step = "load"
  /\ loader' = [loader EXCEPT !.members = Append(@, file[loader.index]), !.index = @ + 1,
                              !.step = IF loader.index = Len(Members) THEN "again" ELSE "load"]
  /\ UNCHANGED <<clock, rotationVars, readerVars, context, reads>>
Trusting == TRUE
Unchanged == generation = loader.before
LoadAgain ==
  /\ loader.step = "again" /\ loader' = NoLoad
  /\ IF Unchanged THEN context' = [generation |-> loader.before.number, members |-> loader.members]
                  ELSE UNCHANGED context
  /\ UNCHANGED <<clock, rotationVars, readerVars, reads>>

TimePasses ==
  /\ clock < MaxNow /\ clock' = clock + 1
  /\ UNCHANGED <<rotationVars, readerVars, loader, context, reads>>

CredentialNext ==
  \/ RotateCall \/ WritePrevious \/ WriteMember \/ PublishGeneration \/ RotationKilled
  \/ ReadCall \/ ReadGeneration \/ ReadMember \/ CheckDeadline \/ ReadPrevious \/ ReadAgain
  \/ LoadCall \/ LoadGeneration \/ HashMember \/ LoadMember \/ LoadAgain
  \/ TimePasses
CredentialSpec == CredentialInit /\ [][CredentialNext]_credentialVars

-----------------------------------------------------------------------------
CredentialTypeOK ==
  /\ clock \in 0 .. MaxNow /\ reads \in 0 .. MaxReads
  /\ generation \in [number : 0 .. MaxGeneration, publishing : BOOLEAN, expires : 0 .. MaxNow + Grace]
  /\ file \in [Index -> 1 .. MaxGeneration] /\ previousFile \in [Index -> 0 .. MaxGeneration]
  /\ rotation.step \in {"idle", "previous", "member", "publish", "killed"} /\ rotation.index \in Index
  /\ reader.step \in {"idle", "generation", "member", "deadline", "previous", "again"}
  /\ loader.step \in {"idle", "generation", "hash", "load", "again"}
  /\ reader.attempt \in 1 .. 3 /\ reader.index \in 1 .. Len(Members) + 1

AllOf(g, members) == \A i \in DOMAIN members : members[i] = g
\* What a consumer uses is one generation, whatever the rotation did while the
\* files were read or was killed before: the bundle of the platform and the TLS
\* context of a node have members of the generation they name, and the previous
\* credential comes with its successor and only while the overlap its rotation
\* published has not ended (credentials.mjs:134-171, 192-201;
\* tcp_transport.cpp:341-396).
OneGeneration ==
  /\ AllOf(bundle.generation, bundle.members) /\ AllOf(context.generation, context.members)
  /\ AllOf(bundle.generation - 1, bundle.previous)
  /\ reader.previous # <<>> => reader.checked < reader.before.expires
=============================================================================
