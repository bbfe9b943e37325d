----------------------------- MODULE HumanFiles -----------------------------
(***************************************************************************)
(* The data directory of asb-human: its initialization, the generations of *)
(* its credentials and its login token, the lock that keeps maintenance    *)
(* and use apart, and the archives of its database.                        *)
(*                                                                         *)
(* Every process runs one command and may be stopped between any two of    *)
(* its steps; the system then releases its lock and keeps its files.  A    *)
(* key set is named by the number of the command that made it, and so is a *)
(* token; Partial is what a file holds that was created and not written.   *)
(***************************************************************************)
EXTENDS Naturals, Sequences, FiniteSets

CONSTANTS
    None, Partial,
    Process,
    Commands,        \* the commands the processes may run
    Contents,        \* the contents the database can have, one after the other: 0..Contents
    MaxStarted       \* how many commands are run

VARIABLES
    files,           \* of the data directory: name |-> the set it belongs to
    generations,     \* generation |-> its files
    pointer,         \* credential-generation
    shared, exclusive, \* who holds the lock
    procs,
    content,         \* of the database
    archive, manifest, \* at the destination of the exports
    verified,        \* history: the manifest and the content of an archive when it was reported as verified
    started

vars == <<files, generations, pointer, shared, exclusive, procs, content, archive, manifest, verified, started>>

\* In the order in which they are written.
Names == <<"ca.pem", "key pairs", "authority-key.pem", "ui-token", "initialized">>
Name == {Names[i] : i \in DOMAIN Names}
Number == 1..MaxStarted
NoFiles == [n \in Name |-> None]
Credential == Name \ {"ui-token"}

Complete(dir) == \E k \in Number : \A n \in Credential : dir[n] = k

\* activeCredentialDirectory
Active == IF pointer = None THEN files ELSE generations[pointer]

\* loadCredentials
Loadable == Complete(Active)

LoginToken == files["ui-token"]
-----------------------------------------------------------------------------
Idle == [command |-> None, at |-> "idle", file |-> 1, number |-> 0, key |-> None, clientKey |-> None, token |-> None,
         copy |-> None, read |-> None]

Set(p, field, value, at) == procs' = [procs EXCEPT ![p][field] = value, ![p].at = at]
At(p, at) == procs[p].at = at
Go(p, at) == procs' = [procs EXCEPT ![p].at = at]
Leave(p) == procs' = [procs EXCEPT ![p] = Idle]

Disk == <<files, generations, pointer>>
Lock == <<shared, exclusive>>
Archives == <<content, archive, manifest, verified>>

\* A command that is refused, fails or has done its work ends, and its lock with it.
End(p) ==
    /\ Leave(p)
    /\ shared' = shared \ {p}
    /\ exclusive' = IF exclusive = p THEN None ELSE exclusive

Start(p, command) ==
    /\ procs[p] = Idle
    /\ started < MaxStarted /\ started' = started + 1
    /\ procs' = [procs EXCEPT ![p] = [Idle EXCEPT !.command = command, !.number = started + 1,
                    !.at = CASE command \in {"init", "serve"} -> "initialize"
                             [] command \in {"agent", "rotate", "token"} -> "lock"
                             [] OTHER -> command]]
    /\ UNCHANGED <<Disk, Lock, Archives>>

AfterInitialize(p) == IF procs[p].command = "serve" THEN "lock" ELSE "done"

\* Initialize: what is complete is used, what is incomplete is refused, and only an empty directory is filled.
Initialize(p) ==
    /\ At(p, "initialize")
    /\ IF files["initialized"] # None
       THEN IF files["initialized"] # Partial /\ Loadable THEN Go(p, AfterInitialize(p)) /\ UNCHANGED Lock ELSE End(p)
       ELSE IF files # NoFiles THEN End(p) ELSE Go(p, "write") /\ UNCHANGED Lock
    /\ UNCHANGED <<Disk, Archives, started>>

\* writePrivate: the next file, which must not exist.
WriteFile(p) ==
    LET i == procs[p].file
        last == i = Len(Names)
        to(at) == procs' = [procs EXCEPT ![p].file = @ + 1, ![p].at = IF last THEN at ELSE "write"]
        rotating == procs[p].command = "rotate"
    IN  /\ At(p, "write")
        /\ IF rotating
           THEN /\ generations' = [generations EXCEPT ![procs[p].number][Names[i]] = procs[p].number]
                /\ to("prune")
                /\ UNCHANGED <<files, Lock>>
           ELSE IF files[Names[i]] # None THEN End(p) /\ UNCHANGED <<files, generations>>
           ELSE /\ files' = [files EXCEPT ![Names[i]] = procs[p].number]
                /\ to(AfterInitialize(p))
                /\ UNCHANGED <<generations, Lock>>
        /\ UNCHANGED <<pointer, Archives, started>>

\* HoldDataDirectory and the exclusive lock of maintenance: neither waits.
AcquireLock(p) ==
    LET maintenance == procs[p].command \in {"rotate", "token"}
        free == exclusive = None /\ (maintenance => shared = {})
        ready == files["initialized"] \in Number /\ (maintenance => Loadable /\ LoginToken \in Number)
    IN  /\ At(p, "lock")
        /\ IF ~free \/ ~ready THEN End(p)
           ELSE /\ IF maintenance THEN exclusive' = p /\ UNCHANGED shared
                   ELSE shared' = shared \cup {p} /\ UNCHANGED exclusive
                /\ Go(p, CASE procs[p].command = "serve" -> "server"
                           [] procs[p].command = "agent" -> "client"
                           [] procs[p].command = "token" -> "replace"
                           [] OTHER -> "write")
        /\ UNCHANGED <<Disk, Archives, started>>

\* NewCoreServer and then NewClient read the active credentials, each for itself.
LoadServer(p) ==
    /\ At(p, "server")
    /\ IF Loadable THEN Set(p, "key", Active["ca.pem"], "client") /\ UNCHANGED Lock ELSE End(p)
    /\ UNCHANGED <<Disk, Archives, started>>

LoadClient(p) ==
    /\ At(p, "client")
    /\ IF Loadable
       THEN /\ procs' = [procs EXCEPT ![p].clientKey = Active["ca.pem"], ![p].token = LoginToken, ![p].at = "running"]
            /\ UNCHANGED Lock
       ELSE End(p)
    /\ UNCHANGED <<Disk, Archives, started>>

\* RotateCredentials, after its generation was initialized: its token is removed, and the pointer renamed into place.
PruneGeneration(p) ==
    /\ At(p, "prune")
    /\ generations' = [generations EXCEPT ![procs[p].number]["ui-token"] = None]
    /\ Go(p, "activate")
    /\ UNCHANGED <<files, pointer, Lock, Archives, started>>

ActivateGeneration(p) ==
    /\ At(p, "activate")
    /\ pointer' = procs[p].number
    /\ Go(p, "done")
    /\ UNCHANGED <<files, generations, Lock, Archives, started>>

RotateLoginToken(p) ==
    /\ At(p, "replace")
    /\ files' = [files EXCEPT !["ui-token"] = procs[p].number]
    /\ Go(p, "done")
    /\ UNCHANGED <<generations, pointer, Lock, Archives, started>>

Finish(p) ==
    /\ procs[p].at \in {"done", "running"}
    /\ End(p)
    /\ UNCHANGED <<Disk, Archives, started>>

\* The process is stopped; the file it was writing may be left empty.
Stop(p) ==
    /\ procs[p] # Idle /\ procs[p].at \notin {"done", "running"}
    /\ End(p)
    /\ LET name == Names[procs[p].file]
       IN  \/ UNCHANGED <<files, generations>>
           \/ /\ At(p, "write") /\ procs[p].command = "rotate"
              /\ generations' = [generations EXCEPT ![procs[p].number][name] = Partial]
              /\ UNCHANGED files
           \/ /\ At(p, "write") /\ procs[p].command # "rotate" /\ files[name] = None
              /\ files' = [files EXCEPT ![name] = Partial]
              /\ UNCHANGED generations
    /\ UNCHANGED <<pointer, Archives, started>>
-----------------------------------------------------------------------------
(* Archives. The file at the destination has a content and an identity. *)

\* ExportSnapshot refuses what exists, and snapshots the database into a file of its own.
BeginExport(p) ==
    /\ At(p, "export")
    /\ IF archive # None \/ manifest # None THEN End(p) ELSE Go(p, "vacuum") /\ UNCHANGED Lock
    /\ UNCHANGED <<Disk, Archives, started>>

VacuumInto(p) ==
    /\ At(p, "vacuum")
    /\ Set(p, "copy", content, "move")
    /\ UNCHANGED <<Disk, Lock, Archives, started>>

\* moveNewFile never replaces: the link fails when the destination exists.
MoveNewFile(p) ==
    /\ At(p, "move")
    /\ IF archive # None THEN End(p) /\ UNCHANGED archive
       ELSE archive' = [file |-> procs[p].number, content |-> procs[p].copy] /\ Go(p, "manifest") /\ UNCHANGED Lock
    /\ UNCHANGED <<Disk, content, manifest, verified, started>>

\* writeNewPrivateFile, in two steps: what it creates it has not written yet.
CreateManifest(p) ==
    /\ At(p, "manifest")
    /\ IF manifest # None THEN End(p) /\ UNCHANGED manifest ELSE manifest' = Partial /\ Go(p, "encode") /\ UNCHANGED Lock
    /\ UNCHANGED <<Disk, content, archive, verified, started>>

WriteManifest(p) ==
    /\ At(p, "encode")
    /\ manifest' = procs[p].copy
    /\ Go(p, "done")
    /\ UNCHANGED <<Disk, Lock, content, archive, verified, started>>

\* storage-verify: the manifest, a copy of what is at the path, and at last the path itself again.
ReadManifest(p) ==
    /\ At(p, "verify")
    /\ IF manifest \in {None, Partial} \/ archive = None THEN End(p)
       ELSE Set(p, "copy", manifest, "open") /\ UNCHANGED Lock
    /\ UNCHANGED <<Disk, Archives, started>>

OpenSnapshot(p) ==
    /\ At(p, "open")
    /\ IF archive = None THEN End(p) ELSE Set(p, "read", archive, "compare") /\ UNCHANGED Lock
    /\ UNCHANGED <<Disk, Archives, started>>

\* Mutation: the path is not looked at again.
VerifyStoreArchiveOnce(p) ==
    /\ At(p, "compare")
    /\ verified' = IF archive # None /\ procs[p].read.content = procs[p].copy
                   THEN verified \cup {<<manifest, archive.content>>} ELSE verified
    /\ End(p)
    /\ UNCHANGED <<Disk, content, archive, manifest, started>>

\* ensureArchivePathStable, and the comparison with the manifest.
VerifyStoreArchive(p) ==
    /\ At(p, "compare")
    /\ verified' = IF archive = procs[p].read /\ procs[p].read.content = procs[p].copy
                   THEN verified \cup {<<manifest, archive.content>>} ELSE verified
    /\ End(p)
    /\ UNCHANGED <<Disk, content, archive, manifest, started>>

\* The database moves on, and somebody puts another file in the archive's place.
WriteDatabase ==
    /\ content < Contents /\ content' = content + 1
    /\ UNCHANGED <<Disk, Lock, procs, archive, manifest, verified, started>>

ReplaceArchive ==
    /\ archive # None /\ "verify" \in Commands
    /\ archive' \in {[file |-> 0, content |-> c] : c \in 0..Contents}
    /\ UNCHANGED <<Disk, Lock, procs, content, manifest, verified, started>>
-----------------------------------------------------------------------------
Init ==
    /\ files = NoFiles /\ generations = [g \in Number |-> NoFiles] /\ pointer = None
    /\ shared = {} /\ exclusive = None /\ procs = [p \in Process |-> Idle]
    /\ content = 0 /\ archive = None /\ manifest = None /\ verified = {} /\ started = 0

ProcessStep(p) ==
    \/ \E command \in Commands : Start(p, command)
    \/ Initialize(p) \/ WriteFile(p) \/ AcquireLock(p) \/ LoadServer(p) \/ LoadClient(p)
    \/ PruneGeneration(p) \/ ActivateGeneration(p) \/ RotateLoginToken(p) \/ Finish(p) \/ Stop(p)
    \/ BeginExport(p) \/ VacuumInto(p) \/ MoveNewFile(p) \/ CreateManifest(p) \/ WriteManifest(p)
    \/ ReadManifest(p) \/ OpenSnapshot(p) \/ VerifyStoreArchive(p)

Next == WriteDatabase \/ ReplaceArchive \/ \E p \in Process : ProcessStep(p)

Spec == Init /\ [][Next]_vars
-----------------------------------------------------------------------------
TypeOK ==
    /\ files \in [Name -> Number \cup {None, Partial}]
    /\ pointer \in Number \cup {None}
    /\ exclusive # None => shared = {}
    /\ started \in 0..MaxStarted /\ content \in 0..Contents

\* A directory that says it is initialized holds one set of credentials, made by one command: processes that start on
\* it together never mix theirs, and what one left unfinished is never completed by another.
OneKeySet ==
    /\ files["initialized"] \in Number => Complete(files) /\ LoginToken \in Number
    /\ pointer # None => Complete(generations[pointer]) /\ files["initialized"] \in Number

\* Whatever is running uses the credentials and the token that are active, a server's core and its gateway the same
\* ones: no rotation happens under a process that has read them or is about to.
RunningIsCurrent ==
    \A p \in Process : p \in shared =>
        /\ procs[p].key \in {None, Active["ca.pem"]} /\ procs[p].clientKey \in {None, Active["ca.pem"]}
        /\ procs[p].token \in {None, LoginToken}

\* A manifest that is complete describes the archive an export left, and when verification reports success the file
\* at the path has the content the manifest there gives, whatever was put in its place meanwhile.
ArchivesAreTrue ==
    /\ "verify" \notin Commands /\ manifest \in 0..Contents => archive # None /\ archive.content = manifest
    /\ \A v \in verified : v[1] = v[2]

FilesAreSound == OneKeySet /\ RunningIsCurrent /\ ArchivesAreTrue
=============================================================================
