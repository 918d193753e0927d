---------------------------- MODULE LibraryExport ----------------------------
(***************************************************************************)
(* publish_compiled_library: a Library export is built file by file in a   *)
(* directory of its own, and the rename of a temporary manifest to         *)
(* export-manifest.json commits it.  Any step may fail, the process may    *)
(* be killed between any two, several exports may want the same name, and  *)
(* somebody else (an editor, an indexer, the owner of the disk) may touch  *)
(* the files meanwhile.                                                    *)
(*                                                                         *)
(* A descriptor is bound to a directory, not to its name, so every export  *)
(* p has a directory of its own, tree[p], and target says which directory  *)
(* the output name leads to.  A path is the tuple that _OwnedEntry.parts   *)
(* is.                                                                     *)
(***************************************************************************)
EXTENDS Naturals, Sequences

CONSTANTS
    Exports,            \* the calls of publish_compiled_library
    SourceCount,        \* snapshot.sources, in order
    Nothing,            \* the output name does not exist
    Foreign,            \* the output name leads to a directory of someone else
    MaxDisturbances     \* bound: how often somebody else touches a directory

ASSUME ExportAssumption ==
    /\ SourceCount \in Nat
    /\ MaxDisturbances \in Nat
    /\ Nothing \notin Exports
    /\ Foreign \notin Exports
    /\ Nothing # Foreign

VARIABLES
    tree,           \* what each path of an export's directory holds
    target,         \* what the output name leads to
    pc,             \* the phase of the call, or how it ended
    owned,          \* owned: the entries the call has created
    reason,         \* the exception being handled
    complete,       \* _cleanup's complete
    disturbances,   \* how often somebody else touched a directory
    touched         \* whether an export was touched, after the last check for it or before

vars == <<tree, target, pc, owned, reason, complete, disturbances, touched>>

Manifest == <<"export-manifest.json">>
Temporary == <<".export-manifest.json.tmp">>

\* What the call creates, in order: two directories, then two files for each
\* Source, Evidence first, then the manifest under its temporary name.
Layout == [i \in 1 .. 2 + 2 * SourceCount |->
    IF i = 1 THEN <<"sources">>
    ELSE IF i = 2 THEN <<"evidence">>
    ELSE IF i % 2 = 1 THEN <<"evidence", i \div 2>>
    ELSE <<"sources", (i - 1) \div 2>>]

Plan == Append(Layout, Temporary)

Directories == {<<"sources">>, <<"evidence">>}
Content == {Layout[i] : i \in 1 .. Len(Layout)}
Stray == {<<"stray">>, <<"sources", 0>>}
Paths == Content \union Stray \union {Temporary, Manifest}
Files == Paths \ Directories

\* "theirs" is an entry of another inode; the others are the call's own: still
\* being written, as planned, or with bytes changed in place.
Ours == {"partial", "whole", "drifted"}

Working == {"content", "writing", "inventory", "revalidate", "commit",
            "publish", "final inventory", "final revalidate", "final target"}
Failures == {"target_exists", "parent_invalid", "write_failed", "export_data"}
Ended == Failures \union {"success", "cleanup_failed", "killed"}

TypeOK ==
    /\ tree \in [Exports -> [Paths -> Ours \union {"absent", "theirs"}]]
    /\ target \in Exports \union {Nothing, Foreign}
    /\ pc \in [Exports -> {"start", "create", "cleanup"} \union Working \union Ended]
    /\ owned \in [Exports -> Seq(Content \union {Temporary, Manifest})]
    /\ reason \in [Exports -> Failures \union {"none"}]
    /\ complete \in [Exports -> BOOLEAN]
    /\ disturbances \in 0 .. MaxDisturbances
    /\ touched \in [Exports -> {"no", "early", "late"}]

Init ==
    /\ tree = [p \in Exports |-> [path \in Paths |-> "absent"]]
    /\ target \in {Nothing, Foreign}
    /\ pc = [p \in Exports |-> "start"]
    /\ owned = [p \in Exports |-> <<>>]
    /\ reason = [p \in Exports |-> "none"]
    /\ complete = [p \in Exports |-> TRUE]
    /\ disturbances = 0
    /\ touched = [p \in Exports |-> "no"]

-----------------------------------------------------------------------------
Goto(p, phase) == pc' = [pc EXCEPT ![p] = phase]

Put(p, path, entry) == tree' = [tree EXCEPT ![p][path] = entry]

Names(p) == {path \in Paths : tree[p][path] # "absent"}

Under(path) == {q \in Paths : q # path /\ q[1] = path[1]}

OwnedFiles(p) == {owned[p][i] : i \in 1 .. Len(owned[p])} \ Directories

\* _validate_exact_inventory: the names that are there, and no others.
ExactInventory(p, expected) == Names(p) = expected

\* _revalidate_owned_files: identity, size and digest of every owned file.
OwnedFilesHold(p) == \A path \in OwnedFiles(p) : tree[p][path] = "whole"

\* _revalidate_target: the output name still leads to the bound directory.
TargetHolds(p) == target = p

-----------------------------------------------------------------------------
(* Creating the target.  mkdir is exclusive, whatever the look before said. *)

LookForTarget(p) ==
    /\ pc[p] = "start"
    /\ \/ target = Nothing /\ Goto(p, "create")
       \/ target # Nothing /\ Goto(p, "target_exists")
       \/ Goto(p, "parent_invalid")
    /\ UNCHANGED <<tree, target, owned, reason, complete, disturbances, touched>>

CreateTarget(p) ==
    /\ pc[p] = "create"
    /\ target = Nothing
    /\ target' = p
    /\ \/ Goto(p, "content") /\ UNCHANGED reason
       \/ \E why \in {"write_failed", "parent_invalid"} :  \* open or fstat fails
              Goto(p, "cleanup") /\ reason' = [reason EXCEPT ![p] = why]
       \/ Goto(p, "cleanup_failed") /\ UNCHANGED reason    \* lstat fails: no identity
    /\ UNCHANGED <<tree, owned, complete, disturbances, touched>>

CannotCreateTarget(p) ==
    /\ pc[p] = "create"
    /\ \/ target # Nothing /\ Goto(p, "target_exists")
       \/ Goto(p, "parent_invalid")
       \/ Goto(p, "write_failed")
    /\ UNCHANGED <<tree, target, owned, reason, complete, disturbances, touched>>

-----------------------------------------------------------------------------
(* Content and manifest: created exclusively, written, read back.           *)

NextPath(p) == Plan[Len(owned[p]) + 1]

\* The phase once the first n entries of Plan are there.
After(n) ==
    IF n < Len(Layout) THEN "content"
    ELSE IF n = Len(Layout) THEN "inventory"
    ELSE "commit"

CreateDirectory(p) ==
    /\ pc[p] = "content"
    /\ NextPath(p) \in Directories
    /\ tree[p][NextPath(p)] = "absent"
    /\ Put(p, NextPath(p), "whole")
    /\ owned' = [owned EXCEPT ![p] = Append(@, NextPath(p))]
    /\ Goto(p, After(Len(owned[p]) + 1))
    /\ UNCHANGED <<target, reason, complete, disturbances, touched>>

CreateFile(p) ==
    /\ pc[p] = "content"
    /\ NextPath(p) \notin Directories
    /\ tree[p][NextPath(p)] = "absent"
    /\ Put(p, NextPath(p), "partial")
    /\ owned' = [owned EXCEPT ![p] = Append(@, NextPath(p))]
    /\ Goto(p, "writing")
    /\ UNCHANGED <<target, reason, complete, disturbances, touched>>

WriteFile(p) ==
    LET path == owned[p][Len(owned[p])] IN
    /\ pc[p] = "writing"
    /\ tree[p][path] = "partial"
    /\ Put(p, path, "whole")
    /\ Goto(p, After(Len(owned[p])))
    /\ UNCHANGED <<target, owned, reason, complete, disturbances, touched>>

\* The entry was made, but stat of it fails: it is not recorded as owned.
LoseNewEntry(p) ==
    /\ pc[p] = "content"
    /\ tree[p][NextPath(p)] = "absent"
    /\ Put(p, NextPath(p), "partial")
    /\ reason' = [reason EXCEPT ![p] = "write_failed"]
    /\ Goto(p, "cleanup")
    /\ UNCHANGED <<target, owned, complete, disturbances, touched>>

CheckInventory(p) ==
    /\ pc[p] = "inventory"
    /\ ExactInventory(p, Content)
    /\ Goto(p, "revalidate")
    /\ UNCHANGED <<tree, target, owned, reason, complete, disturbances, touched>>

\* The next entry of Plan is the manifest.
RevalidateContent(p) ==
    /\ pc[p] = "revalidate"
    /\ OwnedFilesHold(p)
    /\ Goto(p, "content")
    /\ UNCHANGED <<tree, target, owned, reason, complete, disturbances, touched>>

-----------------------------------------------------------------------------
(* Commit, and the checks after it.                                         *)

CheckTarget(p) ==
    /\ pc[p] = "commit"
    /\ TargetHolds(p)
    /\ Goto(p, "publish")
    /\ UNCHANGED <<tree, target, owned, reason, complete, disturbances, touched>>

\* Mutation: the published manifest is recorded as the first entry.
ReboundFirst(entries) ==
    <<Manifest>> \o SubSeq(entries, 1, Len(entries) - 1)

\* _rebind_published_manifest: the same place in owned, under the new name.
Rebound(entries) ==
    [i \in 1 .. Len(entries) |-> IF entries[i] = Temporary THEN Manifest ELSE entries[i]]

\* rename moves whatever bears the temporary name, over whatever bears the final one.
PublishManifest(p) ==
    /\ pc[p] = "publish"
    /\ tree[p][Temporary] # "absent"
    /\ tree' = [tree EXCEPT ![p][Manifest] = tree[p][Temporary],
                            ![p][Temporary] = "absent"]
    /\ owned' = [owned EXCEPT ![p] = Rebound(@)]
    /\ Goto(p, "final inventory")
    /\ UNCHANGED <<target, reason, complete, disturbances, touched>>

CheckFinalInventory(p) ==
    /\ pc[p] = "final inventory"
    /\ ExactInventory(p, Content \union {Manifest})
    /\ Goto(p, "final revalidate")
    /\ UNCHANGED <<tree, target, owned, reason, complete, disturbances, touched>>

\* Mutation: the committed files are not read again.
TrustExport(p) ==
    /\ pc[p] = "final revalidate"
    /\ Goto(p, "final target")
    /\ UNCHANGED <<tree, target, owned, reason, complete, disturbances, touched>>

RevalidateExport(p) ==
    /\ pc[p] = "final revalidate"
    /\ OwnedFilesHold(p)
    /\ Goto(p, "final target")
    /\ UNCHANGED <<tree, target, owned, reason, complete, disturbances, touched>>

Succeed(p) ==
    /\ pc[p] = "final target"
    /\ TargetHolds(p)
    /\ Goto(p, "success")
    /\ UNCHANGED <<tree, target, owned, reason, complete, disturbances, touched>>

-----------------------------------------------------------------------------
(* Failure.  A check that does not hold raises OSError, and so may every    *)
(* other call; rendering a Source or the manifest may raise a data error.   *)

Fail(p) ==
    /\ pc[p] \in Working
    /\ \/ reason' = [reason EXCEPT ![p] = "write_failed"]
       \/ pc[p] = "content" /\ reason' = [reason EXCEPT ![p] = "export_data"]
    /\ Goto(p, "cleanup")
    /\ UNCHANGED <<tree, target, owned, complete, disturbances, touched>>

\* Mutation: the identity of a file is not compared before it is unlinked.
RemovableByName(p, path) ==
    /\ tree[p][path] # "absent"
    /\ path \in Directories => Under(path) \intersect Names(p) = {}

\* _unlink_owned and _rmdir_owned: the identity must be the recorded one.
Removable(p, path) ==
    /\ tree[p][path] \in Ours
    /\ path \in Directories => Under(path) \intersect Names(p) = {}

\* One round of _cleanup's loop over reversed(owned): the entry goes, or the
\* error is noted and the loop goes on.
CleanEntry(p) ==
    LET path == owned[p][Len(owned[p])] IN
    /\ pc[p] = "cleanup"
    /\ owned[p] # <<>>
    /\ owned' = [owned EXCEPT ![p] = SubSeq(@, 1, Len(@) - 1)]
    /\ \/ Removable(p, path) /\ Put(p, path, "absent") /\ UNCHANGED complete
       \/ complete' = [complete EXCEPT ![p] = FALSE] /\ UNCHANGED tree
    /\ UNCHANGED <<target, pc, reason, disturbances, touched>>

\* Mutation: a failing rmdir of the target does not count.
CleanTargetQuietly(p) ==
    /\ pc[p] = "cleanup"
    /\ owned[p] = <<>>
    /\ \/ TargetHolds(p) /\ Names(p) = {} /\ target' = Nothing
       \/ UNCHANGED target
    /\ Goto(p, IF complete[p] THEN reason[p] ELSE "cleanup_failed")
    /\ UNCHANGED <<tree, owned, reason, complete, disturbances, touched>>

\* The end of _cleanup: the target itself, by name, if it is still the same.
CleanTarget(p) ==
    /\ pc[p] = "cleanup"
    /\ owned[p] = <<>>
    /\ \/ /\ TargetHolds(p) /\ Names(p) = {}
          /\ target' = Nothing
          /\ Goto(p, IF complete[p] THEN reason[p] ELSE "cleanup_failed")
       \/ UNCHANGED target /\ Goto(p, "cleanup_failed")
    /\ UNCHANGED <<tree, owned, reason, complete, disturbances, touched>>

\* The process is killed, or an exception that no handler names goes through.
Kill(p) ==
    /\ pc[p] \notin Ended
    /\ Goto(p, "killed")
    /\ UNCHANGED <<tree, target, owned, reason, complete, disturbances, touched>>

-----------------------------------------------------------------------------
(* Somebody else.                                                           *)

Exposed(p) ==
    /\ pc[p] \in Working \union {"cleanup"}
    /\ disturbances < MaxDisturbances

Touch(p, tooLate) ==
    /\ disturbances' = disturbances + 1
    /\ touched' = [touched EXCEPT ![p] = IF tooLate \/ @ = "late" THEN "late" ELSE "early"]

\* A file is put there, replaced, removed or changed in place.
DisturbFile(p, path, entry) ==
    /\ Exposed(p)
    /\ Len(path) = 2 => tree[p][<<path[1]>>] # "absent"
    /\ entry # tree[p][path]
    /\ entry = "drifted" => tree[p][path] \in Ours
    /\ Put(p, path, entry)
    /\ Touch(p, \/ pc[p] = "final target"
                \/ pc[p] = "final revalidate" /\ tree[p][path] = "absent")
    /\ UNCHANGED <<target, pc, owned, reason, complete>>

\* The directory is moved away, and maybe another takes its name.
DisturbTarget(p, other) ==
    /\ Exposed(p)
    /\ target = p
    /\ target' = other
    /\ Touch(p, FALSE)
    /\ UNCHANGED <<tree, pc, owned, reason, complete>>

-----------------------------------------------------------------------------
ExportStep(p) ==
    \/ LookForTarget(p) \/ CreateTarget(p) \/ CannotCreateTarget(p)
    \/ CreateDirectory(p) \/ CreateFile(p) \/ WriteFile(p) \/ LoseNewEntry(p)
    \/ CheckInventory(p) \/ RevalidateContent(p)
    \/ CheckTarget(p) \/ PublishManifest(p)
    \/ CheckFinalInventory(p) \/ RevalidateExport(p) \/ Succeed(p)
    \/ Fail(p) \/ CleanEntry(p) \/ CleanTarget(p) \/ Kill(p)

Disturb(p) ==
    \/ \E path \in Files, entry \in {"absent", "drifted", "theirs"} :
           DisturbFile(p, path, entry)
    \/ \E other \in {Nothing, Foreign} : DisturbTarget(p, other)

Next == \E p \in Exports : ExportStep(p) \/ Disturb(p)

Spec == Init /\ [][Next]_vars

-----------------------------------------------------------------------------
(* Properties.                                                              *)

\* An export that nobody else touched carries its commit marker only over the
\* whole content: while it is built, after a kill at any point, and while a
\* failed export is taken down again, unless a removal failed and is reported.
MarkerMeansComplete ==
    \A p \in Exports :
        /\ tree[p][Manifest] # "absent"
        /\ touched[p] = "no"
        /\ complete[p]
        => \A path \in Content \union {Manifest} : tree[p][path] = "whole"

\* Success is returned for exactly the planned tree, whole and under the output
\* name, unless somebody touched it after the last check that covers the change.
SuccessIsExact ==
    \A p \in Exports :
        pc[p] = "success" /\ touched[p] # "late" =>
            /\ target = p
            /\ Names(p) = Content \union {Manifest}
            /\ \A path \in Names(p) : tree[p][path] = "whole"

\* An export that ends in any failure but cleanup_failed has left nothing
\* behind: no entry, no empty directory, and the name is not bound to it.
FailureLeavesNothing ==
    \A p \in Exports :
        pc[p] \in Failures => Names(p) = {} /\ target # p

\* An export removes or changes neither a file of somebody else in its own
\* directory (the rename over a manifest of that name apart), nor another
\* export's directory, nor whatever else the output name leads to.
ForeignSurvives ==
    [][\A p \in Exports : ExportStep(p) =>
         /\ \A q \in Exports, path \in Paths \ {Manifest, Temporary} :
                tree[q][path] = "theirs" => tree'[q][path] = "theirs"
         /\ \A q \in Exports \ {p} : tree'[q] = tree[q]
         /\ target \notin {p, Nothing} => target' = target]_vars

=============================================================================
