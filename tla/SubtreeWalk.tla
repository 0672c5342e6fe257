----------------------------- MODULE SubtreeWalk -----------------------------
(***************************************************************************)
(* The materialization of a subtree of a commit under ceilings:            *)
(* MaterializeSubtreeBounded of internal/gitsource/subtree.go.             *)
(*                                                                         *)
(* A tree is the sequence of its entries: directories, files and others    *)
(* (symlinks and submodules).  A file's blob says a size and holds a       *)
(* stream of bytes that may be of another; what the bytes mean to a parser *)
(* goes along with them.                                                   *)
(***************************************************************************)
EXTENDS Naturals, Sequences, FiniteSets, SequencesExt, FiniteSetsExt, Functions

VARIABLES
  bounds,  \* the ceilings of the walk
  work,    \* the directories being walked, the innermost last
  disk,    \* what has been written, by path
  used,    \* bytes and files written, entries visited
  walk     \* "off", "on", "done", "exceeded" or "failed"

walkVars == <<bounds, work, disk, used, walk>>

\* What the walk still has to visit of a directory.
Frame(path, entries, depth) == [path |-> path, entries |-> entries, depth |-> depth]

Nothing == [p \in {} |-> p]
Unused == [bytes |-> 0, files |-> 0, nodes |-> 0]

WalkInit == work = <<>> /\ disk = Nothing /\ used = Unused /\ walk = "off"

\* Mutant: the last depth that is allowed is refused.
DepthBelow(depth) == depth < bounds.maxDepth

\* materializeTree refuses a tree that is too deep.
DepthAllowed(depth) == depth <= bounds.maxDepth

\* The temporary directory is new and empty for every walk.
Begin(tree) ==
  /\ disk' = Nothing /\ used' = Unused
  /\ IF DepthAllowed(0)
       THEN walk' = "on" /\ work' = <<Frame(<<>>, tree, 0)>>
       ELSE walk' = "exceeded" /\ work' = <<>>
  /\ UNCHANGED bounds

Top == Last(work)
Entry == Head(Top.entries)
Path == Append(Top.path, Entry.name)
Passed == Append(Front(work), [Top EXCEPT !.entries = Tail(@)])

Refuses == walk' = "exceeded" /\ work' = <<>>

\* The next entry is one too many.
TooManyNodes ==
  /\ walk = "on" /\ Top.entries # <<>>
  /\ used.nodes + 1 > bounds.maxTreeNodes
  /\ used' = [used EXCEPT !.nodes = @ + 1]
  /\ Refuses
  /\ UNCHANGED <<bounds, disk>>

\* Mutant: only regular files are taken.
RegularOnly == {"regular"}

isMaterializableFile == {"regular", "executable"}

\* The walk goes to an entry of this mode.
Visits(modes) ==
  /\ walk = "on" /\ Top.entries # <<>>
  /\ used.nodes + 1 <= bounds.maxTreeNodes
  /\ Entry.mode \in modes
  /\ UNCHANGED bounds

Others == {"regular", "executable", "symlink", "submodule"} \ isMaterializableFile

Descend ==
  /\ Visits({"dir"})
  /\ used' = [used EXCEPT !.nodes = @ + 1]
  /\ IF DepthAllowed(Top.depth + 1)
       THEN /\ work' = Append(Passed, Frame(Path, Entry.entries, Top.depth + 1))
            /\ UNCHANGED walk
       ELSE Refuses
  /\ UNCHANGED disk

\* Symlinks and submodules are passed over, but counted.
Skip ==
  /\ Visits(Others)
  /\ used' = [used EXCEPT !.nodes = @ + 1]
  /\ work' = Passed
  /\ UNCHANGED <<disk, walk>>

\* The file's own checks, on the size its blob says it has.
FileAllowed ==
  /\ used.files + 1 <= bounds.maxFiles
  /\ used.bytes + Entry.size <= bounds.maxTotalBytes

RefuseFile ==
  /\ Visits(isMaterializableFile) /\ ~FileAllowed
  /\ used' = [used EXCEPT !.nodes = @ + 1]
  /\ Refuses
  /\ UNCHANGED disk

Remaining == bounds.maxTotalBytes - used.bytes

\* Mutant: the size the blob says it has is trusted.
CopiedWhole == Entry.stream

\* copyBounded stops at the remaining bytes ...
Copied == Min({Entry.stream, Remaining})

OnDisk(bytes) ==
  [p \in DOMAIN disk \cup {Path} |->
     IF p = Path THEN [bytes |-> bytes, holds |-> Entry.holds] ELSE disk[p]]

\* ... and refuses a file that has one byte more.
WriteFile ==
  /\ Visits(isMaterializableFile) /\ FileAllowed
  /\ disk' = OnDisk(Copied)
  /\ IF Entry.stream > Copied
       THEN /\ used' = [used EXCEPT !.nodes = @ + 1]
            /\ Refuses
       ELSE /\ used' = [nodes |-> used.nodes + 1, files |-> used.files + 1,
                        bytes |-> used.bytes + Copied]
            /\ work' = Passed /\ UNCHANGED walk

\* A blob or a subtree cannot be read, a file not be written to its end, or an
\* entry's path does not stay in the directory.
WalkFails ==
  /\ Visits({"dir"} \cup isMaterializableFile)
  /\ used' = [used EXCEPT !.nodes = @ + 1]
  /\ walk' = "failed" /\ work' = <<>>
  /\ \/ UNCHANGED disk
     \/ /\ Entry.mode # "dir" /\ FileAllowed
        /\ \E n \in {0, Copied} : disk' = OnDisk(n)

\* A directory is walked to its end.
Ascend ==
  /\ walk = "on" /\ Top.entries = <<>>
  /\ work' = Front(work)
  /\ walk' = IF Len(work) = 1 THEN "done" ELSE "on"
  /\ UNCHANGED <<bounds, disk, used>>

WalkStep ==
  TooManyNodes \/ Descend \/ Skip \/ RefuseFile \/ WriteFile \/ Ascend

\* The directory is removed, however far the walk has come.
RemoveAll ==
  /\ walk' = "off" /\ work' = <<>> /\ disk' = Nothing
  /\ UNCHANGED <<bounds, used>>

\* Walks by themselves: of any of some trees, one after the other.
WalkNext(trees) ==
  \/ walk # "on" /\ \E tree \in trees : Begin(tree)
  \/ WalkStep \/ WalkFails \/ RemoveAll

\* What a repository may hold: a file says a size and holds a stream, which need
\* not be of that size, and a directory holds entries, again of these.
WellFormed(Entries) ==
  \A e \in Entries :
    /\ e.mode = "dir" => e.entries \in Seq(Entries)
    /\ e.mode \in isMaterializableFile => e.size \in Nat /\ e.stream \in Nat

Ceilings == [maxTotalBytes : Nat, maxFiles : Nat, maxDepth : Nat, maxTreeNodes : Nat]

WalkSpec(trees) ==
  bounds \in Ceilings /\ WalkInit /\ [][WalkNext(trees)]_walkVars

----------------------------------------------------------------------------
\* subtree.go:146 "destDir never grows past the configured ceiling": at every
\* moment of a walk, whatever sizes its blobs claim, and however a walk ends,
\* bytes, files and depth on disk are within the ceilings, and no more entries
\* than allowed, and the one that is refused, have been looked at.
CeilingsHold ==
  /\ FoldFunction(+, 0, [p \in DOMAIN disk |-> disk[p].bytes]) <= bounds.maxTotalBytes
  /\ Cardinality(DOMAIN disk) <= bounds.maxFiles
  /\ \A p \in DOMAIN disk : Len(p) - 1 <= bounds.maxDepth
  /\ used.nodes <= bounds.maxTreeNodes + 1
==============================================================================
