----------------------------- MODULE SourceTransfer -----------------------------
(***************************************************************************)
(* How the sources reach the GPU host (scripts/gpu/source_bundle.py, and   *)
(* qualify_remote.sh that calls it): a manifest of the tracked files, an   *)
(* archive of them, both uploaded, verified and extracted into the         *)
(* workspace that is named by the digest of the manifest.                  *)
(*                                                                         *)
(* A checkout is what Git and the file system say at the moments they are  *)
(* asked: the commit, the index, and the working tree when Git looks for   *)
(* changes (status), when the files are hashed (hashed) and when they are  *)
(* archived (read).  A tree is a function of the paths that exist.  Bytes  *)
(* are a sequence, and a digest is the value it is taken of.               *)
(***************************************************************************)
EXTENDS Integers, Sequences, Orders

CONSTANTS None, Outside     \* Outside: the target of a link that leaves the sources

File(bytes) == [type |-> "file", bytes |-> bytes]
Link(target) == [type |-> "link", target |-> target]

At(tree, p) == IF p \in DOMAIN tree THEN tree[p] ELSE None
IsFile(e) == e # None /\ e.type = "file"
IsLink(e) == e # None /\ e.type = "link"

Bundled(index) == {p \in DOMAIN index : index[p].mode # "gitlink"}

\* git status --porcelain --untracked-files=all says nothing (a staged conflict is a change).
Clean(c) == c.status = [p \in Bundled(c.index) |-> c.index[p].of]

\* _validate_symlink.
Inside(target) == target # Outside

\* What ls-files calls a link has to be one and stay inside, a file has to be a regular file.
Declarable(c, p) ==
    LET e == At(c.hashed, p)
    IN  CASE c.index[p].mode = "gitlink" -> TRUE
          [] c.index[p].mode = "link" -> IsLink(e) /\ Inside(e.target)
          [] OTHER -> IsFile(e)

Declared(c, p) ==
    LET mode == c.index[p].mode
    IN  CASE mode = "gitlink" -> [mode |-> mode, commit |-> c.index[p].of]
          [] mode = "link" -> [mode |-> mode, target |-> c.hashed[p].target]
          [] OTHER -> [mode |-> mode, size |-> Len(c.hashed[p].bytes), digest |-> c.hashed[p].bytes]

\* build_manifest: the commit and every tracked path, or nothing of a checkout with changes or
\* paths that are not what the index says.
BuildManifest(c) ==
    IF Clean(c) /\ \A p \in DOMAIN c.index : Declarable(c, p)
    THEN [commit |-> c.head, entries |-> [p \in DOMAIN c.index |-> Declared(c, p)]]
    ELSE None

\* What open reads at a path: a link is followed.
Opened(tree, p) == IF IsLink(At(tree, p)) THEN At(tree, tree[p].target) ELSE At(tree, p)

\* tarfile.addfile reads the declared number of bytes, and raises when there are fewer.
Archivable(m, tree, p) ==
    m.entries[p].mode # "link"
        => IsFile(Opened(tree, p)) /\ Len(Opened(tree, p).bytes) >= m.entries[p].size

Member(m, tree, p) ==
    IF m.entries[p].mode = "link" THEN [path |-> p, type |-> "link", target |-> m.entries[p].target]
    ELSE [path |-> p, type |-> "file", bytes |-> SubSeq(Opened(tree, p).bytes, 1, m.entries[p].size)]

\* create_bundle: both outputs, or neither when one of them exists or a file cannot be read.
CreateBundle(c, existing) ==
    LET m == BuildManifest(c)
        paths == Ascending(Bundled(m.entries))
        archive == [k \in DOMAIN paths |-> Member(m, c.read, paths[k])]
    IN  IF m = None \/ existing # {} THEN None
        ELSE IF \E p \in Bundled(m.entries) : ~Archivable(m, c.read, p) THEN None
        ELSE [archive |-> archive, manifest |-> [content |-> m, digest |-> m, archive |-> archive]]

\* _load_manifest.
ManifestOk(manifest) == manifest.digest = manifest.content

\* One member against its declaration, and against those before it.
MemberOk(entries, archive, k) ==
    LET member == archive[k]
        entry == entries[member.path]
    IN  /\ member.path \in Bundled(entries)
        /\ \A j \in 1..(k - 1) : archive[j].path # member.path
        /\ IF entry.mode = "link"
           THEN member.type = "link" /\ member.target = entry.target /\ Inside(member.target)
           ELSE member.type = "file" /\ Len(member.bytes) = entry.size

\* verify_and_extract: the archive the manifest names, every declared path once and as declared.
VerifyAndExtract(archive, manifest) ==
    LET entries == manifest.content.entries
        member(p) == archive[CHOOSE k \in DOMAIN archive : archive[k].path = p]
    IN  IF \/ ~ManifestOk(manifest)
           \/ manifest.archive # archive
           \/ \E k \in DOMAIN archive : ~MemberOk(entries, archive, k)
           \/ {archive[k].path : k \in DOMAIN archive} # Bundled(entries)
           \/ \E p \in Bundled(entries) : entries[p].mode # "link" /\ member(p).bytes # entries[p].digest
        THEN None
        ELSE [p \in Bundled(entries) |->
                [mode |-> entries[p].mode,
                 of |-> IF entries[p].mode = "link" THEN Link(member(p).target) ELSE File(member(p).bytes)]]

\* qualify_remote.sh: the workspace of this digest, extracted unless it is there.
Deliver(host, archive, manifest) ==
    LET extracted == VerifyAndExtract(archive, manifest)
    IN  IF manifest.digest \in DOMAIN host \/ extracted = None THEN host
        ELSE [d \in DOMAIN host \union {manifest.digest} |->
                IF d \in DOMAIN host THEN host[d] ELSE extracted]

-----------------------------------------------------------------------------
(* What the transfer promises. *)

\* The files and links of the index as they were when they were hashed.
AsHashed(c) ==
    [p \in Bundled(c.index) |-> [mode |-> c.index[p].mode, of |-> c.hashed[p]]]

\* A workspace holds the files of the manifest it is named by, whatever changed in the checkout
\* between the manifest and the archive (source_bundle.py:313-340) and whichever archive it is
\* given, and no two commits share it; a checkout in which nothing changes is delivered, is the
\* commit, and is left as it is by every later upload.
TransferIsExact(c, other) ==
    LET made == CreateBundle(c, {})
        theirs == CreateBundle(other, {})
        uploads == {made, theirs} \ {None}
        still == c.hashed = c.status /\ c.read = c.status
        Of(b) == IF b = made THEN c ELSE other
        contained == \A p \in Bundled(c.index) : c.index[p].of # Link(Outside)
    IN  /\ \A a, b \in uploads :
             Deliver(<<>>, a.archive, b.manifest)
               \in {<<>>, [d \in {b.manifest.digest} |-> AsHashed(Of(b))]}
        /\ made # None /\ theirs # None /\ c.head # other.head
             => made.manifest.digest # theirs.manifest.digest
        /\ made # None /\ still =>
             LET first == Deliver(<<>>, made.archive, made.manifest)
             IN  /\ first[made.manifest.digest]
                      = [p \in Bundled(c.index) |-> [mode |-> c.index[p].mode, of |-> c.index[p].of]]
                 /\ \A b \in uploads : Deliver(first, b.archive, b.manifest)[made.manifest.digest]
                                         = first[made.manifest.digest]
        /\ still /\ Clean(c) /\ contained => made # None
=============================================================================
