------------------------------ MODULE FileStore ------------------------------
(***************************************************************************)
(* What the file system promises to the applications: a dictionary of      *)
(* files and directories, and descriptors with an offset. A call has its   *)
(* effect and its result at once, or it fails and has none; but a write    *)
(* that finds the volume full breaks the file, of which nothing is         *)
(* promised until it is emptied or removed. A rename, and the removal of a *)
(* directory, leave the descriptors of what they move or remove useless.   *)
(***************************************************************************)
EXTENDS Naturals, Sequences, SequencesExt

CONSTANTS DirPaths, FilePaths, Values, MaxSize, FdMax,
          Recycled      \* names that a new directory may show though nobody made them

Path == DirPaths \cup FilePaths
Fd == 0 .. FdMax - 1
Junk == "junk"          \* a byte of a file that nobody wrote

None == [kind |-> "none", data |-> <<>>]
Dir == [kind |-> "dir", data |-> <<>>]
File(data) == [kind |-> "file", data |-> data]
Broken == [kind |-> "broken", data |-> <<>>]
Closed == [path |-> <<>>, seek |-> 0, mode |-> "closed"]
Lost == [Closed EXCEPT !.mode = "lost"]

VARIABLES content,      \* what is at each path
          opened,       \* the descriptors
          reply         \* the bytes, or the name, that the last call returned

vars == <<content, opened, reply>>

Init ==
  /\ content = [p \in Path |-> IF p = <<>> THEN Dir ELSE None]
  /\ opened = [f \in Fd |-> Closed]
  /\ reply = <<>>

Exists(p) == content[p] # None
Live(f) == opened[f].mode \in {"read", "write"}
Users(p) == {f \in Fd : Live(f) /\ opened[f].path = p}
Empty(p) == \A x \in Path : IsStrictPrefix(p, x) => ~Exists(x)

\* A file that somebody uses is not removed; a directory is.
Removable(p) ==
  p # <<>> /\ Exists(p) /\ Empty(p) /\ (content[p] # Dir => Users(p) = {})

\* The descriptors on a path of the set are lost.
Lose(paths) ==
  opened' = [f \in Fd |-> IF Live(f) /\ opened[f].path \in paths THEN Lost ELSE opened[f]]

\* The call fails, or it is a close, a seek, or a call that has no result.
Fail == reply' = <<>> /\ UNCHANGED opened /\ UNCHANGED content

\* An existing node is opened, a file that does not exist is created, or a
\* file is emptied; a created file may find no descriptor.
OpenAs(f, p, mode) ==
  /\ opened[f] = Closed
  /\ opened' = [opened EXCEPT ![f] = [path |-> p, seek |-> 0, mode |-> mode]]
  /\ reply' = <<>>

Open(f, p, mode) == OpenAs(f, p, mode) /\ Exists(p) /\ UNCHANGED content

Truncate(f, p) ==
  /\ OpenAs(f, p, "write") /\ content[p].kind \in {"file", "broken"}
  /\ content' = [content EXCEPT ![p] = File(<<>>)]

Create(p) ==
  /\ p \in FilePaths /\ ~Exists(p) /\ Exists(Front(p))
  /\ content' = [content EXCEPT ![p] = File(<<>>)]
  /\ \/ \E f \in Fd, mode \in {"read", "write"} : OpenAs(f, p, mode)
     \/ (\A f \in Fd : opened[f] # Closed) /\ reply' = <<>> /\ UNCHANGED opened

Close(f) ==
  /\ Live(f)
  /\ opened' = [opened EXCEPT ![f] = Closed]
  /\ reply' = <<>> /\ UNCHANGED content

Mkdir(p) ==
  /\ p \in DirPaths /\ ~Exists(p) /\ Exists(Front(p))
  /\ content' = [content EXCEPT ![p] = Dir]
  /\ reply' = <<>> /\ UNCHANGED opened

RemoveNode(p) ==
  /\ reply' = <<>> /\ Lose({p})
  /\ Removable(p)
  /\ content' = [content EXCEPT ![p] = None]

\* What is at p, and below, is at q from now on; the data of the files below p that are
\* open, or were moved while open before, may be lost.
Rename(p, q) ==
  LET source == [x \in Path |-> p \o SubSeq(x, Len(q) + 1, Len(x))]
  IN /\ p # <<>> /\ Exists(p) /\ Exists(Front(q)) /\ ~IsPrefix(p, q)
     /\ ~Exists(q) \/ Removable(q)
     /\ \A x \in Path :
          IF IsPrefix(q, x) /\ source[x] \in Path
          THEN \/ content'[x] = content[source[x]]
               \/ /\ x # q /\ content'[x].kind = "file"
                  /\ Users(source[x]) # {} \/ Lost \in Range(opened)
          ELSE content'[x] = IF IsPrefix(p, x) THEN None ELSE content[x]
     /\ Lose({x \in Path : IsPrefix(p, x)} \cup {q})
     /\ reply' = <<>>

Read(f, n) ==
  LET o == opened[f]
      data == content[o.path].data
  IN /\ Live(f)
     /\ opened' = [opened EXCEPT ![f].seek = o.seek + n]
     /\ \/ content[o.path] = Broken
        \/ o.seek + n <= Len(data) /\ reply' = SubSeq(data, o.seek + 1, o.seek + n)
     /\ UNCHANGED content

\* The bytes between the old end and the offset are not written by anybody.
Write(f, n, x) ==
  LET o == opened[f]
      data == content[o.path].data
      end == o.seek + n
  IN /\ o.mode = "write" /\ end <= MaxSize
     /\ opened' = [opened EXCEPT ![f].seek = end]
     /\ reply' = <<>>
     /\ \/ content[o.path] = Broken /\ UNCHANGED content
        \/ /\ content[o.path].kind = "file"
           /\ content' = [content EXCEPT ![o.path] = File(
                [i \in 1 .. IF end > Len(data) THEN end ELSE Len(data) |->
                   IF i \in o.seek + 1 .. end THEN x
                   ELSE IF i \in DOMAIN data THEN data[i] ELSE Junk])]

\* The volume is full.
WriteFails(f) ==
  /\ opened[f].mode = "write" /\ content[opened[f].path].kind = "file"
  /\ content' = [content EXCEPT ![opened[f].path] = Broken]
  /\ reply' = <<>> /\ UNCHANGED opened

Seek(f, seek) ==
  /\ Live(f)
  /\ opened' = [opened EXCEPT ![f].seek = seek]
  /\ reply' = <<>> /\ UNCHANGED content

\* A name of the directory, or nothing at its end.
List(f) ==
  /\ Live(f) /\ UNCHANGED opened
  /\ content[opened[f].path] = Dir
  /\ \/ \E x \in Path \ {<<>>} :
          Front(x) = opened[f].path /\ Exists(x) /\ reply' = <<Last(x)>>
     \/ opened[f].path # <<>> /\ \E x \in Recycled : reply' = <<x>>
  /\ UNCHANGED content

Next ==
  \/ Fail
  \/ \E f \in Fd : Close(f) \/ List(f) \/ WriteFails(f)
  \/ \E f \in Fd, n \in 1 .. MaxSize : Read(f, n) \/ \E x \in Values : Write(f, n, x)
  \/ \E f \in Fd, seek \in 0 .. MaxSize : Seek(f, seek)
  \/ \E f \in Fd, p \in Path, mode \in {"read", "write"} : Open(f, p, mode)
  \/ \E p \in Path : Create(p) \/ Mkdir(p) \/ RemoveNode(p)
  \/ \E f \in Fd, p \in Path : Truncate(f, p)
  \/ \E p, q \in Path : Rename(p, q)

Spec == Init /\ [][Next]_vars

=============================================================================
