------------------------------ MODULE FileStore ------------------------------
(***************************************************************************)
(* What the calls of the file system promise: named files, each a sequence *)
(* of bytes, and descriptors, each a file and a position in it.  Files     *)
(* survive unmounting and mounting; descriptors do not.                    *)
(***************************************************************************)
EXTENDS Integers, Sequences, Functions

CONSTANTS MaxSize, Descriptor, Closed

VARIABLES files,   \* the bytes of every file that exists
          fds      \* Closed, or the file and position of a descriptor

absvars == <<files, fds>>

IsOpen(n) == \E f \in Descriptor : fds[f] # Closed /\ fds[f].name = n

Create(n) ==
  /\ n \notin DOMAIN files
  /\ files' = [m \in DOMAIN files \cup {n} |-> IF m = n THEN <<>> ELSE files[m]]
  /\ UNCHANGED fds

Delete(n) ==
  /\ n \in DOMAIN files /\ ~IsOpen(n)
  /\ files' = Restrict(files, DOMAIN files \ {n})
  /\ UNCHANGED fds

Open(f, n) ==
  /\ fds[f] = Closed /\ n \in DOMAIN files
  /\ fds' = [fds EXCEPT ![f] = [name |-> n, pos |-> 0]]
  /\ UNCHANGED files

Close(f) ==
  fds[f] # Closed /\ fds' = [fds EXCEPT ![f] = Closed] /\ UNCHANGED files

File(f) == files[fds[f].name]

Smaller(a, b) == IF a < b THEN a ELSE b

\* n bytes v are written at the position, in place of what is there, as far as
\* the greatest size allows; the file gets longer if need be.
Write(f, n, v) ==
  LET file == File(f)
      pos == fds[f].pos
      end == Smaller(pos + n, MaxSize)
      size == IF end > Len(file) THEN end ELSE Len(file)
  IN  /\ fds[f] # Closed
      /\ files' = [files EXCEPT ![fds[f].name] =
                     [p \in 1 .. size |-> IF p \in pos + 1 .. end THEN v ELSE file[p]]]
      /\ fds' = [fds EXCEPT ![f].pos = end]

\* The position moves to pos, which is in the file.
Seek(f, pos) ==
  /\ fds[f] # Closed /\ pos \in 0 .. Len(File(f))
  /\ fds' = [fds EXCEPT ![f].pos = pos]
  /\ UNCHANGED files

\* n bytes are read, or as many as the file has from the position on.
Read(f, n) == Seek(f, Smaller(fds[f].pos + n, Len(File(f))))

\* The file is cut; positions behind its new end move there.
Truncate(f, len) ==
  /\ fds[f] # Closed /\ len \in 0 .. Len(File(f))
  /\ files' = [files EXCEPT ![fds[f].name] = SubSeq(@, 1, len)]
  /\ fds' = [g \in Descriptor |->
               IF fds[g] # Closed /\ fds[g].name = fds[f].name /\ fds[g].pos > len
               THEN [fds[g] EXCEPT !.pos = len] ELSE fds[g]]

\* Mounting and unmounting leave the files as they are.
Unmount == fds' = [f \in Descriptor |-> Closed] /\ UNCHANGED files

\* Making a file system removes all files.
Format == files' = <<>> /\ fds' = [f \in Descriptor |-> Closed]
=============================================================================
