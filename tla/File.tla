-------------------------------- MODULE File ---------------------------------
(***************************************************************************)
(* File and FileUtil (inc/os/File.h, inc/os/FileUtil.h, src/os/File.cpp):   *)
(* objects that own or borrow a FILE*, keep a place of their own to read    *)
(* and to write, and are copied and moved.  The streams below them are the  *)
(* C library's as the POSIX build meets it.  One process uses the files; a  *)
(* file has one open stream, or several that only read.  mPath and mMode    *)
(* are only recorded by the code and are left out, like the asset branches  *)
(* of Android.                                                              *)
(***************************************************************************)
EXTENDS Integers, Sequences, FiniteSets, SequencesExt, FiniteSetsExt

CONSTANTS
  Objs,        \* variables that can hold a File
  Paths,       \* files of the disk
  Modes,       \* of fopen: "r" (which is also what "rw", the default, means),
               \* "r+" and "w"
  Chars, NL,   \* characters, and the one that ends a line
  NULL, Absent, Unbound,
  MaxStreams,  \* bound: FILE*s opened in one behaviour
  MaxLen,      \* bound: characters in a file
  MaxWrite     \* bound: characters written by one call

ASSUME FileAssumption ==
  /\ NL \in Chars /\ Modes \subseteq {"r", "r+", "w"}
  /\ MaxStreams \in Nat /\ MaxLen \in Nat /\ MaxWrite \in 0 .. MaxLen

VARIABLES
  disk,         \* per path: Absent or the characters the system has for it
  opened,       \* FILE*s opened so far: the streams are 1 .. opened
  fp,           \* per stream: what the C library keeps of it, NULL if there is none
  open,         \* the streams that are open
  lent, owned,  \* those a client lends to Files; those a File is to close
  files,        \* the variables that hold a File
  mFile,        \* per File: its stream, 0 for nullptr
  mNeedClosed,  \* the Files whose mNeedClosed is true
  mReadPos, mWritePos,
  out,          \* what the last call has read, <<>> if it reads nothing
  fault,        \* 0, or the closed stream that has been used
  shared        \* ghost: streams that a File which closes them was copied with

streamVars == <<disk, fp, open>>
kindVars == <<opened, lent, owned>>
fileVars == <<files, mFile, mNeedClosed>>
posVars == <<mReadPos, mWritePos>>
vars == <<streamVars, kindVars, fileVars, posVars, out, fault, shared>>

Texts == SeqOf(Chars, MaxLen)
Data == SeqOf(Chars, MaxWrite) \ {<<>>}
Streams == 1 .. opened

\* A file that is not there is no file with a text.
ASSUME AbsentAssumption == Absent \notin Texts

Piece(c, r, n) == SubSeq(c, r + 1, Min({Len(c), r + n}))
Overlay(c, w, d) ==
  [i \in 1 .. Max({Len(c), w + Len(d)}) |->
     IF i \in w + 1 .. w + Len(d) THEN d[i - w] ELSE c[i]]

\* The first line of a piece, its end of line included.
FirstLine(d) ==
  LET ends == {i \in DOMAIN d : d[i] = NL}
  IN  IF ends = {} THEN d ELSE SubSeq(d, 1, Min(ends))

Text(p) == IF disk[p] = Absent THEN <<>> ELSE disk[p]
OpenStreams(p) == {s \in open : fp[s].path = p}

Init ==
  /\ disk = [p \in Paths |-> Absent]
  /\ opened = 0 /\ open = {} /\ lent = {} /\ owned = {}
  /\ fp = [s \in 1 .. MaxStreams |-> NULL]
  /\ files = {} /\ mNeedClosed = {}
  /\ mFile = [f \in Objs |-> 0]
  /\ mReadPos = [f \in Objs |-> 0] /\ mWritePos = [f \in Objs |-> 0]
  /\ out = <<>> /\ fault = 0 /\ shared = {}

-----------------------------------------------------------------------------
(* The C library's streams. *)

Readable(s) == fp[s].mode # "w"
Writable(s) == fp[s].mode # "r"

\* The disk once the stream's buffer is written out.
Flushed(s) ==
  IF fp[s].buf = <<>> THEN disk
  ELSE [disk EXCEPT ![fp[s].path] = Overlay(@, fp[s].pos - Len(fp[s].buf), fp[s].buf)]

\* fseek and fsetpos write the buffer out and forget the end of file.
Sought(s, n) == [fp[s] EXCEPT !.pos = n, !.eof = FALSE, !.buf = <<>>]

\* fopen succeeds on a file that exists, and creates or empties one for "w".
CanOpen(p, m) == disk[p] # Absent \/ m = "w"
OpenNext(p, m) ==
  /\ opened' = opened + 1
  /\ open' = open \cup {opened + 1}
  /\ fp' = [fp EXCEPT ![opened + 1] =
              [path |-> p, mode |-> m, pos |-> 0, eof |-> FALSE, buf |-> <<>>]]
  /\ disk' = IF m = "w" THEN [disk EXCEPT ![p] = <<>>] ELSE disk

\* The bound on streams.
RoomFor(p, m) ==
  /\ opened < MaxStreams
  /\ \A s \in OpenStreams(p) : m = "r" /\ fp[s].mode = "r"

\* fclose writes the buffer out.
Close(s) ==
  /\ open' = open \ {s}
  /\ disk' = Flushed(s)
  /\ fp' = [fp EXCEPT ![s] = Sought(s, 0)]

-----------------------------------------------------------------------------
(* Life of a File. *)

Running == fault = 0
Alive(f) == Running /\ f \in files
Free(f) == Running /\ f \notin files

\* The fields of f.
Become(f, file, need, r, w) ==
  /\ mFile' = [mFile EXCEPT ![f] = file]
  /\ mNeedClosed' = IF need THEN mNeedClosed \cup {f} ELSE mNeedClosed \ {f}
  /\ mReadPos' = [mReadPos EXCEPT ![f] = r]
  /\ mWritePos' = [mWritePos EXCEPT ![f] = w]

\* f takes the fields of g; a moved-from g has no stream and mNeedClosed = false.
TakeFrom(f, g) ==
  /\ mFile' = [mFile EXCEPT ![f] = mFile[g], ![g] = 0]
  /\ mNeedClosed' = (mNeedClosed \ {f, g}) \cup (IF g \in mNeedClosed THEN {f} ELSE {})
  /\ mReadPos' = [mReadPos EXCEPT ![f] = mReadPos[g], ![g] = 0]
  /\ mWritePos' = [mWritePos EXCEPT ![f] = mWritePos[g], ![g] = 0]

CopyFrom(f, g) ==
  Become(f, mFile[g], g \in mNeedClosed, mReadPos[g], mWritePos[g])

\* File()
Construct(f) ==
  /\ Free(f)
  /\ files' = files \cup {f}
  /\ Become(f, 0, TRUE, 0, 0)
  /\ out' = <<>> /\ UNCHANGED <<streamVars, kindVars, fault, shared>>

\* A client opens a stream and lends it: File(const FILE*).
Borrow(f, p) ==
  /\ Free(f) /\ RoomFor(p, "r+") /\ CanOpen(p, "r+")
  /\ OpenNext(p, "r+")
  /\ files' = files \cup {f}
  /\ Become(f, opened', FALSE, 0, 0)
  /\ lent' = lent \cup {opened'}
  /\ out' = <<>> /\ UNCHANGED <<owned, fault, shared>>

\* A stream that a File opens is closed by it if mNeedClosed is true.
OpenIn(p, m, need) ==
  /\ RoomFor(p, m) /\ CanOpen(p, m)
  /\ OpenNext(p, m)
  /\ owned' = IF need THEN owned \cup {opened'} ELSE owned
  /\ out' = <<>> /\ UNCHANGED <<lent, fault, shared>>

\* File(path, mode) whose fopen succeeds, and one whose fopen fails.
OpenConstruct(f, p, m) ==
  /\ Free(f)
  /\ OpenIn(p, m, TRUE)
  /\ files' = files \cup {f}
  /\ Become(f, opened', TRUE, 0, 0)

OpenConstructFails(f, p, m) == ~CanOpen(p, m) /\ Construct(f)

Fopen(f, p, m) ==
  /\ Alive(f) /\ mFile[f] = 0
  /\ OpenIn(p, m, f \in mNeedClosed)
  /\ mFile' = [mFile EXCEPT ![f] = opened']
  /\ UNCHANGED <<files, mNeedClosed, posVars>>

\* What release() and fclose() do with the stream.
Closes(f) == mFile[f] # 0 /\ f \in mNeedClosed
Dangles(f) == mFile[f] # 0 /\ mFile[f] \notin open

Release(f) ==
  /\ IF Closes(f) /\ ~Dangles(f) THEN Close(mFile[f]) ELSE UNCHANGED streamVars
  /\ fault' = IF Closes(f) /\ Dangles(f) THEN mFile[f] ELSE 0
  /\ out' = <<>> /\ UNCHANGED kindVars

Fclose(f) ==
  /\ Alive(f) /\ Closes(f)
  /\ Release(f)
  /\ Become(f, 0, TRUE, 0, 0)
  /\ UNCHANGED <<files, shared>>

\* ~File()
Destroy(f) ==
  /\ Alive(f)
  /\ Release(f)
  /\ files' = files \ {f}
  /\ Become(f, 0, FALSE, 0, 0)
  /\ UNCHANGED shared

Share(g) == shared' = shared \cup (IF Closes(g) THEN {mFile[g]} ELSE {})

\* File(const File&)
CopyConstruct(f, g) ==
  /\ Free(f) /\ Alive(g)
  /\ files' = files \cup {f}
  /\ CopyFrom(f, g) /\ Share(g)
  /\ out' = <<>> /\ UNCHANGED <<streamVars, kindVars, fault>>

\* operator=(const File&); an object assigned to itself is left alone.
CopyAssign(f, g) ==
  /\ Alive(f) /\ Alive(g) /\ f # g
  /\ Release(f)
  /\ CopyFrom(f, g) /\ Share(g)
  /\ UNCHANGED files

\* Faulty variant: the source of a move keeps its stream.
MoveConstructKeeps(f, g) ==
  /\ Free(f) /\ Alive(g)
  /\ files' = files \cup {f}
  /\ CopyFrom(f, g)
  /\ out' = <<>> /\ UNCHANGED <<streamVars, kindVars, fault, shared>>

\* File(File&&)
MoveConstruct(f, g) ==
  /\ Free(f) /\ Alive(g)
  /\ files' = files \cup {f}
  /\ TakeFrom(f, g)
  /\ out' = <<>> /\ UNCHANGED <<streamVars, kindVars, fault, shared>>

\* Faulty variant: the target does not release the stream it had.
MoveAssignNoRelease(f, g) ==
  /\ Alive(f) /\ Alive(g) /\ f # g
  /\ TakeFrom(f, g)
  /\ out' = <<>> /\ UNCHANGED <<streamVars, kindVars, files, fault, shared>>

\* operator=(File&&)
MoveAssign(f, g) ==
  /\ Alive(f) /\ Alive(g) /\ f # g
  /\ Release(f)
  /\ TakeFrom(f, g)
  /\ UNCHANGED <<files, shared>>

\* The client closes the stream it had lent, once no File refers to it.
ClientClose(s) ==
  /\ Running /\ s \in lent \cap open
  /\ \A f \in files : mFile[f] # s
  /\ Close(s)
  /\ out' = <<>> /\ UNCHANGED <<kindVars, fileVars, posVars, fault, shared>>

-----------------------------------------------------------------------------
(* Input and output through a File. *)

\* What every call below leaves alone.
Lives == <<open, kindVars, fileVars, fault, shared>>

\* f has a stream that is open.
Usable(f) == Alive(f) /\ mFile[f] # 0 /\ ~Dangles(f)

\* Any call below on a File whose stream another copy has closed.
UseClosed(f) ==
  /\ Alive(f) /\ Dangles(f)
  /\ fault' = mFile[f]
  /\ out' = <<>> /\ UNCHANGED <<streamVars, kindVars, fileVars, posVars, shared>>

\* At most n characters behind place r of the stream, its buffer included.
Ahead(s, r, n) ==
  IF Readable(s) THEN Piece(Flushed(s)[fp[s].path], r, n) ELSE <<>>

\* fseek to mReadPos, a read that gets the text got, ftell.
ReadAt(f, got, eof) ==
  LET s   == mFile[f]
      pos == mReadPos[f] + Len(got)
  IN  /\ disk' = Flushed(s)
      /\ fp' = [fp EXCEPT ![s] = [Sought(s, pos) EXCEPT !.eof = eof /\ Readable(s)]]
      /\ mReadPos' = [mReadPos EXCEPT ![f] = pos]
      /\ out' = got
      /\ UNCHANGED <<mWritePos, Lives>>

\* Faulty variant: fread goes on where the stream stands.
FreadNoSeek(f, n) ==
  /\ Usable(f)
  /\ LET got == Ahead(mFile[f], fp[mFile[f]].pos, n)
     IN  ReadAt(f, got, Len(got) < n)

Fread(f, n) ==
  /\ Usable(f)
  /\ LET got == Ahead(mFile[f], mReadPos[f], n)
     IN  ReadAt(f, got, Len(got) < n)

\* fgets with a buffer of n + 1.
Fgets(f, n) ==
  /\ Usable(f)
  /\ LET got == FirstLine(Ahead(mFile[f], mReadPos[f], n))
     IN  ReadAt(f, got, Len(got) < n /\ NL \notin Range(got))

\* FileUtil::readFile(File*, buffer): nothing once the stream is at its end.
ReadFile(f) ==
  /\ Usable(f)
  /\ IF fp[mFile[f]].eof
       THEN out' = <<>> /\ UNCHANGED <<disk, fp, posVars, Lives>>
       ELSE ReadAt(f, Ahead(mFile[f], mReadPos[f], MaxLen + 1), TRUE)

\* fseek to mWritePos and the text d written to the stream; ftell.
WriteAt(f, d, rest) ==
  LET s    == mFile[f]
      text == IF Writable(s) THEN d ELSE <<>>
      pos  == mWritePos[f] + Len(text)
  IN  /\ mWritePos[f] + Len(d) <= MaxLen
      /\ fp' = [fp EXCEPT ![s] =
                  [Sought(s, pos) EXCEPT !.buf = IF Writable(s) THEN rest ELSE <<>>]]
      /\ disk' = IF rest = <<>> /\ Writable(s)
                   THEN [Flushed(s) EXCEPT ![fp[s].path] = Overlay(@, pos - Len(d), d)]
                   ELSE Flushed(s)
      /\ mWritePos' = [mWritePos EXCEPT ![f] = pos]
      /\ out' = <<>> /\ UNCHANGED <<mReadPos, Lives>>

\* fwrite flushes the stream, fprintf leaves its text in the stream's buffer.
Fwrite(f, d) == Usable(f) /\ WriteAt(f, d, <<>>)
Fprintf(f, d) == Usable(f) /\ WriteAt(f, d, d)

\* size() goes to the end of the file and back.
Size(f) ==
  /\ Usable(f)
  /\ LET s == mFile[f]
     IN  disk' = Flushed(s) /\ fp' = [fp EXCEPT ![s] = Sought(s, fp[s].pos)]
  /\ out' = <<>> /\ UNCHANGED <<posVars, Lives>>

\* syncfile() is an fsync: what is in the stream's buffer stays there.
Syncfile(f) ==
  /\ Usable(f)
  /\ out' = <<>> /\ UNCHANGED <<disk, fp, posVars, Lives>>

ResetRead(f) ==
  /\ Alive(f)
  /\ mReadPos' = [mReadPos EXCEPT ![f] = 0]
  /\ out' = <<>> /\ UNCHANGED <<disk, fp, mWritePos, Lives>>

ResetWrite(f) ==
  /\ Alive(f)
  /\ mWritePos' = [mWritePos EXCEPT ![f] = 0]
  /\ out' = <<>> /\ UNCHANGED <<disk, fp, mReadPos, Lives>>

\* getOneLine: my_getline reads where the stream stands, whoever left it there,
\* and the line is given back only if its end is found.
GetOneLine(f) ==
  /\ Usable(f)
  /\ LET s   == mFile[f]
         got == FirstLine(Ahead(s, fp[s].pos, MaxLen))
     IN  IF Readable(s)
           THEN /\ disk' = Flushed(s)
                /\ fp' = [fp EXCEPT ![s].pos = @ + Len(got), ![s].buf = <<>>,
                                    ![s].eof = NL \notin Range(got)]
                /\ out' = IF NL \in Range(got) THEN got ELSE <<>>
           ELSE out' = <<>> /\ UNCHANGED <<disk, fp>>
  /\ UNCHANGED <<posVars, Lives>>

\* FileUtil::getFileSize(FILE*) on a stream the client has lent: the stream is
\* left at its beginning.
GetFileSize(s) ==
  /\ Running /\ s \in lent \cap open
  /\ disk' = Flushed(s) /\ fp' = [fp EXCEPT ![s] = Sought(s, 0)]
  /\ out' = <<>> /\ UNCHANGED <<posVars, Lives>>

-----------------------------------------------------------------------------
(* FileUtil, by path.  The two that write are used on files not open. *)

\* readFile(path, buffer) sees what the system has.
ReadPath(p) ==
  /\ Running
  /\ out' = Text(p)
  /\ UNCHANGED <<disk, fp, posVars, Lives>>

SaveFile(p, d) ==
  /\ Running /\ OpenStreams(p) = {}
  /\ disk' = [disk EXCEPT ![p] = d]
  /\ out' = <<>> /\ UNCHANGED <<fp, posVars, Lives>>

DelFile(p) ==
  /\ Running /\ OpenStreams(p) = {}
  /\ disk' = [disk EXCEPT ![p] = Absent]
  /\ out' = <<>> /\ UNCHANGED <<fp, posVars, Lives>>

Next ==
  \/ \E f \in Objs :
       \/ Construct(f) \/ Fclose(f) \/ Destroy(f) \/ UseClosed(f)
       \/ ReadFile(f) \/ Size(f) \/ Syncfile(f)
       \/ ResetRead(f) \/ ResetWrite(f) \/ GetOneLine(f)
       \/ \E p \in Paths :
            \/ Borrow(f, p)
            \/ \E m \in Modes :
                 OpenConstruct(f, p, m) \/ OpenConstructFails(f, p, m) \/ Fopen(f, p, m)
       \/ \E g \in Objs :
            \/ CopyConstruct(f, g) \/ CopyAssign(f, g)
            \/ MoveConstruct(f, g) \/ MoveAssign(f, g)
       \/ \E n \in 1 .. MaxLen : Fread(f, n) \/ Fgets(f, n)
       \/ \E d \in Data : Fwrite(f, d) \/ Fprintf(f, d)
  \/ \E s \in Streams : ClientClose(s) \/ GetFileSize(s)
  \/ \E p \in Paths :
       \/ ReadPath(p) \/ DelFile(p)
       \/ \E d \in Data : SaveFile(p, d)

Spec == Init /\ [][Next]_vars

-----------------------------------------------------------------------------
(* Properties. *)

\* A FILE* is closed at most once and never used after it is closed, unless a
\* File that was to close it had been copied: moves, assignments, borrowed
\* streams and any order of fopen, fclose and destructors keep to that.
ClosedOnce == fault # 0 => fault \in shared

\* A stream that a File has opened and is to close stays with a File that will
\* close it; only streams opened through a moved-from or released File are lost.
NoLeak ==
  \A s \in open \cap owned : \E f \in files \cap mNeedClosed : mFile[f] = s

\* The characters of a file, those in the buffer of its stream included.
Content(p) ==
  IF OpenStreams(p) = {} THEN Text(p)
  ELSE Flushed(CHOOSE s \in OpenStreams(p) : TRUE)[p]

\* What a File offers: nothing, no file, or two places in a file.
Cursor(f) ==
  IF f \notin files THEN NULL
  ELSE IF mFile[f] = 0 \/ Dangles(f) THEN Unbound
  ELSE [path |-> fp[mFile[f]].path, r |-> mReadPos[f], w |-> mWritePos[f]]

\* Every File reads and writes at a place of its own, whatever other Files do
\* with the stream they share with it, and text left in a stream's buffer by
\* fprintf is not lost: File implements CursorFile.
Cursors == INSTANCE CursorFile WITH
  content <- [p \in Paths |-> Content(p)],
  saved <- [p \in Paths |-> Text(p)],
  cur <- [f \in Objs |-> Cursor(f)]
ImplementsCursors == Cursors!Spec

\* No File and a File without a stream are no cursors.
ASSUME CursorAssumption == {NULL, Unbound} \cap Cursors!Cursors = {}

=============================================================================
