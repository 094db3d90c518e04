----------------------------- MODULE FileProofs ------------------------------
(***************************************************************************)
(* Who closes a stream (ClosedOnce, NoLeak) and what a File offers          *)
(* (ImplementsCursors), for any number of Files, paths and streams, whatever *)
(* is read and written.                                                     *)
(***************************************************************************)
EXTENDS File, SequenceTheorems, WellFoundedInduction, TLAPS

Types ==
  /\ files \subseteq Objs /\ mNeedClosed \subseteq Objs
  /\ mFile \in [Objs -> Nat]
  /\ opened \in Nat /\ fault \in Nat

\* The next stream is new.
Ids ==
  /\ open \subseteq 1 .. opened /\ owned \subseteq 1 .. opened
  /\ \A f \in Objs : mFile[f] \in 0 .. opened

\* Only a stream that a copy shares can be closed under a File.
Behind == \A f \in files : mFile[f] # 0 => mFile[f] \in open \cup shared

\* A stream that one of two Files is to close has been shared by a copy.
Sole ==
  \A f, g \in files :
    f # g /\ f \in mNeedClosed /\ mFile[f] = mFile[g] /\ mFile[f] # 0
      => mFile[f] \in shared

FileInv == Types /\ Ids /\ Behind /\ Sole /\ ClosedOnce /\ NoLeak

LEMMA InitInv == Init => FileInv
  BY DEF Init, FileInv, Types, Ids, Behind, Sole, ClosedOnce, NoLeak

\* What the invariant is about.
Owners == <<open, opened, owned, files, mFile, mNeedClosed, fault, shared>>

\* Reading and writing, through a File or by path, change no owner.
LEMMA InputOutput ==
  ASSUME NEW f \in Objs, NEW n, NEW d,
         \/ Fread(f, n) \/ Fgets(f, n) \/ ReadFile(f) \/ Fwrite(f, d) \/ Fprintf(f, d)
         \/ Size(f) \/ Syncfile(f) \/ ResetRead(f) \/ ResetWrite(f) \/ GetOneLine(f)
  PROVE  UNCHANGED Owners
  <1> USE DEF Owners, Lives, kindVars, fileVars
  <1>1. ASSUME NEW got, NEW eof, ReadAt(f, got, eof) PROVE UNCHANGED Owners
    BY <1>1, Zenon DEF ReadAt
  <1>2. ASSUME NEW rest, WriteAt(f, d, rest) PROVE UNCHANGED Owners
    BY <1>2, Zenon DEF WriteAt
  <1>3. CASE Fread(f, n) BY <1>1, <1>3, Zenon DEF Fread
  <1>4. CASE Fgets(f, n) BY <1>1, <1>4, Zenon DEF Fgets
  <1>5. CASE ReadFile(f) BY <1>1, <1>5, Zenon DEF ReadFile
  <1>6. CASE Fwrite(f, d) BY <1>2, <1>6, Zenon DEF Fwrite
  <1>7. CASE Fprintf(f, d) BY <1>2, <1>7, Zenon DEF Fprintf
  <1>8. CASE Size(f) BY <1>8, Zenon DEF Size
  <1>9. CASE ResetRead(f) BY <1>9, Zenon DEF ResetRead
  <1>10. CASE ResetWrite(f) BY <1>10, Zenon DEF ResetWrite
  <1>11. CASE GetOneLine(f) BY <1>11, Zenon DEF GetOneLine
  <1>12. CASE Syncfile(f) BY <1>12, Zenon DEF Syncfile
  <1> QED
    BY <1>3, <1>4, <1>5, <1>6, <1>7, <1>8, <1>9, <1>10, <1>11, <1>12

LEMMA ByPath ==
  ASSUME NEW p, NEW d, ReadPath(p) \/ SaveFile(p, d) \/ DelFile(p)
  PROVE  UNCHANGED Owners
  BY Zenon DEF ReadPath, SaveFile, DelFile, Owners, Lives, kindVars, fileVars

LEMMA SizeOfStream ==
  ASSUME NEW s, GetFileSize(s)
  PROVE  UNCHANGED Owners
  BY Zenon DEF GetFileSize, Owners, Lives, kindVars, fileVars

LEMMA OwnersKept == FileInv /\ UNCHANGED Owners => FileInv'
  BY DEF FileInv, Types, Ids, Behind, Sole, ClosedOnce, NoLeak, Owners

\* A File appears without a stream.
LEMMA ConstructStep ==
  ASSUME FileInv, NEW f \in Objs, Construct(f)
  PROVE  FileInv'
  <1> USE DEF FileInv, Construct, Become, Free, Running, streamVars, kindVars
  <1>1. Types' /\ Ids'
    BY DEF Types, Ids
  <1>2. Behind' /\ Sole'
    BY DEF Types, Behind, Sole
  <1>3. ClosedOnce' /\ NoLeak'
    BY DEF Types, ClosedOnce, NoLeak
  <1> QED
    BY <1>1, <1>2, <1>3

\* A File opens a stream, or is given one by a client.
LEMMA OpenStep ==
  ASSUME FileInv, NEW f \in Objs, NEW p, NEW m,
         OpenNext(p, m), mFile' = [mFile EXCEPT ![f] = opened'],
         \/ f \notin files \/ mFile[f] = 0,
         files' = files \cup {f}, mNeedClosed' \ {f} = mNeedClosed \ {f},
         mNeedClosed' \subseteq Objs,
         owned' \subseteq owned \cup {opened'},
         opened' \in owned' => f \in mNeedClosed',
         UNCHANGED <<fault, shared>>
  PROVE  FileInv'
  <1>0. opened' = opened + 1 /\ open' = open \cup {opened + 1} /\ opened + 1 \notin open
    BY DEF OpenNext, FileInv, Types, Ids
  <1>1. Types' /\ Ids'
    BY <1>0 DEF FileInv, Types, Ids
  <1>2. Behind' /\ Sole'
    BY <1>0 DEF FileInv, Types, Ids, Behind, Sole
  <1>3. ClosedOnce'
    BY DEF FileInv, ClosedOnce
  <1>4. NoLeak'
    BY <1>0 DEF FileInv, Types, Ids, NoLeak
  <1> QED
    BY <1>1, <1>2, <1>3, <1>4 DEF FileInv

\* A File lets its stream go: the stream is closed, or it was not to be, or the
\* call has failed on a stream that a copy has closed.
Released(f) ==
  /\ open' \subseteq open /\ opened' = opened /\ owned' = owned
  /\ fault' \in Nat /\ (fault' # 0 => fault' \in shared)
  /\ f \in mNeedClosed => mFile[f] \notin open'
  /\ \A s \in open \ {mFile[f]} : s \in open'
  /\ \A g \in files \ {f} : mFile[g] # 0 => mFile[g] \in open' \cup shared

LEMMA ReleaseStep ==
  ASSUME FileInv, NEW f \in files, Release(f)
  PROVE  Released(f)
  <1> USE DEF FileInv, Release, Close, Closes, Dangles, streamVars, kindVars, Released
  <1>1. f \in Objs /\ mFile[f] \in Nat /\ 0 \notin open
    BY DEF Types, Ids
  <1>2. CASE Closes(f) /\ ~Dangles(f)
    <2>1. open' = open \ {mFile[f]} /\ fault' = 0 /\ opened' = opened /\ owned' = owned
      BY <1>2
    <2>2. \A g \in files \ {f} : mFile[g] = mFile[f] => mFile[g] \in shared
      BY <1>2 DEF Sole
    <2> QED
      BY <1>1, <2>1, <2>2 DEF Behind, Types
  <1>3. CASE Closes(f) /\ Dangles(f)
    <2>1. open' = open /\ fault' = mFile[f] /\ opened' = opened /\ owned' = owned
      BY <1>3
    <2> QED
      BY <1>1, <1>3, <2>1 DEF Behind
  <1>4. CASE ~Closes(f)
    <2>1. open' = open /\ fault' = 0 /\ opened' = opened /\ owned' = owned
      BY <1>4
    <2> QED
      BY <1>1, <1>4, <2>1 DEF Behind
  <1> QED
    BY <1>2, <1>3, <1>4

\* fclose() and the destructor.
LEMMA EndStep ==
  ASSUME FileInv, NEW f \in Objs, Fclose(f) \/ Destroy(f)
  PROVE  FileInv'
  <1>0. f \in files /\ Release(f) /\ UNCHANGED shared
    BY DEF Fclose, Destroy, Alive
  <1>1. Released(f)
    BY <1>0, ReleaseStep
  <1>2. /\ files' \subseteq files /\ files \ {f} \subseteq files'
        /\ mFile' = [mFile EXCEPT ![f] = 0]
        /\ mNeedClosed' \ {f} = mNeedClosed \ {f} /\ mNeedClosed' \subseteq mNeedClosed \cup {f}
    BY DEF Fclose, Destroy, Become
  <1>3. Types' /\ Ids'
    BY <1>1, <1>2 DEF FileInv, Types, Ids, Released
  <1>4. Behind' /\ Sole'
    BY <1>0, <1>1, <1>2 DEF FileInv, Types, Behind, Sole, Released
  <1>5. ClosedOnce'
    BY <1>0, <1>1 DEF ClosedOnce, Released
  <1>6. NoLeak'
    BY <1>1, <1>2 DEF FileInv, Types, NoLeak, Released
  <1> QED
    BY <1>3, <1>4, <1>5, <1>6 DEF FileInv

\* f becomes a copy of g; before that it had no stream or has let it go.
LEMMA CopyStep ==
  ASSUME FileInv, NEW f \in Objs, NEW g \in files, f # g,
         f \in files => Released(f),
         f \notin files => UNCHANGED <<open, opened, owned, fault>>,
         files' = files \cup {f}, CopyFrom(f, g), Share(g)
  PROVE  FileInv'
  <1>1. /\ g \in Objs /\ mFile' = [mFile EXCEPT ![f] = mFile[g]]
        /\ mNeedClosed' = IF g \in mNeedClosed THEN mNeedClosed \cup {f} ELSE mNeedClosed \ {f}
        /\ shared \subseteq shared'
        /\ g \in mNeedClosed /\ mFile[g] # 0 => mFile[g] \in shared'
    BY DEF FileInv, Types, CopyFrom, Become, Share, Closes
  <1>2. /\ open' \subseteq open /\ opened' = opened /\ owned' = owned
        /\ fault' \in Nat /\ (fault' # 0 => fault' \in shared)
        /\ f \in files /\ f \in mNeedClosed => mFile[f] \notin open'
        /\ \A h \in files \ {f} : mFile[h] # 0 => mFile[h] \in open' \cup shared
    BY DEF FileInv, Types, Behind, ClosedOnce, Released
  <1>3. Types' /\ Ids'
    BY <1>1, <1>2 DEF FileInv, Types, Ids
  <1>4. Behind' /\ Sole'
    BY <1>1, <1>2 DEF FileInv, Types, Behind, Sole
  <1>5. ClosedOnce'
    BY <1>1, <1>2 DEF ClosedOnce
  <1>6. NoLeak'
    BY <1>1, <1>2 DEF FileInv, Types, NoLeak
  <1> QED
    BY <1>3, <1>4, <1>5, <1>6 DEF FileInv

\* f takes the stream of g.
LEMMA MoveStep ==
  ASSUME FileInv, NEW f \in Objs, NEW g \in files, f # g,
         f \in files => Released(f),
         f \notin files => UNCHANGED <<open, opened, owned, fault>>,
         files' = files \cup {f}, TakeFrom(f, g), UNCHANGED shared
  PROVE  FileInv'
  <1>1. /\ g \in Objs /\ mFile' = [mFile EXCEPT ![f] = mFile[g], ![g] = 0]
        /\ mNeedClosed' = (mNeedClosed \ {f, g}) \cup (IF g \in mNeedClosed THEN {f} ELSE {})
    BY DEF FileInv, Types, TakeFrom
  <1>2. /\ open' \subseteq open /\ opened' = opened /\ owned' = owned
        /\ fault' \in Nat /\ (fault' # 0 => fault' \in shared)
        /\ f \in files /\ f \in mNeedClosed => mFile[f] \notin open'
        /\ \A h \in files \ {f} : mFile[h] # 0 => mFile[h] \in open' \cup shared
    BY DEF FileInv, Types, Behind, ClosedOnce, Released
  <1>3. Types' /\ Ids'
    BY <1>1, <1>2 DEF FileInv, Types, Ids
  <1>4. Behind' /\ Sole'
    BY <1>1, <1>2 DEF FileInv, Types, Behind, Sole
  <1>5. ClosedOnce'
    BY <1>2 DEF ClosedOnce
  <1>6. NoLeak'
    BY <1>1, <1>2 DEF FileInv, Types, NoLeak
  <1> QED
    BY <1>3, <1>4, <1>5, <1>6 DEF FileInv

\* The client closes a stream it had lent.
LEMMA ClientCloseStep ==
  ASSUME FileInv, NEW s, ClientClose(s)
  PROVE  FileInv'
  <1>1. /\ open' = open \ {s} /\ \A f \in files : mFile[f] # s
        /\ UNCHANGED <<opened, owned, files, mFile, mNeedClosed, fault, shared>>
    BY DEF ClientClose, Close, kindVars, fileVars
  <1> QED
    BY <1>1 DEF FileInv, Types, Ids, Behind, Sole, ClosedOnce, NoLeak

\* A File uses a stream that is closed: a copy has closed it.
LEMMA UseClosedStep ==
  ASSUME FileInv, NEW f \in Objs, UseClosed(f)
  PROVE  FileInv'
  <1>1. /\ f \in files /\ mFile[f] # 0 /\ mFile[f] \notin open /\ fault' = mFile[f]
        /\ UNCHANGED <<open, opened, owned, files, mFile, mNeedClosed, shared>>
    BY DEF UseClosed, Alive, Dangles, streamVars, kindVars, fileVars
  <1> QED
    BY <1>1 DEF FileInv, Types, Ids, Behind, Sole, ClosedOnce, NoLeak

LEMMA StepKeepsInv ==
  ASSUME FileInv, [Next]_vars
  PROVE  FileInv'
  <1>1. ASSUME NEW f \in Objs,
               \/ Construct(f) \/ Fclose(f) \/ Destroy(f) \/ UseClosed(f)
               \/ \E p \in Paths, m \in Modes : OpenConstructFails(f, p, m)
        PROVE  FileInv'
    BY <1>1, ConstructStep, EndStep, UseClosedStep DEF OpenConstructFails
  <1>2. ASSUME NEW f \in Objs, NEW p \in Paths, Borrow(f, p)
        PROVE  FileInv'
    <2>1. /\ OpenNext(p, "r+") /\ f \notin files /\ files' = files \cup {f}
          /\ mFile' = [mFile EXCEPT ![f] = opened'] /\ mNeedClosed' = mNeedClosed \ {f}
          /\ UNCHANGED <<owned, fault, shared>>
      BY <1>2 DEF Borrow, Free, Become
    <2>2. opened' \notin owned /\ mNeedClosed \subseteq Objs
      BY <2>1 DEF FileInv, Types, Ids, OpenNext
    <2> QED
      BY <2>1, <2>2, OpenStep
  <1>3. ASSUME NEW f \in Objs, NEW p \in Paths, NEW m \in Modes, OpenConstruct(f, p, m)
        PROVE  FileInv'
    BY <1>3, OpenStep DEF OpenConstruct, OpenIn, Free, Become, FileInv, Types
  <1>4. ASSUME NEW f \in Objs, NEW p \in Paths, NEW m \in Modes, Fopen(f, p, m)
        PROVE  FileInv'
    <2>1. /\ OpenNext(p, m) /\ f \in files /\ mFile[f] = 0
          /\ mFile' = [mFile EXCEPT ![f] = opened']
          /\ owned' = IF f \in mNeedClosed THEN owned \cup {opened'} ELSE owned
          /\ UNCHANGED <<files, mNeedClosed, fault, shared>>
      BY <1>4 DEF Fopen, OpenIn, Alive
    <2>2. opened' \notin owned /\ mNeedClosed \subseteq Objs
      BY <2>1 DEF FileInv, Types, Ids, OpenNext
    <2>3. files' = files \cup {f} /\ (opened' \in owned' => f \in mNeedClosed')
      BY <2>1, <2>2
    <2> QED
      BY <2>1, <2>2, <2>3, OpenStep
  <1>5. ASSUME NEW f \in Objs, NEW g \in Objs, CopyConstruct(f, g) \/ CopyAssign(f, g)
        PROVE  FileInv'
    BY <1>5, CopyStep, ReleaseStep
       DEF CopyConstruct, CopyAssign, Free, Alive, streamVars, kindVars
  <1>6. ASSUME NEW f \in Objs, NEW g \in Objs, MoveConstruct(f, g) \/ MoveAssign(f, g)
        PROVE  FileInv'
    BY <1>6, MoveStep, ReleaseStep
       DEF MoveConstruct, MoveAssign, Free, Alive, streamVars, kindVars
  <1>7. ASSUME NEW s, ClientClose(s) \/ GetFileSize(s)
        PROVE  FileInv'
    BY <1>7, ClientCloseStep, SizeOfStream, OwnersKept
  <1>8. ASSUME NEW f \in Objs, NEW n, NEW d,
               \/ Fread(f, n) \/ Fgets(f, n) \/ ReadFile(f) \/ Fwrite(f, d) \/ Fprintf(f, d)
               \/ Size(f) \/ Syncfile(f) \/ ResetRead(f) \/ ResetWrite(f) \/ GetOneLine(f)
        PROVE  FileInv'
    BY <1>8, InputOutput, OwnersKept
  <1>9. ASSUME NEW p, NEW d, ReadPath(p) \/ SaveFile(p, d) \/ DelFile(p)
        PROVE  FileInv'
    BY <1>9, ByPath, OwnersKept
  <1>10. CASE UNCHANGED vars
    BY <1>10, OwnersKept DEF vars, streamVars, kindVars, fileVars, Owners
  <1> QED
    BY <1>1, <1>2, <1>3, <1>4, <1>5, <1>6, <1>7, <1>8, <1>9, <1>10 DEF Next

\* The inductive invariant: no File refers to a closed stream, and no two to
\* one that either is to close, except for streams shared by copies.
THEOREM Ownership == Spec => []FileInv
  BY InitInv, StepKeepsInv, PTL DEF Spec

\* A stream is closed twice, or used after it was closed, only if a File that
\* closes it was copied: the moves, assignments, fclose and the destructor of
\* File never do it by themselves.
THEOREM NoDoubleClose == Spec => []ClosedOnce
  <1>1. FileInv => ClosedOnce
    BY DEF FileInv
  <1> QED
    BY <1>1, Ownership, PTL

\* Every open stream that a File is to close is held by a File that closes it,
\* through any sequence of fopen, copies, moves, assignments and destructors.
THEOREM StreamsKept == Spec => []NoLeak
  <1>1. FileInv => NoLeak
    BY DEF FileInv
  <1> QED
    BY <1>1, Ownership, PTL

-----------------------------------------------------------------------------
(* Pieces of a text *)

AllTexts == {c \in Seq(Chars) : Len(c) <= MaxLen}

\* SeqOf has the texts up to a length.
LEMMA TextsAre ==
  ASSUME NEW S, NEW n \in Nat
  PROVE  SeqOf(S, n) = {c \in Seq(S) : Len(c) <= n}
  <1>1. ASSUME NEW c \in SeqOf(S, n) PROVE c \in Seq(S) /\ Len(c) <= n
    <2>1. PICK m \in 0 .. n : c \in [1 .. m -> S]
      BY <1>1 DEF SeqOf
    <2> QED
      BY <2>1
  <1>2. ASSUME NEW c \in Seq(S), Len(c) <= n PROVE c \in SeqOf(S, n)
    <2>1. c \in [1 .. Len(c) -> S] /\ Len(c) \in 0 .. n
      BY <1>2
    <2> QED
      BY <2>1 DEF SeqOf
  <1> QED
    BY <1>1, <1>2

LEMMA MinPair ==
  ASSUME NEW a \in Int, NEW b \in Int
  PROVE  Min({a, b}) = IF a <= b THEN a ELSE b
  BY DEF Min

LEMMA MaxPair ==
  ASSUME NEW a \in Int, NEW b \in Int
  PROVE  Max({a, b}) = IF a >= b THEN a ELSE b
  BY DEF Max

\* What a piece of a text is.
LEMMA PieceFacts ==
  ASSUME NEW c \in AllTexts, NEW r \in Nat, NEW n \in Nat
  PROVE  /\ Piece(c, r, n) \in Seq(Chars)
         /\ Len(Piece(c, r, n)) = IF r >= Len(c) THEN 0 ELSE IF Len(c) - r <= n THEN Len(c) - r ELSE n
         /\ \A i \in 1 .. Len(Piece(c, r, n)) : Piece(c, r, n)[i] = c[r + i]
  <1> DEFINE e == IF Len(c) <= r + n THEN Len(c) ELSE r + n
  <1>1. c \in Seq(Chars) /\ Len(c) \in Nat
    BY DEF AllTexts
  <1>2. Piece(c, r, n) = SubSeq(c, r + 1, e) /\ e \in Nat /\ e <= Len(c)
    BY <1>1, MinPair DEF Piece
  <1>3. \A i \in r + 1 .. e : c[i] \in Chars
    BY <1>1, <1>2
  <1>4. /\ SubSeq(c, r + 1, e) \in Seq(Chars)
        /\ Len(SubSeq(c, r + 1, e)) = IF r + 1 <= e THEN e - (r + 1) + 1 ELSE 0
        /\ \A i \in 1 .. e - (r + 1) + 1 : SubSeq(c, r + 1, e)[i] = c[(r + 1) + i - 1]
    <2>1. r + 1 \in Int /\ e \in Int
      BY <1>2
    <2> HIDE DEF e
    <2> QED
      BY <1>3, <2>1, SubSeqProperties
  <1> QED
    BY <1>1, <1>2, <1>4

\* Two pieces from the same place that have the same length are the same.
LEMMA SamePiece ==
  ASSUME NEW c \in AllTexts, NEW r \in Nat, NEW n \in Nat, NEW m \in Nat,
         Len(Piece(c, r, n)) = Len(Piece(c, r, m))
  PROVE  Piece(c, r, n) = Piece(c, r, m)
  <1>1. /\ Piece(c, r, n) \in Seq(Chars)
        /\ \A i \in 1 .. Len(Piece(c, r, n)) : Piece(c, r, n)[i] = c[r + i]
    BY PieceFacts
  <1>2. /\ Piece(c, r, m) \in Seq(Chars)
        /\ \A i \in 1 .. Len(Piece(c, r, m)) : Piece(c, r, m)[i] = c[r + i]
    BY PieceFacts
  <1> QED
    BY <1>1, <1>2

Less == {p \in Nat \X Nat : p[1] < p[2]}

\* A set of natural numbers has a least one.
LEMMA Least ==
  ASSUME NEW T \in SUBSET Nat, T # {}
  PROVE  Min(T) \in T
  <1>1. IsWellFoundedOn(OpToRel(<, Nat), Nat)
    BY NatLessThanWellFounded, Zenon
  <1>2. OpToRel(<, Nat) = Less
    BY Zenon DEF OpToRel, Less
  <1>3. IsWellFoundedOn(Less, Nat)
    BY <1>1, <1>2, Zenon
  <1>4. PICK x \in T : \A y \in T : ~(<<y, x>> \in Less)
    BY <1>3, WFMin
  <1>5. ASSUME NEW y \in T PROVE x <= y
    <2>1. <<y, x>> \in Nat \X Nat /\ <<y, x>>[1] = y /\ <<y, x>>[2] = x
      OBVIOUS
    <2>2. ~(y < x)
      BY <1>4, <2>1, Zenon DEF Less
    <2> QED
      BY <2>2
  <1> QED
    BY <1>5 DEF Min

\* The first line of a piece is a shorter piece.
LEMMA FirstLinePiece ==
  ASSUME NEW c \in AllTexts, NEW r \in Nat, NEW n \in Nat
  PROVE  \E m \in 0 .. n : FirstLine(Piece(c, r, n)) = Piece(c, r, m)
  <1> DEFINE d == Piece(c, r, n)
             ends == {i \in DOMAIN d : d[i] = NL}
  <1>0. /\ d \in Seq(Chars) /\ Len(c) \in Nat
        /\ Len(d) = IF r >= Len(c) THEN 0 ELSE IF Len(c) - r <= n THEN Len(c) - r ELSE n
        /\ \A i \in 1 .. Len(d) : d[i] = c[r + i]
    <2>1. Len(c) \in Nat
      BY DEF AllTexts
    <2> QED
      BY <2>1, PieceFacts
  <1>1. d \in Seq(Chars) /\ Len(d) <= n /\ (r < Len(c) => Len(d) <= Len(c) - r)
        /\ (r >= Len(c) => Len(d) = 0) /\ Len(d) \in Nat
    <2> HIDE DEF d
    <2> QED
      BY <1>0
  <1>2. CASE ends = {}
    BY <1>2 DEF FirstLine
  <1>3. CASE ends # {}
    <2>1. ends \subseteq 1 .. Len(d)
      BY <1>1
    <2>2. Min(ends) \in ends
      <3>0. ends \subseteq Nat
        BY <2>1
      <3>1. PICK T \in SUBSET Nat : T = ends
        <4> HIDE DEF ends
        <4> QED
          BY <3>0
      <3> QED
        BY <1>3, <3>1, Least
    <2>3. PICK m \in 1 .. Len(d) : m = Min(ends)
      BY <2>1, <2>2
    <2>4. FirstLine(d) = SubSeq(d, 1, m)
      BY <1>3, <2>3 DEF FirstLine
    <2>5. /\ SubSeq(d, 1, m) \in Seq(Chars) /\ Len(SubSeq(d, 1, m)) = m
          /\ \A i \in 1 .. m : SubSeq(d, 1, m)[i] = d[i]
      <3> HIDE DEF d
      <3> QED
        BY <1>1
    <2>6. /\ Piece(c, r, m) \in Seq(Chars) /\ Len(Piece(c, r, m)) = m
          /\ \A i \in 1 .. m : Piece(c, r, m)[i] = c[r + i]
      <3>1. /\ Piece(c, r, m) \in Seq(Chars)
            /\ Len(Piece(c, r, m)) = IF r >= Len(c) THEN 0 ELSE IF Len(c) - r <= m THEN Len(c) - r ELSE m
            /\ \A i \in 1 .. Len(Piece(c, r, m)) : Piece(c, r, m)[i] = c[r + i]
        <4>1. m \in Nat
          BY <1>1
        <4> QED
          BY <4>1, PieceFacts
      <3>2. r < Len(c) /\ m <= Len(c) - r
        <4> HIDE DEF d
        <4> QED
          BY <1>0, <1>1
      <3>3. m \in Nat /\ Len(c) \in Nat
        BY <1>0, <1>1
      <3>4. Len(Piece(c, r, m)) = m
        BY <3>1, <3>2, <3>3
      <3> QED
        BY <3>1, <3>4
    <2>7. \A i \in 1 .. m : d[i] = c[r + i]
      <3> HIDE DEF d
      <3> QED
        BY <1>0, <1>1
    <2>8. SubSeq(d, 1, m) = Piece(c, r, m)
      <3>1. PICK x \in Seq(Chars) : x = SubSeq(d, 1, m)
        BY <2>5
      <3>2. PICK y \in Seq(Chars) : y = Piece(c, r, m)
        BY <2>6
      <3>3. Len(x) = Len(y) /\ Len(x) = m
        BY <2>5, <2>6, <3>1, <3>2
      <3>4. \A i \in 1 .. m : x[i] = y[i]
        <4> SUFFICES ASSUME NEW i \in 1 .. m PROVE x[i] = y[i]
          OBVIOUS
        <4>1. x[i] = d[i] /\ y[i] = c[r + i] /\ d[i] = c[r + i]
          BY <2>5, <2>6, <2>7, <3>1, <3>2
        <4> QED
          BY <4>1
      <3>5. x = y
        BY <3>3, <3>4, SeqEqual
      <3> QED
        BY <3>1, <3>2, <3>5
    <2> QED
      BY <1>1, <2>4, <2>8
  <1> QED
    BY <1>2, <1>3

\* Writing over a text, not behind its end, gives a text.
LEMMA OverlayFacts ==
  ASSUME NEW c \in AllTexts, NEW w \in 0 .. Len(c), NEW d \in Seq(Chars), w + Len(d) <= MaxLen
  PROVE  /\ Overlay(c, w, d) \in AllTexts
         /\ Len(Overlay(c, w, d)) >= Len(c)
         /\ Len(Overlay(c, w, d)) >= w + Len(d)
  <1> DEFINE n == IF Len(c) >= w + Len(d) THEN Len(c) ELSE w + Len(d)
  <1>1. c \in Seq(Chars) /\ Len(c) \in Nat /\ Len(c) <= MaxLen /\ Len(d) \in Nat /\ n \in Nat
    BY DEF AllTexts
  <1>2. Overlay(c, w, d) = [i \in 1 .. n |->
           IF i \in w + 1 .. w + Len(d) THEN d[i - w] ELSE c[i]]
    BY <1>1, MaxPair DEF Overlay
  <1>3. \A i \in 1 .. n : (IF i \in w + 1 .. w + Len(d) THEN d[i - w] ELSE c[i]) \in Chars
    BY <1>1
  <1>4. Overlay(c, w, d) \in [1 .. n -> Chars]
    BY <1>2, <1>3
  <1>5. Overlay(c, w, d) \in Seq(Chars) /\ Len(Overlay(c, w, d)) = n
    BY <1>1, <1>4
  <1> QED
    BY <1>1, <1>5, FileAssumption DEF AllTexts

-----------------------------------------------------------------------------
(* Streams and the disk *)

StreamRecs == [path : Paths, mode : {"r", "r+", "w"}, pos : 0 .. MaxLen,
               eof : BOOLEAN, buf : Seq(Chars)]

\* A stream in the state k over a file with the text c: what is in its buffer was
\* written through it, and not behind the end of c.
Fits(k, c) ==
  /\ c \in AllTexts
  /\ k.buf # <<>> => /\ k.mode # "r" /\ Len(k.buf) <= k.pos
                     /\ k.pos - Len(k.buf) <= Len(c)

\* The text of the file with the buffer in it.
Merged(k, c) == IF k.buf = <<>> THEN c ELSE Overlay(c, k.pos - Len(k.buf), k.buf)

\* A file is open for writing through one stream only: without that a buffer could
\* be written over a text that another stream has changed.
StreamInv ==
  /\ disk \in [Paths -> AllTexts \cup {Absent}]
  /\ fp \in [1 .. MaxStreams -> StreamRecs \cup {NULL}]
  /\ open \subseteq 1 .. opened /\ opened \in 0 .. MaxStreams
  /\ \A s \in open : fp[s] \in StreamRecs /\ Fits(fp[s], disk[fp[s].path])
  /\ \A s, u \in open : s # u /\ fp[s].path = fp[u].path => fp[s].mode = "r" /\ fp[u].mode = "r"

\* A file that is not there has no text.
LEMMA AbsentIsNoText == Absent \notin AllTexts
  BY AbsentAssumption, TextsAre, FileAssumption DEF Texts, AllTexts

\* A stream's buffer can be written out, whatever is in it.
LEMMA MergedFacts ==
  ASSUME NEW k \in StreamRecs, NEW c, Fits(k, c)
  PROVE  /\ Merged(k, c) \in AllTexts /\ Len(Merged(k, c)) >= Len(c)
         /\ k.mode = "r" => Merged(k, c) = c
  <1>1. c \in AllTexts /\ Len(c) \in Nat /\ k.buf \in Seq(Chars) /\ k.pos \in 0 .. MaxLen
    BY DEF Fits, AllTexts, StreamRecs
  <1>2. CASE k.buf = <<>>
    BY <1>1, <1>2 DEF Merged
  <1>3. CASE k.buf # <<>>
    <2>1. k.pos - Len(k.buf) \in 0 .. Len(c) /\ (k.pos - Len(k.buf)) + Len(k.buf) <= MaxLen
      BY <1>1, <1>3 DEF Fits
    <2>2. k.mode # "r"
      BY <1>3 DEF Fits
    <2> QED
      BY <1>1, <1>3, <2>1, <2>2, OverlayFacts DEF Merged
  <1> QED
    BY <1>2, <1>3

\* What an open stream shows of its file, whatever other streams are open.
LEMMA OpenContent ==
  ASSUME StreamInv, NEW s \in open, NEW p \in Paths, fp[s].path = p
  PROVE  /\ fp[s] \in StreamRecs /\ Fits(fp[s], disk[p]) /\ disk[p] \in AllTexts
         /\ Flushed(s) = [disk EXCEPT ![p] = Merged(fp[s], disk[p])]
         /\ Content(p) = Merged(fp[s], disk[p])
         /\ Text(p) = disk[p]
  <1>1. /\ fp[s] \in StreamRecs /\ Fits(fp[s], disk[p]) /\ disk[p] \in AllTexts
        /\ disk \in [Paths -> AllTexts \cup {Absent}]
    BY DEF StreamInv, Fits
  <1>2. ASSUME NEW u \in open, fp[u].path = p
        PROVE  /\ Flushed(u) = [disk EXCEPT ![p] = Merged(fp[u], disk[p])]
               /\ Flushed(u)[p] = Merged(fp[u], disk[p])
    BY <1>1, <1>2 DEF Flushed, Merged
  <1>3. ASSUME NEW u \in open, fp[u].path = p
        PROVE  Merged(fp[u], disk[p]) = Merged(fp[s], disk[p])
    <2>1. CASE u = s
      BY <2>1
    <2>2. CASE u # s
      <3>1. fp[u] \in StreamRecs /\ Fits(fp[u], disk[p]) /\ fp[u].mode = "r" /\ fp[s].mode = "r"
        BY <1>3, <2>2 DEF StreamInv
      <3> QED
        BY <1>1, <3>1, MergedFacts
    <2> QED
      BY <2>1, <2>2
  <1>4. PICK u \in OpenStreams(p) : u = CHOOSE x \in OpenStreams(p) : TRUE
    BY DEF OpenStreams
  <1>5. u \in open /\ fp[u].path = p /\ OpenStreams(p) # {}
    BY <1>4 DEF OpenStreams
  <1>6. Content(p) = Flushed(u)[p]
    BY <1>4, <1>5 DEF Content
  <1>7. Text(p) = disk[p]
    BY <1>1, AbsentIsNoText DEF Text
  <1> QED
    BY <1>1, <1>2, <1>3, <1>5, <1>6, <1>7

\* A file that is not open is what the disk has.
LEMMA ClosedContent ==
  ASSUME NEW p, \A s \in open : fp[s].path # p
  PROVE  Content(p) = Text(p) /\ OpenStreams(p) = {}
  BY DEF Content, OpenStreams

\* Every file has a text.
LEMMA ContentIsText ==
  ASSUME StreamInv, NEW p \in Paths
  PROVE  Content(p) \in AllTexts /\ Text(p) \in AllTexts
  <1>1. Text(p) \in AllTexts
    <2>1. <<>> \in AllTexts
      BY FileAssumption DEF AllTexts
    <2>2. disk[p] \in AllTexts \cup {Absent}
      BY DEF StreamInv
    <2> QED
      BY <2>1, <2>2 DEF Text
  <1>2. CASE \A s \in open : fp[s].path # p
    BY <1>1, <1>2, ClosedContent
  <1>3. ASSUME NEW s \in open, fp[s].path = p
        PROVE  Content(p) \in AllTexts
    BY <1>3, OpenContent, MergedFacts
  <1> QED
    BY <1>1, <1>2, <1>3

\* The last three lemmas as one formula, before and after a step.
ContentRead ==
  StreamInv => \A p \in Paths :
    /\ Content(p) \in AllTexts /\ Text(p) \in AllTexts
    /\ \/ \E s \in open : fp[s].path = p
       \/ Content(p) = Text(p)
    /\ \A s \in open : fp[s].path = p => /\ Content(p) = Merged(fp[s], disk[p])
                                         /\ Text(p) = disk[p]

LEMMA ContentIs == ContentRead
  BY OpenContent, ClosedContent, ContentIsText DEF ContentRead

LEMMA ContentIsAfter == ContentRead'
  BY ContentIs, PTL

\* A file whose streams and text on the disk stay as they are.
LEMMA SameContent ==
  ASSUME NEW p \in Paths, disk'[p] = disk[p], OpenStreams(p)' = OpenStreams(p),
         StreamInv, StreamInv', \A s \in OpenStreams(p) : fp'[s] = fp[s]
  PROVE  Content(p)' = Content(p) /\ Text(p)' = Text(p)
  <1>1. Text(p)' = Text(p)
    BY DEF Text
  <1>2. CASE OpenStreams(p) = {}
    BY <1>1, <1>2 DEF Content
  <1>3. ASSUME NEW s \in OpenStreams(p)
        PROVE  Content(p)' = Content(p)
    <2>1. s \in open /\ fp[s].path = p /\ s \in open' /\ fp'[s].path = p /\ fp'[s] = fp[s]
      BY <1>3 DEF OpenStreams
    <2> QED
      BY <2>1, ContentIs, ContentIsAfter DEF ContentRead
  <1> QED
    BY <1>1, <1>2, <1>3

\* What a step shows of the other files and streams.
OthersKept(p) ==
  /\ \A o \in Paths \ {p} : Content(o)' = Content(o) /\ Text(o)' = Text(o)
  /\ \A s \in open : fp'[s].path = fp[s].path

\* The file p comes to have the text x, and y of it on the disk.
Shows(p, x, y) == Content(p)' = x /\ Text(p)' = y

\* The stream s of the file p comes to the state k and the file gets the text c on
\* the disk; s may be closed.
LEMMA StreamStep ==
  ASSUME StreamInv, NEW s \in open, NEW p \in Paths, fp[s].path = p,
         NEW k \in StreamRecs, k.path = p, k.mode = fp[s].mode,
         NEW c, Fits(k, c), k.mode = "r" => c = disk[p],
         fp' = [fp EXCEPT ![s] = k], disk' = [disk EXCEPT ![p] = c], opened' = opened,
         open' = open \/ (open' = open \ {s} /\ k.buf = <<>>)
  PROVE  StreamInv' /\ OthersKept(p) /\ Shows(p, Merged(k, c), c)
  <1>1. /\ c \in AllTexts /\ s \in 1 .. MaxStreams /\ fp[s] \in StreamRecs
        /\ fp \in [1 .. MaxStreams -> StreamRecs \cup {NULL}]
        /\ disk \in [Paths -> AllTexts \cup {Absent}]
    BY FileAssumption DEF StreamInv, Fits
  <1>2. /\ fp'[s] = k /\ disk'[p] = c /\ open' \subseteq open
        /\ \A u \in open \ {s} : fp'[u] = fp[u]
        /\ \A o \in Paths \ {p} : disk'[o] = disk[o]
    BY <1>1 DEF StreamInv
  <1>3. ASSUME NEW u \in open \ {s}, fp[u].path = p
        PROVE  k.mode = "r" /\ fp[u].mode = "r" /\ c = disk[p]
    BY <1>3 DEF StreamInv
  <1>4. StreamInv'
    <2>1. /\ disk' \in [Paths -> AllTexts \cup {Absent}]
          /\ fp' \in [1 .. MaxStreams -> StreamRecs \cup {NULL}]
          /\ open' \subseteq 1 .. opened' /\ opened' \in 0 .. MaxStreams
      BY <1>1, <1>2 DEF StreamInv
    <2>2. ASSUME NEW u \in open \ {s}
          PROVE  fp'[u] \in StreamRecs /\ Fits(fp'[u], disk'[fp'[u].path])
      <3>1. fp[u] \in StreamRecs /\ Fits(fp[u], disk[fp[u].path]) /\ fp[u].path \in Paths
        BY <2>2 DEF StreamInv, StreamRecs
      <3>2. disk'[fp[u].path] = disk[fp[u].path]
        BY <1>2, <1>3, <2>2, <3>1
      <3> QED
        BY <1>2, <3>1, <3>2
    <2>3. \A u \in open' : fp'[u] \in StreamRecs /\ Fits(fp'[u], disk'[fp'[u].path])
      BY <1>2, <2>2
    <2>4. \A u \in open : fp'[u].path = fp[u].path /\ fp'[u].mode = fp[u].mode
      BY <1>2
    <2>5. \A x, u \in open' : x # u /\ fp'[x].path = fp'[u].path
                                => fp'[x].mode = "r" /\ fp'[u].mode = "r"
      BY <1>2, <2>4 DEF StreamInv
    <2> QED
      BY <2>1, <2>3, <2>5 DEF StreamInv
  <1>5. OthersKept(p)
    <2>1. ASSUME NEW o \in Paths \ {p}
          PROVE  Content(o)' = Content(o) /\ Text(o)' = Text(o)
      <3>1. OpenStreams(o)' = OpenStreams(o) /\ \A u \in OpenStreams(o) : fp'[u] = fp[u]
        BY <1>2 DEF OpenStreams
      <3> QED
        BY <1>2, <1>4, <3>1, SameContent
    <2> QED
      BY <1>2, <2>1 DEF OthersKept
  <1>6. Text(p)' = c
    BY <1>1, <1>2, AbsentIsNoText DEF Text
  <1>7. ASSUME s \in open' PROVE Content(p)' = Merged(k, c)
    BY <1>2, <1>4, <1>6, <1>7, ContentIsAfter DEF ContentRead
  <1>8. ASSUME s \notin open' PROVE Content(p)' = Merged(k, c)
    <2>1. Merged(k, c) = c
      BY <1>8 DEF Merged
    <2>2. CASE \A u \in open' : fp'[u].path # p
      BY <1>4, <1>6, <2>1, <2>2, ContentIsAfter DEF ContentRead
    <2>3. ASSUME NEW u \in open', fp'[u].path = p
          PROVE  Content(p)' = c
      <3>1. u \in open \ {s} /\ fp[u].path = p /\ fp'[u] = fp[u]
        BY <1>2, <1>8, <2>3
      <3>2. fp[u].mode = "r" /\ fp[u] \in StreamRecs /\ Fits(fp[u], c)
        BY <1>2, <1>3, <3>1 DEF StreamInv
      <3>3. Content(p)' = Merged(fp[u], c)
        BY <1>2, <1>4, <2>3, <3>1, ContentIsAfter DEF ContentRead
      <3> QED
        BY <3>2, <3>3, MergedFacts
    <2> QED
      BY <2>1, <2>2, <2>3
  <1> QED
    BY <1>4, <1>5, <1>6, <1>7, <1>8 DEF Shows

\* The buffer is written out and the stream, which may be closed by this, comes to
\* the place n.
LEMMA FlushStep ==
  ASSUME StreamInv, NEW s \in open, NEW p \in Paths, fp[s].path = p,
         NEW k \in StreamRecs, k.path = p, k.mode = fp[s].mode, k.buf = <<>>,
         fp' = [fp EXCEPT ![s] = k], disk' = Flushed(s), opened' = opened,
         open' = open \/ open' = open \ {s}
  PROVE  StreamInv' /\ OthersKept(p) /\ Shows(p, Content(p), Content(p))
  <1>0. PICK c : c = Merged(fp[s], disk[p])
    OBVIOUS
  <1>1. /\ fp[s] \in StreamRecs /\ Fits(fp[s], disk[p])
        /\ Flushed(s) = [disk EXCEPT ![p] = c] /\ Content(p) = c
    BY <1>0, OpenContent
  <1>2. c \in AllTexts /\ (fp[s].mode = "r" => c = disk[p])
    BY <1>0, <1>1, MergedFacts
  <1>3. Fits(k, c) /\ Merged(k, c) = c
    BY <1>2 DEF Fits, Merged
  <1>4. /\ disk' = [disk EXCEPT ![p] = c] /\ (k.mode = "r" => c = disk[p])
        /\ open' = open \/ (open' = open \ {s} /\ k.buf = <<>>)
    BY <1>1, <1>2
  <1>5. StreamInv' /\ OthersKept(p) /\ Shows(p, Merged(k, c), c)
    BY <1>3, <1>4, StreamStep
  <1> QED
    BY <1>1, <1>3, <1>5

\* A stream is opened.
LEMMA OpenFileStep ==
  ASSUME StreamInv, NEW p \in Paths, NEW m \in {"r", "r+", "w"},
         OpenNext(p, m), RoomFor(p, m), CanOpen(p, m)
  PROVE  /\ StreamInv' /\ OthersKept(p) /\ fp'[opened + 1].path = p
         /\ IF m = "w" THEN Shows(p, <<>>, <<>>) ELSE Shows(p, Content(p), Text(p))
  <1>0. PICK k : k = [path |-> p, mode |-> m, pos |-> 0, eof |-> FALSE, buf |-> <<>>]
    OBVIOUS
  <1>1. PICK c : c = IF m = "w" THEN <<>> ELSE disk[p]
    OBVIOUS
  <1>2. /\ k \in StreamRecs /\ k.path = p /\ k.mode = m /\ k.buf = <<>>
        /\ opened + 1 \in 1 .. MaxStreams /\ opened \in Nat /\ opened + 1 \notin open
        /\ fp \in [1 .. MaxStreams -> StreamRecs \cup {NULL}]
        /\ disk \in [Paths -> AllTexts \cup {Absent}]
    <2>1. MaxStreams \in Nat /\ MaxLen \in Nat /\ opened \in 0 .. MaxStreams /\ opened < MaxStreams
          /\ open \subseteq 1 .. opened
      BY FileAssumption DEF RoomFor, StreamInv
    <2> QED
      BY <1>0, <2>1 DEF StreamInv, StreamRecs
  <1>3. c \in AllTexts
    <2>1. <<>> \in AllTexts
      BY FileAssumption DEF AllTexts
    <2> QED
      BY <1>1, <1>2, <2>1 DEF CanOpen
  <1>4. /\ fp'[opened + 1] = k /\ disk'[p] = c
        /\ opened' = opened + 1 /\ open' = open \cup {opened + 1}
        /\ \A u \in open : fp'[u] = fp[u]
        /\ \A o \in Paths \ {p} : disk'[o] = disk[o]
        /\ disk' \in [Paths -> AllTexts \cup {Absent}]
        /\ fp' \in [1 .. MaxStreams -> StreamRecs \cup {NULL}]
    <2>1. /\ fp' = [fp EXCEPT ![opened + 1] = k] /\ opened' = opened + 1
          /\ open' = open \cup {opened + 1}
          /\ disk' = IF m = "w" THEN [disk EXCEPT ![p] = <<>>] ELSE disk
      BY <1>0 DEF OpenNext
    <2> QED
      BY <1>1, <1>2, <1>3, <2>1
  <1>5. ASSUME NEW u \in open, fp[u].path = p
        PROVE  m = "r" /\ fp[u].mode = "r"
    BY <1>5 DEF RoomFor, OpenStreams
  <1>6. Fits(k, c)
    BY <1>2, <1>3 DEF Fits
  <1>7. StreamInv'
    <2>1. \A u \in open : fp'[u] \in StreamRecs /\ Fits(fp'[u], disk'[fp'[u].path])
      <3> SUFFICES ASSUME NEW u \in open
                   PROVE  fp'[u] \in StreamRecs /\ Fits(fp'[u], disk'[fp'[u].path])
        OBVIOUS
      <3>1. fp[u] \in StreamRecs /\ Fits(fp[u], disk[fp[u].path]) /\ fp[u].path \in Paths
        BY DEF StreamInv, StreamRecs
      <3>2. disk'[fp[u].path] = disk[fp[u].path]
        BY <1>1, <1>4, <1>5, <3>1
      <3> QED
        BY <1>4, <3>1, <3>2
    <2>2. \A u \in open' : fp'[u] \in StreamRecs /\ Fits(fp'[u], disk'[fp'[u].path])
      BY <1>2, <1>4, <1>6, <2>1
    <2>3. \A x, u \in open' : x # u /\ fp'[x].path = fp'[u].path
                                => fp'[x].mode = "r" /\ fp'[u].mode = "r"
      BY <1>2, <1>4, <1>5 DEF StreamInv
    <2>4. open' \subseteq 1 .. opened' /\ opened' \in 0 .. MaxStreams
      BY <1>2, <1>4 DEF StreamInv
    <2> QED
      BY <1>4, <2>2, <2>3, <2>4 DEF StreamInv
  <1>8. OthersKept(p)
    <2>1. ASSUME NEW o \in Paths \ {p}
          PROVE  Content(o)' = Content(o) /\ Text(o)' = Text(o)
      <3>1. OpenStreams(o)' = OpenStreams(o) /\ \A u \in OpenStreams(o) : fp'[u] = fp[u]
        BY <1>2, <1>4 DEF OpenStreams
      <3> QED
        BY <1>4, <1>7, <3>1, SameContent
    <2> QED
      BY <1>4, <2>1 DEF OthersKept
  <1>9. Content(p)' = c /\ Text(p)' = c
    BY <1>2, <1>4, <1>7, ContentIsAfter DEF ContentRead, Merged
  <1>10. m # "w" => Content(p) = c /\ Text(p) = c
    <2> SUFFICES ASSUME m # "w" PROVE Content(p) = c /\ Text(p) = c
      OBVIOUS
    <2>1. c = disk[p] /\ Text(p) = c
      BY <1>1, <1>3, AbsentIsNoText DEF Text
    <2>2. CASE \A u \in open : fp[u].path # p
      BY <2>1, <2>2, ContentIs DEF ContentRead
    <2>3. ASSUME NEW u \in open, fp[u].path = p
          PROVE  Content(p) = c
      BY <1>5, <2>1, <2>3, OpenContent, MergedFacts
    <2> QED
      BY <2>1, <2>2, <2>3
  <1> QED
    BY <1>1, <1>2, <1>4, <1>7, <1>8, <1>9, <1>10 DEF Shows

\* A file that is not open changes on the disk.
LEMMA PathStep ==
  ASSUME StreamInv, NEW p \in Paths, OpenStreams(p) = {}, NEW x \in AllTexts \cup {Absent},
         disk' = [disk EXCEPT ![p] = x], UNCHANGED <<fp, open, opened>>
  PROVE  /\ StreamInv' /\ OthersKept(p)
         /\ IF x = Absent THEN Shows(p, <<>>, <<>>) ELSE Shows(p, x, x)
  <1>1. /\ disk'[p] = x /\ disk' \in [Paths -> AllTexts \cup {Absent}]
        /\ \A o \in Paths \ {p} : disk'[o] = disk[o]
        /\ fp' = fp /\ open' = open /\ opened' = opened
        /\ \A u \in open : fp[u].path # p
    BY DEF StreamInv, OpenStreams
  <1>2. StreamInv'
    <2>1. \A u \in open : disk'[fp[u].path] = disk[fp[u].path]
      BY <1>1 DEF StreamInv, StreamRecs
    <2> QED
      BY <1>1, <2>1 DEF StreamInv
  <1>3. OthersKept(p)
    <2>1. ASSUME NEW o \in Paths \ {p}
          PROVE  Content(o)' = Content(o) /\ Text(o)' = Text(o)
      <3>1. OpenStreams(o)' = OpenStreams(o) /\ \A u \in OpenStreams(o) : fp'[u] = fp[u]
        BY <1>1 DEF OpenStreams
      <3> QED
        BY <1>1, <1>2, <3>1, SameContent
    <2> QED
      BY <1>1, <2>1 DEF OthersKept
  <1>4. Text(p)' = IF x = Absent THEN <<>> ELSE x
    BY <1>1 DEF Text
  <1>5. Content(p)' = Text(p)'
    BY <1>1, <1>2, ContentIsAfter DEF ContentRead
  <1> QED
    BY <1>2, <1>3, <1>4, <1>5 DEF Shows

-----------------------------------------------------------------------------
(* The steps of CursorFile *)

Contents == [p \in Paths |-> Content(p)]
Places == [f \in Objs |-> Cursor(f)]

\* What comes to the disk has been in the file.
Saves == \A p \in Paths : Text(p)' \in {Text(p), Content(p), Content(p)'}

\* A step that changes one file.
LEMMA EffectIs ==
  ASSUME NEW p \in Paths, OthersKept(p), NEW x, NEW y, Shows(p, x, y),
         y \in {Text(p), Content(p), x}
  PROVE  /\ Saves /\ Contents' = [Contents EXCEPT ![p] = x]
         /\ x = Content(p) => Contents' = Contents
  <1>1. Content(p)' = x /\ Text(p)' = y
    BY DEF Shows
  <1>2. \A o \in Paths \ {p} : Content(o)' = Content(o) /\ Text(o)' = Text(o)
    BY DEF OthersKept
  <1>3. Saves
    BY <1>1, <1>2 DEF Saves
  <1>4. Contents' = [Contents EXCEPT ![p] = x]
    BY <1>1, <1>2 DEF Contents
  <1> QED
    BY <1>1, <1>3, <1>4 DEF Contents

\* A step that changes no stream and no file.
LEMMA NoEffect ==
  ASSUME StreamInv, UNCHANGED <<disk, fp, open, opened>>
  PROVE  StreamInv' /\ Saves /\ Contents' = Contents
  BY DEF StreamInv, Saves, Contents, Text, Content, OpenStreams, Flushed

\* CursorFile and File have the same helpers.
LEMMA SameHelpers ==
  /\ \A c, r, n : Cursors!Piece(c, r, n) = Piece(c, r, n)
  /\ \A c, w, d : Cursors!Overlay(c, w, d) = Overlay(c, w, d)
  /\ Cursors!SeqOf(Chars, MaxLen) = SeqOf(Chars, MaxLen)
  BY Zenon DEF Piece, Cursors!Piece, Overlay, Cursors!Overlay, SeqOf, Cursors!SeqOf,
     Min, Cursors!Min, Max, Cursors!Max

LEMMA SaveIs ==
  ASSUME Saves
  PROVE  Cursors!Save
  BY DEF Saves, Cursors!Save

LEMMA AskIs ==
  ASSUME Saves, Contents' = Contents, Places' = Places, out' = <<>>
  PROVE  Cursors!Next
  BY SaveIs DEF Cursors!Next, Cursors!Call, Cursors!Ask, Contents, Places

LEMMA ReadIs ==
  ASSUME Saves, Contents' = Contents, NEW f \in Objs, NEW n \in 0 .. MaxLen,
         Cursor(f) \in Cursors!Cursors,
         out' = Piece(Content(Cursor(f).path), Cursor(f).r, n),
         Places' = [Places EXCEPT ![f].r = @ + Len(out')]
  PROVE  Cursors!Next
  <1>1. Cursor(f).path \in Paths
    BY DEF Cursors!Cursors
  <1>2. Cursors!Read(f, n)
    BY <1>1, SameHelpers DEF Cursors!Read, Contents, Places
  <1> QED
    BY <1>2, SaveIs DEF Cursors!Next, Cursors!Call

LEMMA WriteIs ==
  ASSUME Saves, NEW f \in Objs, NEW n \in 1 .. MaxLen, NEW d \in [1 .. n -> Chars],
         Cursor(f) \in Cursors!Cursors, out' = <<>>,
         NEW p \in Paths, p = Cursor(f).path,
         Contents' = [Contents EXCEPT ![p] = Overlay(Content(p), Cursor(f).w, d)],
         Places' = [Places EXCEPT ![f].w = @ + Len(d)]
  PROVE  Cursors!Next
  <1>2. Cursors!Write(f, d)
    BY SameHelpers DEF Cursors!Write, Contents, Places
  <1> QED
    BY <1>2, SaveIs DEF Cursors!Next, Cursors!Call

LEMMA ResetIs ==
  ASSUME Saves, Contents' = Contents, NEW f \in Objs, Cursor(f) \in Cursors!Cursors, out' = <<>>,
         \/ Places' = [Places EXCEPT ![f] = [Cursor(f) EXCEPT !.r = 0]]
         \/ Places' = [Places EXCEPT ![f] = [Cursor(f) EXCEPT !.w = 0]]
  PROVE  Cursors!Next
  <1>2. Cursors!Reset(f)
    BY DEF Cursors!Reset, Contents, Places
  <1> QED
    BY <1>2, SaveIs DEF Cursors!Next, Cursors!Call

LEMMA LineIs ==
  ASSUME Saves, Contents' = Contents, Places' = Places, NEW f \in Objs,
         Cursor(f) \in Cursors!Cursors, NEW r \in 0 .. MaxLen, NEW n \in 0 .. MaxLen,
         out' = Piece(Content(Cursor(f).path), r, n)
  PROVE  Cursors!Next
  <1>1. Cursor(f).path \in Paths
    BY DEF Cursors!Cursors
  <1>2. Cursors!Line(f)
    BY <1>1, SameHelpers DEF Cursors!Line, Contents, Places
  <1> QED
    BY <1>2, SaveIs DEF Cursors!Next, Cursors!Call

LEMMA StoreIs ==
  ASSUME Saves, NEW p \in Paths, NEW c \in AllTexts, Contents' = [Contents EXCEPT ![p] = c],
         \A f \in Objs : Cursor(f) \in Cursors!Cursors => Cursor(f).path # p,
         Places' = Places, out' = <<>>
  PROVE  Cursors!Next
  <1>1. c \in Cursors!SeqOf(Chars, MaxLen)
    BY TextsAre, SameHelpers, FileAssumption DEF AllTexts
  <1>2. Cursors!Store(p, c)
    BY DEF Cursors!Store, Contents, Places
  <1> QED
    BY <1>1, <1>2, SaveIs DEF Cursors!Next, Cursors!Call

LEMMA LoadIs ==
  ASSUME Saves, NEW p \in Paths, Contents' = Contents, Places' = Places, out' = Text(p)
  PROVE  Cursors!Next
  <1>2. Cursors!Load(p)
    BY DEF Cursors!Load, Contents, Places
  <1> QED
    BY <1>2, SaveIs DEF Cursors!Next, Cursors!Call

\* The File h comes to offer x.
Offers(h, x) == Cursor(h)' = x

\* What a File may become, and a File that may lose its file with f.
IsForm(c) ==
  \/ c \in {NULL, Unbound} \/ c \in [path : Paths, r : {0}, w : {0}]
  \/ \E g \in Objs : c = Cursor(g)
Companion(f, g) ==
  /\ Cursor(f) \in Cursors!Cursors /\ Cursor(g) \in Cursors!Cursors
  /\ Cursor(g).path = Cursor(f).path

LEMMA BindIs ==
  ASSUME Saves, Contents' = Contents, NEW f \in Objs, NEW c, NEW losers \in SUBSET Objs,
         IsForm(c), \A g \in losers : Companion(f, g),
         \A g \in Objs : Offers(g, IF g = f THEN c ELSE IF g \in losers THEN Unbound ELSE Cursor(g)),
         out' = <<>>
  PROVE  Cursors!Next
  <1>1. losers \in SUBSET Cursors!Companions(f)
    BY DEF Cursors!Companions, Companion
  <1>2. c \in Cursors!Forms
    BY DEF Cursors!Forms, IsForm
  <1>3. Cursors!Bind(f, c, losers)
    BY DEF Cursors!Bind, Contents, Offers
  <1> QED
    BY <1>1, <1>2, <1>3, SaveIs DEF Cursors!Next, Cursors!Call

LEMMA BindEmptyIs ==
  ASSUME Saves, NEW p \in Paths, Contents' = [Contents EXCEPT ![p] = <<>>], NEW f \in Objs,
         \A g \in Objs : Offers(g, IF g = f THEN [path |-> p, r |-> 0, w |-> 0] ELSE Cursor(g)),
         out' = <<>>
  PROVE  Cursors!Next
  <1>1. Cursors!BindEmpty(f, p)
    BY DEF Cursors!BindEmpty, Contents, Offers
  <1> QED
    BY <1>1, SaveIs DEF Cursors!Next, Cursors!Call

LEMMA MoveIs ==
  ASSUME Saves, Contents' = Contents, NEW f \in Objs, NEW g \in Objs, NEW losers \in SUBSET Objs,
         \A h \in losers : Companion(f, h),
         \A h \in Objs : Offers(h, IF h = f THEN Cursor(g)
                                   ELSE IF h \in losers \cup {g} THEN Unbound ELSE Cursor(h)),
         out' = <<>>
  PROVE  Cursors!Next
  <1>1. losers \in SUBSET Cursors!Companions(f)
    BY DEF Cursors!Companions, Companion
  <1>2. Cursors!Move(f, g, losers)
    BY DEF Cursors!Move, Contents, Offers
  <1> QED
    BY <1>1, <1>2, SaveIs DEF Cursors!Next, Cursors!Call

-----------------------------------------------------------------------------
(* The places of the Files *)

\* How many characters the file of the stream s has.
Room(s) == Len(Content(fp[s].path))

\* The places are in range, and no File is to write behind the end of its file; a
\* File without a stream is at the beginning, where fopen leaves it.
PlacesInv ==
  /\ mReadPos \in [Objs -> 0 .. MaxLen] /\ mWritePos \in [Objs -> 0 .. MaxLen]
  /\ \A f \in files : mFile[f] = 0 => mReadPos[f] = 0 /\ mWritePos[f] = 0
  /\ \A f \in files : mFile[f] \in open => mWritePos[f] <= Room(mFile[f])

\* No file gets shorter under a stream that stays open.
RoomKept == \A s \in open \cap open' : Room(s)' >= Room(s)
PathsKept == \A s \in open : fp'[s].path = fp[s].path

\* A step that changes one file.
LEMMA RoomIs ==
  ASSUME StreamInv, StreamInv', NEW p \in Paths, OthersKept(p), NEW x, NEW y, Shows(p, x, y),
         Len(x) >= Len(Content(p)) \/ \A s \in open : fp[s].path # p
  PROVE  RoomKept /\ PathsKept
  <1>1. PathsKept
    BY DEF OthersKept, PathsKept
  <1>2. ASSUME NEW s \in open, s \in open'
        PROVE  Room(s)' >= Room(s)
    <2>1. fp'[s].path = fp[s].path /\ fp[s].path \in Paths
      BY DEF OthersKept, StreamInv, StreamRecs
    <2>2. PICK o \in Paths : o = fp[s].path
      BY <2>1
    <2>3. Room(s) = Len(Content(o)) /\ Room(s)' = Len(Content(o)')
      BY <2>1, <2>2 DEF Room
    <2>4. Content(o) \in AllTexts
      BY ContentIs DEF ContentRead
    <2>5. CASE o = p
      BY <2>2, <2>3, <2>5 DEF Shows
    <2>6. CASE o # p
      BY <2>3, <2>4, <2>6 DEF OthersKept, AllTexts
    <2> QED
      BY <2>5, <2>6
  <1> QED
    BY <1>1, <1>2 DEF RoomKept

\* A step that changes no stream and no file.
LEMMA NoRoomEffect ==
  ASSUME StreamInv, UNCHANGED <<disk, fp, open, opened>>
  PROVE  RoomKept /\ PathsKept
  <1>1. \A s \in open : Room(s)' = Room(s)
    BY DEF Room, Content, OpenStreams, Text, Flushed
  <1>2. \A s \in open : Room(s) \in Nat
    BY ContentIs DEF ContentRead, Room, StreamInv, StreamRecs, AllTexts
  <1> QED
    BY <1>1, <1>2 DEF RoomKept, PathsKept

\* A File that has a stream and places as g had them, and one at the beginning.
Like(h, g) ==
  mFile'[h] = mFile[g] /\ mReadPos'[h] = mReadPos[g] /\ mWritePos'[h] = mWritePos[g]
Fresh(h) == mReadPos'[h] = 0 /\ mWritePos'[h] = 0

\* The Files come, go, and take the places of others.
LEMMA LifePlaces ==
  ASSUME FileInv, StreamInv, StreamInv', PlacesInv, RoomKept, open' \subseteq open \cup {opened + 1},
         mReadPos' \in [Objs -> 0 .. MaxLen], mWritePos' \in [Objs -> 0 .. MaxLen],
         \A h \in files' : Fresh(h) \/ \E g \in files : Like(h, g)
  PROVE  PlacesInv'
  <1>1. ASSUME NEW h \in files', mFile'[h] = 0
        PROVE  mReadPos'[h] = 0 /\ mWritePos'[h] = 0
    BY <1>1 DEF PlacesInv, Fresh, Like
  <1>2. ASSUME NEW h \in files', mFile'[h] \in open'
        PROVE  mWritePos'[h] <= Room(mFile[h])'
    <2>1. Room(mFile[h])' \in Nat
      <3>1. PICK s : s = mFile'[h]
        OBVIOUS
      <3>2. fp'[s].path \in Paths
        BY <1>2, <3>1 DEF StreamInv, StreamRecs
      <3>3. PICK o \in Paths : o = fp'[s].path
        BY <3>2
      <3>4. Content(o)' \in AllTexts
        BY ContentIsAfter DEF ContentRead
      <3> QED
        BY <3>1, <3>3, <3>4 DEF Room, AllTexts
    <2>2. CASE Fresh(h)
      BY <2>1, <2>2 DEF Fresh
    <2>3. ASSUME NEW g \in files, Like(h, g)
          PROVE  mWritePos'[h] <= Room(mFile[h])'
      <3>1. PICK s : s = mFile'[h]
        OBVIOUS
      <3>2. mFile[g] = s /\ mWritePos'[h] = mWritePos[g] /\ g \in Objs
        BY <2>3, <3>1 DEF Like, FileInv, Types
      <3>3. s \in open /\ s \in open'
        BY <1>2, <3>1, <3>2 DEF FileInv, Types, Ids
      <3>4. Room(s)' >= Room(s) /\ mWritePos[g] <= Room(s)
        BY <3>2, <3>3 DEF RoomKept, PlacesInv
      <3>5. Room(s)' = Room(mFile[h])'
        BY <3>1 DEF Room
      <3>6. Room(s) \in Nat
        <4>1. PICK o \in Paths : o = fp[s].path
          BY <3>3 DEF StreamInv, StreamRecs
        <4> QED
          BY <4>1, ContentIs DEF ContentRead, Room, AllTexts
      <3>7. mWritePos[g] \in Nat
        BY <3>2 DEF PlacesInv
      <3> QED
        BY <2>1, <3>2, <3>4, <3>5, <3>6, <3>7
    <2> QED
      BY <2>2, <2>3
  <1> QED
    BY <1>1, <1>2 DEF PlacesInv

\* What a File offers that is like g was.
LEMMA LikeOffers ==
  ASSUME FileInv, PathsKept, open' \subseteq open \cup {opened + 1},
         NEW h \in files', NEW g \in files, Like(h, g)
  PROVE  Offers(h, IF mFile[g] \in open \ open' THEN Unbound ELSE Cursor(g))
  <1>1. mFile[g] \in Nat /\ mFile[g] # opened + 1 /\ 0 \notin open
    BY DEF FileInv, Types, Ids
  <1>2. mFile[g] \in open' => mFile[g] \in open /\ fp'[mFile[g]].path = fp[mFile[g]].path
    BY <1>1 DEF PathsKept
  <1> QED
    BY <1>1, <1>2 DEF Like, Offers, Cursor, Dangles

LEMMA FreshOffers ==
  ASSUME NEW h \in files', Fresh(h), 0 \notin open'
  PROVE  /\ mFile'[h] = 0 => Offers(h, Unbound)
         /\ mFile'[h] \in open' =>
              Offers(h, [path |-> fp'[mFile'[h]].path, r |-> 0, w |-> 0])
  BY DEF Fresh, Offers, Cursor, Dangles

LEMMA GoneOffers ==
  ASSUME NEW h, h \notin files'
  PROVE  Offers(h, NULL)
  BY DEF Offers, Cursor

\* The cursor of a File with an open stream.
LEMMA OpenCursor ==
  ASSUME FileInv, StreamInv, PlacesInv, NEW f \in files, mFile[f] \in open
  PROVE  /\ Cursor(f) = [path |-> fp[mFile[f]].path, r |-> mReadPos[f], w |-> mWritePos[f]]
         /\ Cursor(f) \in Cursors!Cursors /\ f \in Objs
         /\ fp[mFile[f]].path \in Paths
         /\ mReadPos[f] \in 0 .. MaxLen /\ mWritePos[f] \in 0 .. MaxLen
  <1>1. f \in Objs /\ 0 \notin open
    BY DEF FileInv, Types, Ids
  <1>2. fp[mFile[f]].path \in Paths
    BY DEF StreamInv, StreamRecs
  <1>3. mReadPos[f] \in 0 .. MaxLen /\ mWritePos[f] \in 0 .. MaxLen
    BY <1>1 DEF PlacesInv
  <1>4. Cursor(f) = [path |-> fp[mFile[f]].path, r |-> mReadPos[f], w |-> mWritePos[f]]
    BY <1>1 DEF Cursor, Dangles
  <1> QED
    BY <1>1, <1>2, <1>3, <1>4 DEF Cursors!Cursors

\* All others offer no cursor.
LEMMA NoCursor ==
  ASSUME FileInv, NEW f \in Objs, f \notin files \/ mFile[f] \notin open
  PROVE  Cursor(f) \in {NULL, Unbound} /\ Cursor(f) \notin Cursors!Cursors
  BY CursorAssumption DEF Cursor, Dangles

-----------------------------------------------------------------------------
(* Reading and writing *)

\* What a read gets is a piece of the file, even through a stream that cannot read.
LEMMA AheadIs ==
  ASSUME StreamInv, NEW s \in open, NEW p \in Paths, fp[s].path = p, NEW r \in Nat, NEW n \in Nat
  PROVE  /\ \E m \in 0 .. MaxLen : Ahead(s, r, n) = Piece(Content(p), r, m)
         /\ \E m \in 0 .. MaxLen : FirstLine(Ahead(s, r, n)) = Piece(Content(p), r, m)
  <1>0. MaxLen \in Nat
    BY FileAssumption
  <1>1. PICK c \in AllTexts : c = Content(p)
    BY ContentIs DEF ContentRead
  <1>2. Flushed(s)[fp[s].path] = c
    BY <1>1, OpenContent DEF StreamInv
  <1>3. ASSUME NEW j \in Nat
        PROVE  \E m \in 0 .. MaxLen : Piece(c, r, j) = Piece(c, r, m)
    <2>1. CASE j <= MaxLen
      BY <1>0, <2>1
    <2>2. CASE j > MaxLen
      <3>1. Len(c) \in Nat /\ Len(c) <= MaxLen
        BY DEF AllTexts
      <3>2. Len(Piece(c, r, j)) = IF r >= Len(c) THEN 0 ELSE IF Len(c) - r <= j THEN Len(c) - r ELSE j
        BY PieceFacts
      <3>3. Len(Piece(c, r, MaxLen)) = IF r >= Len(c) THEN 0 ELSE IF Len(c) - r <= MaxLen THEN Len(c) - r ELSE MaxLen
        BY <1>0, PieceFacts
      <3>4. Len(Piece(c, r, j)) = Len(Piece(c, r, MaxLen))
        BY <1>0, <2>2, <3>1, <3>2, <3>3
      <3>5. Piece(c, r, j) = Piece(c, r, MaxLen)
        BY <1>0, <3>4, SamePiece
      <3> QED
        BY <1>0, <3>5
    <2> QED
      BY <1>0, <2>1, <2>2
  <1>4. PICK j \in Nat : Ahead(s, r, n) = Piece(c, r, j)
    <2>1. CASE Readable(s)
      BY <1>2, <2>1 DEF Ahead
    <2>2. CASE ~Readable(s)
      <3>1. Piece(c, r, 0) \in Seq(Chars) /\ Len(Piece(c, r, 0)) = 0
        <4>1. /\ Piece(c, r, 0) \in Seq(Chars)
              /\ Len(Piece(c, r, 0)) = IF r >= Len(c) THEN 0 ELSE IF Len(c) - r <= 0 THEN Len(c) - r ELSE 0
          BY PieceFacts
        <4>2. Len(c) \in Nat
          BY DEF AllTexts
        <4> QED
          BY <4>1, <4>2
      <3>2. Piece(c, r, 0) = <<>>
        BY <3>1
      <3> QED
        BY <2>2, <3>2 DEF Ahead
    <2> QED
      BY <2>1, <2>2
  <1>5. PICK i \in 0 .. j : FirstLine(Piece(c, r, j)) = Piece(c, r, i)
    BY FirstLinePiece
  <1> QED
    BY <1>1, <1>3, <1>4, <1>5

\* The place w is not behind the end of the file, after a step.
Within(f, s, w) == w <= mWritePos[f] \/ w <= Room(s)'

\* Nobody but f comes to offer something else, and f the places r and w.
OnlyMoves(f, s, r, w) ==
  Places' = [Places EXCEPT ![f] = [path |-> fp[s].path, r |-> r, w |-> w]]

\* A call on f moves the places of f to r and w, and those of nobody else.
LEMMA CallPlaces ==
  ASSUME FileInv, StreamInv, StreamInv', PlacesInv, RoomKept, PathsKept,
         UNCHANGED <<files, mFile, open, opened>>,
         NEW f \in files, NEW s \in open, mFile[f] = s, NEW r \in 0 .. MaxLen, NEW w \in 0 .. MaxLen,
         mReadPos' = [mReadPos EXCEPT ![f] = r], mWritePos' = [mWritePos EXCEPT ![f] = w],
         Within(f, s, w)
  PROVE  PlacesInv' /\ OnlyMoves(f, s, r, w)
  <1>1. f \in Objs /\ 0 \notin open /\ files \subseteq Objs
    BY DEF FileInv, Types, Ids
  <1>2. /\ mReadPos' \in [Objs -> 0 .. MaxLen] /\ mWritePos' \in [Objs -> 0 .. MaxLen]
        /\ mReadPos'[f] = r /\ mWritePos'[f] = w
        /\ \A h \in Objs \ {f} : mReadPos'[h] = mReadPos[h] /\ mWritePos'[h] = mWritePos[h]
    BY <1>1 DEF PlacesInv
  <1>3. ASSUME NEW u \in open
        PROVE  Room(u) \in Nat /\ Room(u)' \in Nat /\ Room(u)' >= Room(u)
    <2>1. PICK o \in Paths : o = fp[u].path /\ fp'[u].path = o
      BY DEF StreamInv, StreamRecs, PathsKept
    <2>2. Content(o) \in AllTexts /\ Content(o)' \in AllTexts
      BY ContentIs, ContentIsAfter DEF ContentRead
    <2> QED
      BY <2>1, <2>2 DEF Room, AllTexts, RoomKept
  <1>4. w <= Room(s)'
    <2>1. mWritePos[f] <= Room(s) /\ mWritePos[f] \in Nat
      BY <1>1 DEF PlacesInv
    <2> QED
      BY <1>3, <2>1 DEF Within
  <1>5. PlacesInv'
    <2>1. ASSUME NEW h \in files', mFile'[h] \in open'
          PROVE  mWritePos'[h] <= Room(mFile[h])'
      <3>1. PICK u \in open : u = mFile[h] /\ u = mFile'[h]
        BY <2>1
      <3>2. Room(mFile[h])' = Room(u)'
        BY <3>1 DEF Room
      <3>3. CASE h = f
        BY <1>2, <1>4, <3>1, <3>2, <3>3
      <3>4. CASE h # f
        <4>1. mWritePos[h] <= Room(u) /\ mWritePos[h] \in Nat /\ h \in Objs
          BY <1>1, <2>1, <3>1 DEF PlacesInv
        <4> QED
          BY <1>2, <1>3, <3>2, <3>4, <4>1
      <3> QED
        BY <3>3, <3>4
    <2>2. ASSUME NEW h \in files', mFile'[h] = 0
          PROVE  mReadPos'[h] = 0 /\ mWritePos'[h] = 0
      BY <1>1, <1>2, <2>2 DEF PlacesInv
    <2> QED
      BY <1>2, <2>1, <2>2 DEF PlacesInv
  <1>6. \A h \in Objs \ {f} : Cursor(h)' = Cursor(h)
    BY <1>1, <1>2 DEF Cursor, Dangles, PathsKept
  <1>7. Cursor(f)' = [path |-> fp[s].path, r |-> r, w |-> w]
    BY <1>1, <1>2 DEF Cursor, Dangles, PathsKept
  <1> QED
    BY <1>1, <1>5, <1>6, <1>7 DEF Places, OnlyMoves

\* What has to be shown of a step.
CursorInv == FileInv /\ StreamInv /\ PlacesInv
Refines == StreamInv' /\ PlacesInv' /\ Cursors!Next

\* The stream s goes to a place n; its buffer, if any, is written out.
LEMMA SoughtIs ==
  ASSUME StreamInv, NEW s \in open, NEW n \in 0 .. MaxLen, NEW e \in BOOLEAN
  PROVE  /\ Sought(s, n) \in StreamRecs /\ Sought(s, n).buf = <<>>
         /\ [Sought(s, n) EXCEPT !.eof = e] \in StreamRecs
         /\ [Sought(s, n) EXCEPT !.eof = e].buf = <<>>
         /\ [Sought(s, n) EXCEPT !.eof = e].path = fp[s].path
         /\ [Sought(s, n) EXCEPT !.eof = e].mode = fp[s].mode
         /\ Sought(s, n).path = fp[s].path /\ Sought(s, n).mode = fp[s].mode
  <1>1. fp[s] \in StreamRecs
    BY DEF StreamInv
  <1>2. <<>> \in Seq(Chars)
    OBVIOUS
  <1> QED
    BY <1>1, <1>2 DEF Sought, StreamRecs

\* The same with b in the buffer.
LEMMA BufferIs ==
  ASSUME StreamInv, NEW s \in open, NEW n \in 0 .. MaxLen, NEW b \in Seq(Chars)
  PROVE  /\ [Sought(s, n) EXCEPT !.buf = b] \in StreamRecs
         /\ [Sought(s, n) EXCEPT !.buf = b].path = fp[s].path
         /\ [Sought(s, n) EXCEPT !.buf = b].mode = fp[s].mode
         /\ [Sought(s, n) EXCEPT !.buf = b].buf = b
         /\ [Sought(s, n) EXCEPT !.buf = b].pos = n
  <1>1. fp[s] \in StreamRecs
    BY DEF StreamInv
  <1>2. PICK k : k = Sought(s, n)
    OBVIOUS
  <1>3. k \in StreamRecs /\ k.path = fp[s].path /\ k.mode = fp[s].mode /\ k.pos = n
    <2>1. <<>> \in Seq(Chars)
      OBVIOUS
    <2> QED
      BY <1>1, <1>2, <2>1 DEF Sought, StreamRecs
  <1>4. /\ [k EXCEPT !.buf = b] \in StreamRecs
        /\ [k EXCEPT !.buf = b].path = fp[s].path
        /\ [k EXCEPT !.buf = b].mode = fp[s].mode
        /\ [k EXCEPT !.buf = b].buf = b
        /\ [k EXCEPT !.buf = b].pos = n
    BY <1>3 DEF StreamRecs
  <1> QED
    BY <1>2, <1>4

\* A stream that is only moved shows no File anything.
LEMMA FlushKeeps ==
  ASSUME CursorInv, NEW s \in open, NEW k \in StreamRecs, k.path = fp[s].path,
         k.mode = fp[s].mode, k.buf = <<>>,
         fp' = [fp EXCEPT ![s] = k], disk' = Flushed(s), opened' = opened,
         open' = open \/ open' = open \ {s}
  PROVE  StreamInv' /\ Saves /\ Contents' = Contents /\ RoomKept /\ PathsKept
  <1>1. PICK p \in Paths : p = fp[s].path
    BY DEF CursorInv, StreamInv, StreamRecs
  <1>2. StreamInv' /\ OthersKept(p) /\ Shows(p, Content(p), Content(p))
    BY <1>1, FlushStep DEF CursorInv
  <1>3. PICK c \in AllTexts : c = Content(p)
    BY ContentIs DEF ContentRead, CursorInv
  <1>4. Saves /\ Contents' = Contents
    BY <1>2, EffectIs
  <1>5. Len(c) >= Len(Content(p))
    BY <1>3 DEF AllTexts
  <1>6. RoomKept /\ PathsKept
    BY <1>2, <1>3, <1>5, RoomIs DEF CursorInv
  <1> QED
    BY <1>2, <1>4, <1>6

\* A File that reads at its place.
LEMMA ReadStep ==
  ASSUME CursorInv, NEW f \in files, NEW s \in open, mFile[f] = s, NEW p \in Paths, fp[s].path = p,
         NEW m \in 0 .. MaxLen, NEW got, got = Piece(Content(p), mReadPos[f], m),
         NEW eof \in BOOLEAN, ReadAt(f, got, eof)
  PROVE  Refines
  <1>1. PICK c \in AllTexts : c = Content(p)
    BY ContentIs DEF ContentRead, CursorInv
  <1>2. PICK r \in 0 .. MaxLen : r = mReadPos[f]
    BY OpenCursor DEF CursorInv
  <1>3. PICK n \in 0 .. MaxLen : n = r + Len(got)
    <2>1. Len(c) \in Nat /\ Len(c) <= MaxLen /\ MaxLen \in Nat
      BY FileAssumption DEF AllTexts
    <2>2. Len(got) = IF r >= Len(c) THEN 0 ELSE IF Len(c) - r <= m THEN Len(c) - r ELSE m
      <3>1. got = Piece(c, r, m) /\ r \in Nat /\ m \in Nat
        BY <1>1, <1>2, <2>1
      <3>2. Len(Piece(c, r, m)) = IF r >= Len(c) THEN 0 ELSE IF Len(c) - r <= m THEN Len(c) - r ELSE m
        BY <3>1, PieceFacts
      <3> QED
        BY <3>1, <3>2
    <2> QED
      BY <2>1, <2>2
  <1>4. PICK e \in BOOLEAN : e = (eof /\ Readable(s))
    OBVIOUS
  <1>5. PICK k \in StreamRecs : k = [Sought(s, n) EXCEPT !.eof = e]
    BY SoughtIs DEF CursorInv
  <1>6. k.path = p /\ k.mode = fp[s].mode /\ k.buf = <<>>
    BY <1>5, SoughtIs DEF CursorInv
  <1>7. /\ disk' = Flushed(s) /\ fp' = [fp EXCEPT ![s] = k]
        /\ mReadPos' = [mReadPos EXCEPT ![f] = n] /\ mWritePos' = mWritePos
        /\ out' = got /\ UNCHANGED <<open, opened, files, mFile>>
    BY <1>2, <1>3, <1>4, <1>5 DEF ReadAt, Lives, kindVars, fileVars
  <1>8. StreamInv' /\ Saves /\ Contents' = Contents /\ RoomKept /\ PathsKept
    BY <1>6, <1>7, FlushKeeps
  <1>9. PICK w \in 0 .. MaxLen : w = mWritePos[f] /\ mWritePos' = [mWritePos EXCEPT ![f] = w]
    BY <1>7, OpenCursor DEF CursorInv, PlacesInv
  <1>10. Within(f, s, w)
    BY <1>9 DEF Within
  <1>11. PlacesInv' /\ Places' = [Places EXCEPT ![f] = [path |-> p, r |-> n, w |-> w]]
    <2>1. mReadPos' = [mReadPos EXCEPT ![f] = n] /\ mWritePos' = [mWritePos EXCEPT ![f] = w]
      BY <1>7, <1>9
    <2>2. PlacesInv' /\ OnlyMoves(f, s, n, w)
      BY <1>7, <1>8, <1>10, <2>1, CallPlaces DEF CursorInv
    <2> QED
      BY <2>2 DEF OnlyMoves
  <1>12. /\ f \in Objs /\ Cursor(f) = [path |-> p, r |-> r, w |-> w]
         /\ Cursor(f) \in Cursors!Cursors
    BY <1>2, <1>9, OpenCursor DEF CursorInv
  <1>13. Places' = [Places EXCEPT ![f].r = @ + Len(out')]
    <2>1. Places[f] = [path |-> p, r |-> r, w |-> w] /\ out' = got
      BY <1>7, <1>12 DEF Places
    <2>2. [Places[f] EXCEPT !.r = @ + Len(out')] = [path |-> p, r |-> n, w |-> w]
      BY <1>3, <2>1
    <2> QED
      BY <1>11, <2>2
  <1>14. out' = Piece(Content(Cursor(f).path), Cursor(f).r, m)
    BY <1>2, <1>7, <1>12
  <1>15. Cursors!Next
    BY <1>8, <1>12, <1>13, <1>14, ReadIs
  <1> QED
    BY <1>8, <1>11, <1>15 DEF Refines

\* A step that moves no File.
LEMMA QuietPlaces ==
  ASSUME CursorInv, StreamInv', RoomKept, PathsKept, UNCHANGED <<files, mFile, mReadPos, mWritePos>>,
         open' \subseteq open, \A h \in files : mFile[h] \notin open \ open'
  PROVE  PlacesInv' /\ Places' = Places
  <1>1. \A h \in files : Like(h, h)
    BY DEF Like
  <1>2. PlacesInv'
    BY <1>1, LifePlaces DEF CursorInv, PlacesInv
  <1>3. ASSUME NEW h \in Objs PROVE Offers(h, Cursor(h))
    <2>1. CASE h \in files
      <3>1. Offers(h, IF mFile[h] \in open \ open' THEN Unbound ELSE Cursor(h))
        BY <1>1, <2>1, LikeOffers DEF CursorInv
      <3> QED
        BY <2>1, <3>1
    <2>2. CASE h \notin files
      <3>1. Cursor(h) = NULL /\ h \notin files'
        BY <2>2 DEF Cursor
      <3> QED
        BY <3>1, GoneOffers
    <2> QED
      BY <2>1, <2>2
  <1>4. Places' = Places
    BY <1>3 DEF Offers, Places
  <1> QED
    BY <1>2, <1>4

\* A File that writes at its place, through the buffer of the stream or not.
LEMMA WriteStep ==
  ASSUME CursorInv, NEW f \in files, NEW s \in open, mFile[f] = s, NEW p \in Paths, fp[s].path = p,
         NEW d \in Data, NEW rest \in {<<>>, d}, WriteAt(f, d, rest)
  PROVE  Refines
  <1>0. d \in Seq(Chars) /\ d # <<>> /\ Len(d) \in Nat /\ Len(d) > 0 /\ MaxLen \in Nat
    <2>1. MaxWrite \in Nat /\ MaxLen \in Nat
      BY FileAssumption
    <2>2. d \in Seq(Chars) /\ d # <<>>
      BY <2>1, TextsAre DEF Data
    <2> QED
      BY <2>1, <2>2
  <1>1. PICK c \in AllTexts : c = Content(p)
    BY ContentIs DEF ContentRead, CursorInv
  <1>2. /\ f \in Objs /\ Cursor(f) = [path |-> p, r |-> mReadPos[f], w |-> mWritePos[f]]
        /\ Cursor(f) \in Cursors!Cursors
        /\ mReadPos[f] \in 0 .. MaxLen /\ mWritePos[f] \in 0 .. MaxLen
    BY OpenCursor DEF CursorInv
  <1>3. PICK w \in 0 .. Len(c) : w = mWritePos[f]
    <2>1. mWritePos[f] <= Room(s) /\ Room(s) = Len(c) /\ Len(c) \in Nat
      BY <1>1 DEF CursorInv, PlacesInv, Room, AllTexts
    <2> QED
      BY <1>2, <2>1
  <1>4. /\ fp[s] \in StreamRecs /\ Flushed(s) = [disk EXCEPT ![p] = c] /\ Flushed(s)[p] = c
        /\ fp[s].mode = "r" => c = disk[p]
    <2>1. /\ fp[s] \in StreamRecs /\ Fits(fp[s], disk[p])
          /\ Flushed(s) = [disk EXCEPT ![p] = c] /\ c = Merged(fp[s], disk[p])
      BY <1>1, OpenContent DEF CursorInv
    <2>2. Flushed(s)[p] = c
      BY <2>1 DEF CursorInv, StreamInv
    <2>3. fp[s].mode = "r" => c = disk[p]
      BY <2>1, MergedFacts
    <2> QED
      BY <2>1, <2>2, <2>3
  <1>5. /\ w + Len(d) <= MaxLen /\ out' = <<>> /\ mReadPos' = mReadPos
        /\ UNCHANGED <<open, opened, files, mFile>>
    BY <1>3 DEF WriteAt, Lives, kindVars, fileVars
  <1>6. CASE ~Writable(s)
    <2>1. PICK k \in StreamRecs : /\ k = [Sought(s, w) EXCEPT !.buf = <<>>]
                                  /\ k.path = p /\ k.mode = fp[s].mode /\ k.buf = <<>>
      <3>0. <<>> \in Seq(Chars)
        OBVIOUS
      <3>1. PICK b \in Seq(Chars) : b = <<>>
        BY <3>0
      <3>2. PICK k : k = [Sought(s, w) EXCEPT !.buf = b]
        OBVIOUS
      <3>3. StreamInv /\ w \in 0 .. MaxLen
        BY <1>2, <1>3 DEF CursorInv
      <3>4. k \in StreamRecs /\ k.path = p /\ k.mode = fp[s].mode /\ k.buf = b
        BY <3>2, <3>3, BufferIs
      <3> QED
        BY <3>1, <3>2, <3>4
    <2>2. w + Len(<<>>) = w
      BY <1>3
    <2>3. /\ disk' = Flushed(s) /\ fp' = [fp EXCEPT ![s] = k]
          /\ mWritePos' = [mWritePos EXCEPT ![f] = w]
      BY <1>3, <1>6, <2>1, <2>2 DEF WriteAt
    <2>4. mWritePos' = mWritePos
      BY <1>2, <1>3, <2>3 DEF CursorInv, PlacesInv
    <2>5. StreamInv' /\ Saves /\ Contents' = Contents /\ RoomKept /\ PathsKept
      BY <1>5, <2>1, <2>3, FlushKeeps
    <2>6. PlacesInv' /\ Places' = Places
      BY <1>5, <2>4, <2>5, QuietPlaces
    <2>7. Cursors!Next
      BY <1>5, <2>5, <2>6, AskIs
    <2> QED
      BY <2>5, <2>6, <2>7 DEF Refines
  <1>7. CASE Writable(s)
    <2>0. PICK x : x = Overlay(c, w, d)
      OBVIOUS
    <2>1. x \in AllTexts /\ Len(x) >= Len(c) /\ Len(x) >= w + Len(d)
      BY <1>0, <1>5, <2>0, OverlayFacts
    <2>2. PICK n \in 0 .. MaxLen : n = w + Len(d) /\ n - Len(d) = w
      BY <1>0, <1>3, <1>5
    <2>3. PICK k \in StreamRecs : /\ k = [Sought(s, n) EXCEPT !.buf = rest]
                                  /\ k.path = p /\ k.mode = fp[s].mode /\ k.buf = rest /\ k.pos = n
      <3>1. PICK k : k = [Sought(s, n) EXCEPT !.buf = rest]
        OBVIOUS
      <3>2. <<>> \in Seq(Chars)
        OBVIOUS
      <3>3. rest \in Seq(Chars) /\ StreamInv
        BY <1>0, <3>2 DEF CursorInv
      <3>4. k \in StreamRecs /\ k.path = p /\ k.mode = fp[s].mode /\ k.buf = rest /\ k.pos = n
        BY <3>1, <3>3, BufferIs
      <3> QED
        BY <3>1, <3>4
    <2>4. /\ fp' = [fp EXCEPT ![s] = k] /\ mWritePos' = [mWritePos EXCEPT ![f] = n]
          /\ disk' = IF rest = <<>> THEN [Flushed(s) EXCEPT ![p] = Overlay(@, n - Len(d), d)]
                     ELSE Flushed(s)
      BY <1>3, <1>7, <2>2, <2>3 DEF WriteAt
    <2>5. PICK y \in {c, x} : /\ disk' = [disk EXCEPT ![p] = y]
                              /\ y = IF rest = <<>> THEN x ELSE c
      <3>1. CASE rest = <<>>
        <4>1. disk' = [Flushed(s) EXCEPT ![p] = x]
          BY <1>4, <2>0, <2>2, <2>4, <3>1
        <4>2. [Flushed(s) EXCEPT ![p] = x] = [disk EXCEPT ![p] = x]
          BY <1>4 DEF CursorInv, StreamInv
        <4> QED
          BY <3>1, <4>1, <4>2
      <3>2. CASE rest # <<>>
        BY <1>4, <2>4, <3>2
      <3> QED
        BY <3>1, <3>2
    <2>6. fp[s].mode # "r"
      BY <1>7 DEF Writable
    <2>7. Fits(k, y) /\ Merged(k, y) = x
      BY <1>0, <1>3, <2>0, <2>1, <2>2, <2>3, <2>5, <2>6 DEF Fits, Merged
    <2>8. StreamInv' /\ OthersKept(p) /\ Shows(p, Merged(k, y), y)
      <3>1. /\ StreamInv /\ k.path = p /\ k.mode = fp[s].mode
            /\ (k.mode = "r" => y = disk[p]) /\ opened' = opened
            /\ open' = open \/ (open' = open \ {s} /\ k.buf = <<>>)
        BY <1>5, <2>3, <2>6 DEF CursorInv
      <3>2. fp' = [fp EXCEPT ![s] = k] /\ disk' = [disk EXCEPT ![p] = y]
        BY <2>4, <2>5
      <3> QED
        BY <2>7, <3>1, <3>2, StreamStep
    <2>9. Shows(p, x, y) /\ y \in {Text(p), Content(p), x}
      BY <1>1, <2>5, <2>7, <2>8
    <2>10. Saves /\ Contents' = [Contents EXCEPT ![p] = x]
      BY <2>8, <2>9, EffectIs
    <2>11. RoomKept /\ PathsKept
      BY <1>1, <2>1, <2>8, <2>9, RoomIs DEF CursorInv
    <2>12. Within(f, s, n)
      <3>1. fp'[s].path = p
        BY <2>11 DEF PathsKept
      <3>2. Room(s)' = Len(Content(p)')
        BY <3>1 DEF Room
      <3> QED
        BY <2>1, <2>2, <2>9, <3>2 DEF Within, Shows
    <2>13. PICK r \in 0 .. MaxLen : r = mReadPos[f] /\ mReadPos' = [mReadPos EXCEPT ![f] = r]
      BY <1>2, <1>5 DEF CursorInv, PlacesInv
    <2>14. PlacesInv' /\ OnlyMoves(f, s, r, n)
      BY <1>5, <2>4, <2>8, <2>11, <2>12, <2>13, CallPlaces DEF CursorInv
    <2>15. Places' = [Places EXCEPT ![f].w = @ + Len(d)]
      <3>1. Places[f] = [path |-> p, r |-> r, w |-> w]
        BY <1>2, <1>3, <2>13 DEF Places
      <3>2. [Places[f] EXCEPT !.w = @ + Len(d)] = [path |-> p, r |-> r, w |-> n]
        BY <2>2, <3>1
      <3> QED
        BY <2>14, <3>2 DEF OnlyMoves
    <2>16. PICK l \in 1 .. MaxLen : l = Len(d) /\ d \in [1 .. l -> Chars]
      BY <1>0, <1>3, <1>5
    <2>17. Contents' = [Contents EXCEPT ![p] = Overlay(Content(p), Cursor(f).w, d)]
      BY <1>1, <1>2, <1>3, <2>0, <2>10
    <2>18. Cursors!Next
      <3>1. p = Cursor(f).path
        BY <1>2
      <3> QED
        BY <1>2, <1>5, <2>10, <2>15, <2>16, <2>17, <3>1, WriteIs
    <2> QED
      BY <2>8, <2>14, <2>18 DEF Refines
  <1> QED
    BY <1>6, <1>7

\* A call that changes no stream and no place.
LEMMA QuietStep ==
  ASSUME CursorInv, UNCHANGED <<disk, fp, open, opened>>,
         UNCHANGED <<files, mFile, mReadPos, mWritePos>>, out' = <<>>
  PROVE  Refines
  <1>1. StreamInv' /\ Saves /\ Contents' = Contents
    BY NoEffect DEF CursorInv
  <1>2. RoomKept /\ PathsKept
    BY NoRoomEffect DEF CursorInv
  <1>3. PlacesInv' /\ Places' = Places
    BY <1>1, <1>2, QuietPlaces
  <1>4. Cursors!Next
    BY <1>1, <1>3, AskIs
  <1> QED
    BY <1>1, <1>3, <1>4 DEF Refines

\* A call that only writes a buffer out.
LEMMA QuietFlush ==
  ASSUME CursorInv, NEW s \in open, NEW k \in StreamRecs, k.path = fp[s].path,
         k.mode = fp[s].mode, k.buf = <<>>,
         fp' = [fp EXCEPT ![s] = k], disk' = Flushed(s), opened' = opened,
         open' = open \/ (open' = open \ {s} /\ \A h \in files : mFile[h] # s),
         UNCHANGED <<files, mFile, mReadPos, mWritePos>>, out' = <<>>
  PROVE  Refines
  <1>1. StreamInv' /\ Saves /\ Contents' = Contents /\ RoomKept /\ PathsKept
    <2>1. open' = open \/ open' = open \ {s}
      OBVIOUS
    <2> QED
      BY <2>1, FlushKeeps
  <1>2. PlacesInv' /\ Places' = Places
    BY <1>1, QuietPlaces
  <1>3. Cursors!Next
    BY <1>1, <1>2, AskIs
  <1> QED
    BY <1>1, <1>2, <1>3 DEF Refines

\* A File that can be used.
LEMMA UsableIs ==
  ASSUME CursorInv, NEW f, Usable(f)
  PROVE  /\ f \in files /\ f \in Objs /\ mFile[f] \in open
         /\ fp[mFile[f]] \in StreamRecs /\ fp[mFile[f]].path \in Paths
  BY DEF CursorInv, FileInv, Types, StreamInv, StreamRecs, Usable, Alive, Dangles

LEMMA ReadSteps ==
  ASSUME CursorInv, NEW f \in Objs, NEW n \in Nat,
         Fread(f, n) \/ Fgets(f, n) \/ ReadFile(f)
  PROVE  Refines
  <1>0. MaxLen + 1 \in Nat
    BY FileAssumption
  <1>1. Usable(f)
    BY DEF Fread, Fgets, ReadFile
  <1>2. f \in files /\ mFile[f] \in open /\ fp[mFile[f]].path \in Paths
    BY <1>1, UsableIs
  <1>3. PICK s \in open : s = mFile[f]
    BY <1>2
  <1>4. PICK p \in Paths : p = fp[s].path
    BY <1>2, <1>3
  <1>5. PICK r \in Nat : r = mReadPos[f]
    <2>1. mReadPos[f] \in 0 .. MaxLen
      BY <1>2, OpenCursor DEF CursorInv
    <2> QED
      BY <2>1
  <1>6. ASSUME NEW j \in Nat, NEW got, NEW eof \in BOOLEAN, ReadAt(f, got, eof),
               got = Ahead(s, r, j) \/ got = FirstLine(Ahead(s, r, j))
        PROVE  Refines
    <2>1. PICK m \in 0 .. MaxLen : got = Piece(Content(p), r, m)
      BY <1>4, <1>6, AheadIs DEF CursorInv
    <2>2. got = Piece(Content(p), mReadPos[f], m)
      BY <1>5, <2>1
    <2> QED
      BY <1>2, <1>3, <1>4, <1>6, <2>2, ReadStep
  <1>7. CASE Fread(f, n)
    <2>1. PICK got : got = Ahead(s, r, n)
      OBVIOUS
    <2>2. ReadAt(f, got, Len(got) < n)
      BY <1>3, <1>5, <1>7, <2>1 DEF Fread
    <2>3. (Len(got) < n) \in BOOLEAN
      OBVIOUS
    <2> QED
      BY <1>0, <1>6, <2>1, <2>2, <2>3
  <1>8. CASE Fgets(f, n)
    <2>1. PICK got : got = FirstLine(Ahead(s, r, n))
      OBVIOUS
    <2>2. ReadAt(f, got, Len(got) < n /\ NL \notin Range(got))
      BY <1>3, <1>5, <1>8, <2>1 DEF Fgets
    <2>3. (Len(got) < n /\ NL \notin Range(got)) \in BOOLEAN
      OBVIOUS
    <2> QED
      BY <1>0, <1>6, <2>1, <2>2, <2>3
  <1>9. CASE ReadFile(f)
    <2>1. CASE fp[mFile[f]].eof
      BY <1>9, <2>1, QuietStep DEF ReadFile, posVars, Lives, kindVars, fileVars
    <2>2. CASE ~fp[mFile[f]].eof
      <3>1. PICK got : got = Ahead(s, r, MaxLen + 1)
        OBVIOUS
      <3>2. ReadAt(f, got, TRUE)
        BY <1>3, <1>5, <1>9, <2>2, <3>1 DEF ReadFile
      <3> QED
        BY <1>0, <1>6, <3>1, <3>2
    <2> QED
      BY <2>1, <2>2
  <1> QED
    BY <1>7, <1>8, <1>9

LEMMA WriteSteps ==
  ASSUME CursorInv, NEW f \in Objs, NEW d \in Data, Fwrite(f, d) \/ Fprintf(f, d)
  PROVE  Refines
  <1>1. Usable(f) /\ \E rest \in {<<>>, d} : WriteAt(f, d, rest)
    BY DEF Fwrite, Fprintf
  <1>2. f \in files /\ mFile[f] \in open /\ fp[mFile[f]].path \in Paths
    BY <1>1, UsableIs
  <1>3. PICK s \in open : s = mFile[f]
    BY <1>2
  <1>4. PICK p \in Paths : p = fp[s].path
    BY <1>2, <1>3
  <1> QED
    BY <1>1, <1>2, <1>3, <1>4, WriteStep

LEMMA SizeStep ==
  ASSUME CursorInv, NEW f \in Objs, Size(f)
  PROVE  Refines
  <1>1. f \in files /\ mFile[f] \in open /\ fp[mFile[f]] \in StreamRecs
    BY UsableIs DEF Size
  <1>2. PICK s \in open : s = mFile[f]
    BY <1>1
  <1>3. PICK n \in 0 .. MaxLen : n = fp[s].pos
    BY <1>1, <1>2 DEF StreamRecs
  <1>4. PICK k : k = Sought(s, n)
    OBVIOUS
  <1>5. k \in StreamRecs /\ k.path = fp[s].path /\ k.mode = fp[s].mode /\ k.buf = <<>>
    BY <1>4, SoughtIs DEF CursorInv
  <1>6. /\ disk' = Flushed(s) /\ fp' = [fp EXCEPT ![s] = k] /\ out' = <<>>
        /\ UNCHANGED <<open, opened, files, mFile, mReadPos, mWritePos>>
    BY <1>2, <1>3, <1>4 DEF Size, posVars, Lives, kindVars, fileVars
  <1> QED
    BY <1>5, <1>6, QuietFlush

\* resetReadPos and resetWritePos, with a stream or without one.
LEMMA ResetStep ==
  ASSUME CursorInv, NEW f \in Objs, ResetRead(f) \/ ResetWrite(f)
  PROVE  Refines
  <1>1. /\ f \in files /\ files \subseteq Objs /\ 0 \notin open
        /\ mReadPos \in [Objs -> 0 .. MaxLen] /\ mWritePos \in [Objs -> 0 .. MaxLen]
        /\ MaxLen \in Nat
    BY FileAssumption
       DEF CursorInv, FileInv, Types, Ids, PlacesInv, ResetRead, ResetWrite, Alive
  <1>2. PICK r \in 0 .. MaxLen, w \in 0 .. MaxLen :
             /\ mReadPos' = [mReadPos EXCEPT ![f] = r] /\ mWritePos' = [mWritePos EXCEPT ![f] = w]
             /\ w <= mWritePos[f]
             /\ (r = 0 /\ w = mWritePos[f]) \/ (r = mReadPos[f] /\ w = 0)
    <2>0. /\ 0 \in 0 .. MaxLen /\ mReadPos[f] \in 0 .. MaxLen /\ mWritePos[f] \in 0 .. MaxLen
          /\ mReadPos = [mReadPos EXCEPT ![f] = mReadPos[f]]
          /\ mWritePos = [mWritePos EXCEPT ![f] = mWritePos[f]]
          /\ mWritePos[f] <= mWritePos[f] /\ 0 <= mWritePos[f]
      BY <1>1
    <2>1. CASE ResetRead(f)
      <3>1. mReadPos' = [mReadPos EXCEPT ![f] = 0] /\ mWritePos' = mWritePos
        BY <2>1 DEF ResetRead
      <3> QED
        BY <2>0, <3>1
    <2>2. CASE ResetWrite(f)
      <3>1. mWritePos' = [mWritePos EXCEPT ![f] = 0] /\ mReadPos' = mReadPos
        BY <2>2 DEF ResetWrite
      <3> QED
        BY <2>0, <3>1
    <2> QED
      BY <2>1, <2>2
  <1>3. UNCHANGED <<disk, fp, open, opened, files, mFile>> /\ out' = <<>>
    BY DEF ResetRead, ResetWrite, Lives, kindVars, fileVars
  <1>4. StreamInv' /\ Saves /\ Contents' = Contents
    BY <1>3, NoEffect DEF CursorInv
  <1>5. RoomKept /\ PathsKept
    BY <1>3, NoRoomEffect DEF CursorInv
  <1>6. CASE mFile[f] \in open
    <2>1. PICK s \in open : s = mFile[f]
      BY <1>6
    <2>2. Within(f, s, w)
      BY <1>2 DEF Within
    <2>3. PlacesInv' /\ OnlyMoves(f, s, r, w)
      BY <1>1, <1>2, <1>3, <1>4, <1>5, <2>1, <2>2, CallPlaces DEF CursorInv
    <2>4. /\ Cursor(f) \in Cursors!Cursors
          /\ Cursor(f) = [path |-> fp[s].path, r |-> mReadPos[f], w |-> mWritePos[f]]
      BY <1>1, <2>1, OpenCursor DEF CursorInv
    <2>5. \/ [path |-> fp[s].path, r |-> r, w |-> w] = [Cursor(f) EXCEPT !.r = 0]
          \/ [path |-> fp[s].path, r |-> r, w |-> w] = [Cursor(f) EXCEPT !.w = 0]
      BY <1>2, <2>4
    <2>6. \/ Places' = [Places EXCEPT ![f] = [Cursor(f) EXCEPT !.r = 0]]
          \/ Places' = [Places EXCEPT ![f] = [Cursor(f) EXCEPT !.w = 0]]
      BY <2>3, <2>5 DEF OnlyMoves
    <2>7. Cursors!Next
      BY <1>3, <1>4, <2>4, <2>6, ResetIs
    <2> QED
      BY <1>4, <2>3, <2>7 DEF Refines
  <1>7. CASE mFile[f] \notin open
    <2>1. \A h \in Objs \ {f} : mReadPos'[h] = mReadPos[h] /\ mWritePos'[h] = mWritePos[h]
      BY <1>1, <1>2
    <2>2. \A h \in Objs : Cursor(h)' = Cursor(h)
      BY <1>1, <1>3, <1>7, <2>1 DEF Cursor, Dangles
    <2>3. Places' = Places
      BY <2>2 DEF Places
    <2>4. PlacesInv'
      <3>1. mReadPos' \in [Objs -> 0 .. MaxLen] /\ mWritePos' \in [Objs -> 0 .. MaxLen]
        BY <1>1, <1>2
      <3>2. ASSUME NEW h \in files, mFile[h] = 0
            PROVE  mReadPos'[h] = 0 /\ mWritePos'[h] = 0
        BY <1>1, <1>2, <2>1, <3>2 DEF CursorInv, PlacesInv
      <3>3. ASSUME NEW h \in files, mFile[h] \in open
            PROVE  mWritePos'[h] <= Room(mFile[h])'
        <4>1. PICK s \in open : s = mFile[h]
          BY <3>3
        <4>2. Room(mFile[h])' = Room(s)
          BY <1>3, <4>1 DEF Room, Content, OpenStreams, Text, Flushed
        <4> QED
          BY <1>1, <1>7, <2>1, <3>3, <4>1, <4>2 DEF CursorInv, PlacesInv
      <3> QED
        BY <1>3, <3>1, <3>2, <3>3 DEF PlacesInv
    <2>5. Cursors!Next
      BY <1>3, <1>4, <2>3, AskIs
    <2> QED
      BY <1>4, <2>4, <2>5 DEF Refines
  <1> QED
    BY <1>6, <1>7

\* getOneLine moves the stream and no File.
LEMMA LineStep ==
  ASSUME CursorInv, NEW f \in Objs, GetOneLine(f)
  PROVE  Refines
  <1>1. f \in files /\ mFile[f] \in open /\ fp[mFile[f]] \in StreamRecs /\ fp[mFile[f]].path \in Paths
    BY UsableIs DEF GetOneLine
  <1>2. PICK s \in open : s = mFile[f]
    BY <1>1
  <1>3. UNCHANGED <<open, opened, files, mFile, mReadPos, mWritePos>>
    BY DEF GetOneLine, posVars, Lives, kindVars, fileVars
  <1>4. CASE ~Readable(s)
    <2>1. UNCHANGED <<disk, fp>> /\ out' = <<>>
      BY <1>2, <1>4 DEF GetOneLine
    <2> QED
      BY <1>3, <2>1, QuietStep
  <1>5. CASE Readable(s)
    <2>1. PICK p \in Paths : p = fp[s].path
      BY <1>1, <1>2
    <2>2. PICK c \in AllTexts : c = Content(p)
      BY ContentIs DEF ContentRead, CursorInv
    <2>3. PICK r \in 0 .. MaxLen : r = fp[s].pos
      BY <1>1, <1>2 DEF StreamRecs
    <2>4. MaxLen \in Nat /\ r \in Nat
      BY FileAssumption
    <2>5. PICK got : got = FirstLine(Ahead(s, r, MaxLen))
      OBVIOUS
    <2>6. PICK m \in 0 .. MaxLen : got = Piece(Content(p), r, m)
      BY <2>1, <2>4, <2>5, AheadIs DEF CursorInv
    <2>7. PICK n \in 0 .. MaxLen : n = r + Len(got)
      <3>1. Len(c) \in Nat /\ Len(c) <= MaxLen
        BY DEF AllTexts
      <3>2. got = Piece(c, r, m) /\ m \in Nat
        BY <2>2, <2>6
      <3>3. Len(Piece(c, r, m)) = IF r >= Len(c) THEN 0 ELSE IF Len(c) - r <= m THEN Len(c) - r ELSE m
        BY <2>4, <3>2, PieceFacts
      <3> QED
        BY <2>4, <3>1, <3>2, <3>3
    <2>8. PICK e \in BOOLEAN : e = (NL \notin Range(got))
      OBVIOUS
    <2>9. PICK k : k = [fp[s] EXCEPT !.pos = n, !.buf = <<>>, !.eof = e]
      OBVIOUS
    <2>10. k \in StreamRecs /\ k.path = fp[s].path /\ k.mode = fp[s].mode /\ k.buf = <<>>
      <3>1. fp[s] \in StreamRecs /\ <<>> \in Seq(Chars)
        BY <1>1, <1>2
      <3> QED
        BY <2>9, <3>1 DEF StreamRecs
    <2>11. /\ disk' = Flushed(s)
           /\ out' = IF NL \in Range(got) THEN got ELSE <<>>
           /\ fp' = [fp EXCEPT ![s].pos = @ + Len(got), ![s].buf = <<>>, ![s].eof = e]
      BY <1>2, <1>5, <2>3, <2>5, <2>8 DEF GetOneLine
    <2>12. fp' = [fp EXCEPT ![s] = k]
      BY <2>3, <2>7, <2>9, <2>11 DEF CursorInv, StreamInv
    <2>13. StreamInv' /\ Saves /\ Contents' = Contents /\ RoomKept /\ PathsKept
      BY <1>3, <2>10, <2>11, <2>12, FlushKeeps
    <2>14. PlacesInv' /\ Places' = Places
      BY <1>3, <2>13, QuietPlaces
    <2>15. Cursors!Next
      <3>1. CASE NL \in Range(got)
        <4>1. Cursor(f) \in Cursors!Cursors /\ Cursor(f).path = p
          BY <1>1, <1>2, <2>1, OpenCursor DEF CursorInv
        <4>2. out' = Piece(Content(Cursor(f).path), r, m)
          BY <2>6, <2>11, <3>1, <4>1
        <4> QED
          BY <2>13, <2>14, <4>1, <4>2, LineIs
      <3>2. CASE NL \notin Range(got)
        BY <2>11, <2>13, <2>14, <3>2, AskIs
      <3> QED
        BY <3>1, <3>2
    <2> QED
      BY <2>13, <2>14, <2>15 DEF Refines
  <1> QED
    BY <1>4, <1>5

\* A call on a File whose stream is closed shows nothing.
LEMMA FaultStep ==
  ASSUME CursorInv, NEW f \in Objs, UseClosed(f)
  PROVE  Refines
  BY QuietStep DEF UseClosed, streamVars, kindVars, fileVars, posVars

\* syncfile() shows nothing.
LEMMA SyncStep ==
  ASSUME CursorInv, NEW f \in Objs, Syncfile(f)
  PROVE  Refines
  BY QuietStep DEF Syncfile, Lives, kindVars, fileVars, posVars

\* The client closes the stream it had lent, or asks for its size.
LEMMA LentStep ==
  ASSUME CursorInv, NEW s, ClientClose(s) \/ GetFileSize(s)
  PROVE  Refines
  <1>1. s \in open
    BY DEF ClientClose, GetFileSize
  <1>2. PICK k : k = Sought(s, 0)
    OBVIOUS
  <1>3. 0 \in 0 .. MaxLen
    BY FileAssumption
  <1>4. k \in StreamRecs /\ k.path = fp[s].path /\ k.mode = fp[s].mode /\ k.buf = <<>>
    BY <1>1, <1>2, <1>3, SoughtIs DEF CursorInv
  <1>5. /\ fp' = [fp EXCEPT ![s] = k] /\ disk' = Flushed(s)
        /\ open' = open \/ (open' = open \ {s} /\ \A h \in files : mFile[h] # s)
        /\ UNCHANGED <<opened, files, mFile, mReadPos, mWritePos>> /\ out' = <<>>
    BY <1>2 DEF ClientClose, Close, GetFileSize, Lives, kindVars, fileVars, posVars
  <1> QED
    BY <1>1, <1>4, <1>5, QuietFlush

\* FileUtil by path.
LEMMA PathSteps ==
  ASSUME CursorInv, NEW p \in Paths,
         ReadPath(p) \/ DelFile(p) \/ \E d \in Data : SaveFile(p, d)
  PROVE  Refines
  <1>1. UNCHANGED <<fp, open, opened, files, mFile, mReadPos, mWritePos>>
    BY DEF ReadPath, SaveFile, DelFile, posVars, Lives, kindVars, fileVars
  <1>2. CASE ReadPath(p)
    <2>1. UNCHANGED disk /\ out' = Text(p)
      BY <1>2 DEF ReadPath
    <2>2. StreamInv' /\ Saves /\ Contents' = Contents
      BY <1>1, <2>1, NoEffect DEF CursorInv
    <2>3. RoomKept /\ PathsKept
      BY <1>1, <2>1, NoRoomEffect DEF CursorInv
    <2>4. PlacesInv' /\ Places' = Places
      BY <1>1, <2>2, <2>3, QuietPlaces
    <2>5. Cursors!Next
      BY <2>1, <2>2, <2>4, LoadIs
    <2> QED
      BY <2>2, <2>4, <2>5 DEF Refines
  <1>3. CASE DelFile(p) \/ \E d \in Data : SaveFile(p, d)
    <2>1. <<>> \in AllTexts /\ \A d \in Data : d \in AllTexts
      <3>1. MaxWrite \in Nat /\ MaxLen \in Nat /\ MaxWrite <= MaxLen
        BY FileAssumption
      <3>2. \A d \in Data : d \in Seq(Chars) /\ Len(d) <= MaxWrite
        BY <3>1, TextsAre DEF Data
      <3> QED
        BY <3>1, <3>2 DEF AllTexts
    <2>2. PICK x \in AllTexts \cup {Absent} : disk' = [disk EXCEPT ![p] = x]
      BY <1>3, <2>1 DEF SaveFile, DelFile
    <2>3. OpenStreams(p) = {} /\ out' = <<>>
      BY <1>3 DEF SaveFile, DelFile
    <2>4. PICK c \in AllTexts : c = IF x = Absent THEN <<>> ELSE x
      BY <2>1
    <2>5. StreamInv' /\ OthersKept(p) /\ Shows(p, c, c)
      BY <1>1, <2>2, <2>3, <2>4, PathStep DEF CursorInv
    <2>6. Saves /\ Contents' = [Contents EXCEPT ![p] = c]
      BY <2>5, EffectIs
    <2>7. \A s \in open : fp[s].path # p
      BY <2>3 DEF OpenStreams
    <2>8. RoomKept /\ PathsKept
      BY <2>5, <2>7, RoomIs DEF CursorInv
    <2>9. PlacesInv' /\ Places' = Places
      BY <1>1, <2>5, <2>8, QuietPlaces
    <2>10. ASSUME NEW h \in Objs, Cursor(h) \in Cursors!Cursors
           PROVE  Cursor(h).path # p
      <3>1. h \in files /\ mFile[h] \in open
        BY <2>10, NoCursor DEF CursorInv
      <3> QED
        BY <2>7, <3>1, OpenCursor DEF CursorInv
    <2>11. Cursors!Next
      BY <2>3, <2>6, <2>9, <2>10, StoreIs
    <2> QED
      BY <2>5, <2>9, <2>11 DEF Refines
  <1> QED
    BY <1>2, <1>3

-----------------------------------------------------------------------------
(* Files that come and go *)

\* The Files in T come, go or change; the others keep their fields, and lose
\* their file only if their stream is closed.
LEMMA LifeStep ==
  ASSUME CursorInv, StreamInv', RoomKept, PathsKept, open' \subseteq open \cup {opened + 1},
         NEW T \in SUBSET Objs,
         mReadPos' \in [Objs -> 0 .. MaxLen], mWritePos' \in [Objs -> 0 .. MaxLen],
         \A h \in Objs \ T : h \in files' <=> h \in files, files' \subseteq Objs,
         \A h \in files \ T : Like(h, h),
         \A h \in files' \cap T : Fresh(h) \/ \E g \in files : Like(h, g)
  PROVE  /\ PlacesInv'
         /\ \A h \in Objs \ T :
              Offers(h, IF h \in files /\ mFile[h] \in open \ open' THEN Unbound ELSE Cursor(h))
  <1>1. \A h \in files' : Fresh(h) \/ \E g \in files : Like(h, g)
    <2> SUFFICES ASSUME NEW h \in files' PROVE Fresh(h) \/ \E g \in files : Like(h, g)
      OBVIOUS
    <2>1. CASE h \in T
      BY <2>1
    <2>2. CASE h \notin T
      BY <2>2
    <2> QED
      BY <2>1, <2>2
  <1>2. PlacesInv'
    BY <1>1, LifePlaces DEF CursorInv
  <1>3. ASSUME NEW h \in Objs \ T
        PROVE  Offers(h, IF h \in files /\ mFile[h] \in open \ open' THEN Unbound ELSE Cursor(h))
    <2>1. CASE h \in files
      <3>1. Offers(h, IF mFile[h] \in open \ open' THEN Unbound ELSE Cursor(h))
        BY <1>3, <2>1, LikeOffers DEF CursorInv
      <3> QED
        BY <2>1, <3>1
    <2>2. CASE h \notin files
      <3>1. Cursor(h) = NULL /\ h \notin files'
        BY <1>3, <2>2 DEF Cursor
      <3>2. Offers(h, NULL)
        BY <3>1, GoneOffers
      <3> QED
        BY <2>2, <3>1, <3>2
    <2> QED
      BY <2>1, <2>2
  <1> QED
    BY <1>2, <1>3

\* The same when only f comes, goes or changes.
LEMMA OneLives ==
  ASSUME CursorInv, StreamInv', RoomKept, PathsKept, open' \subseteq open \cup {opened + 1},
         NEW f \in Objs,
         mReadPos' \in [Objs -> 0 .. MaxLen], mWritePos' \in [Objs -> 0 .. MaxLen],
         files' \subseteq files \cup {f}, files \subseteq files' \cup {f},
         \A h \in Objs \ {f} : Like(h, h),
         f \in files' => Fresh(f) \/ \E g \in files : Like(f, g)
  PROVE  /\ PlacesInv'
         /\ \A h \in Objs \ {f} :
              Offers(h, IF h \in files /\ mFile[h] \in open \ open' THEN Unbound ELSE Cursor(h))
  <1>0. files \subseteq Objs /\ files' \subseteq Objs
    BY DEF CursorInv, FileInv, Types
  <1>1. PICK T \in SUBSET Objs : T = {f}
    OBVIOUS
  <1>2. /\ \A h \in Objs \ T : h \in files' <=> h \in files
        /\ \A h \in files \ T : Like(h, h)
        /\ \A h \in files' \cap T : Fresh(h) \/ \E g \in files : Like(h, g)
    BY <1>0, <1>1
  <1>3. \A h \in Objs \ T :
          Offers(h, IF h \in files /\ mFile[h] \in open \ open' THEN Unbound ELSE Cursor(h))
    BY <1>0, <1>2, LifeStep
  <1>4. PlacesInv'
    BY <1>0, <1>2, LifeStep
  <1> QED
    BY <1>1, <1>3, <1>4

\* The fields that Become gives f.
LEMMA BecomeIs ==
  ASSUME CursorInv, NEW f \in Objs, NEW u, NEW need, NEW r \in 0 .. MaxLen, NEW w \in 0 .. MaxLen,
         Become(f, u, need, r, w)
  PROVE  /\ mFile'[f] = u /\ mReadPos'[f] = r /\ mWritePos'[f] = w
         /\ \A h \in Objs \ {f} : Like(h, h)
         /\ mReadPos' \in [Objs -> 0 .. MaxLen] /\ mWritePos' \in [Objs -> 0 .. MaxLen]
  BY DEF CursorInv, FileInv, Types, PlacesInv, Become, Like

\* A File appears without a stream.
LEMMA AppearStep ==
  ASSUME CursorInv, NEW f \in Objs, Construct(f)
  PROVE  Refines
  <1>1. /\ UNCHANGED <<disk, fp, open, opened>> /\ out' = <<>>
        /\ files' = files \cup {f} /\ files \subseteq Objs /\ 0 \notin open' /\ 0 \in 0 .. MaxLen
    BY FileAssumption DEF Construct, streamVars, kindVars, CursorInv, FileInv, Types, Ids
  <1>2. StreamInv' /\ Saves /\ Contents' = Contents
    BY <1>1, NoEffect DEF CursorInv
  <1>3. RoomKept /\ PathsKept
    BY <1>1, NoRoomEffect DEF CursorInv
  <1>4. /\ mFile'[f] = 0 /\ mReadPos'[f] = 0 /\ mWritePos'[f] = 0
        /\ \A h \in Objs \ {f} : Like(h, h)
        /\ mReadPos' \in [Objs -> 0 .. MaxLen] /\ mWritePos' \in [Objs -> 0 .. MaxLen]
    BY <1>1, BecomeIs DEF Construct
  <1>5. Fresh(f)
    BY <1>4 DEF Fresh
  <1>6. /\ PlacesInv'
        /\ \A h \in Objs \ {f} :
             Offers(h, IF h \in files /\ mFile[h] \in open \ open' THEN Unbound ELSE Cursor(h))
    BY <1>1, <1>2, <1>3, <1>4, <1>5, OneLives
  <1>7. Offers(f, Unbound)
    BY <1>1, <1>4, <1>5, FreshOffers
  <1>8. PICK L \in SUBSET Objs : L = {}
    OBVIOUS
  <1>9. Cursors!Next
    <2>1. \A h \in Objs : Offers(h, IF h = f THEN Unbound ELSE IF h \in L THEN Unbound ELSE Cursor(h))
      BY <1>1, <1>6, <1>7, <1>8
    <2>2. IsForm(Unbound) /\ \A h \in L : Companion(f, h)
      BY <1>8 DEF IsForm
    <2> QED
      BY <1>1, <1>2, <2>1, <2>2, BindIs
  <1> QED
    BY <1>2, <1>6, <1>9 DEF Refines

\* A File gets a stream that is opened for it, by itself or by a client.
LEMMA OpensStep ==
  ASSUME CursorInv, NEW f \in Objs, NEW p \in Paths, NEW m \in {"r", "r+", "w"},
         OpenNext(p, m), RoomFor(p, m), CanOpen(p, m), out' = <<>>,
         files' = files \cup {f}, mFile' = [mFile EXCEPT ![f] = opened'],
         mReadPos' = [mReadPos EXCEPT ![f] = 0], mWritePos' = [mWritePos EXCEPT ![f] = 0]
  PROVE  Refines
  <1>1. /\ opened' = opened + 1 /\ open' = open \cup {opened + 1}
        /\ files \subseteq Objs /\ files' \subseteq Objs /\ 0 \notin open' /\ 0 \in 0 .. MaxLen
        /\ mFile \in [Objs -> Nat]
        /\ mReadPos \in [Objs -> 0 .. MaxLen] /\ mWritePos \in [Objs -> 0 .. MaxLen]
    BY FileAssumption DEF OpenNext, CursorInv, FileInv, Types, Ids, PlacesInv
  <1>2. /\ StreamInv' /\ OthersKept(p) /\ fp'[opened + 1].path = p
        /\ IF m = "w" THEN Shows(p, <<>>, <<>>) ELSE Shows(p, Content(p), Text(p))
    BY OpenFileStep DEF CursorInv
  <1>3. RoomKept /\ PathsKept
    <2>1. CASE m = "w"
      <3>1. \A s \in open : fp[s].path # p
        BY <2>1 DEF RoomFor, OpenStreams
      <3>2. Shows(p, <<>>, <<>>)
        BY <1>2, <2>1
      <3> QED
        BY <1>2, <3>1, <3>2, RoomIs DEF CursorInv
    <2>2. CASE m # "w"
      <3>1. Shows(p, Content(p), Text(p))
        BY <1>2, <2>2
      <3>2. Len(Content(p)) >= Len(Content(p))
        <4>1. PICK c \in AllTexts : c = Content(p)
          BY ContentIs DEF ContentRead, CursorInv
        <4> QED
          BY <4>1 DEF AllTexts
      <3> QED
        BY <1>2, <3>1, <3>2, RoomIs DEF CursorInv
    <2> QED
      BY <2>1, <2>2
  <1>4. /\ mFile'[f] = opened + 1 /\ mFile'[f] \in open' /\ Fresh(f)
        /\ \A h \in Objs \ {f} : Like(h, h)
        /\ mReadPos' \in [Objs -> 0 .. MaxLen] /\ mWritePos' \in [Objs -> 0 .. MaxLen]
    BY <1>1 DEF Fresh, Like
  <1>5. /\ PlacesInv'
        /\ \A h \in Objs \ {f} :
             Offers(h, IF h \in files /\ mFile[h] \in open \ open' THEN Unbound ELSE Cursor(h))
    BY <1>1, <1>2, <1>3, <1>4, OneLives
  <1>6. PICK c : c = [path |-> p, r |-> 0, w |-> 0]
    OBVIOUS
  <1>7. Offers(f, c)
    <2>1. f \in files'
      OBVIOUS
    <2>2. Offers(f, [path |-> fp'[mFile'[f]].path, r |-> 0, w |-> 0])
      BY <1>1, <1>4, <2>1, FreshOffers
    <2> QED
      BY <1>2, <1>4, <1>6, <2>2
  <1>8. CASE m = "w"
    <2>1. Shows(p, <<>>, <<>>)
      BY <1>2, <1>8
    <2>2. Saves /\ Contents' = [Contents EXCEPT ![p] = <<>>]
      BY <1>2, <2>1, EffectIs
    <2>3. \A h \in Objs : Offers(h, IF h = f THEN [path |-> p, r |-> 0, w |-> 0] ELSE Cursor(h))
      BY <1>1, <1>5, <1>6, <1>7
    <2>4. Cursors!Next
      BY <2>2, <2>3, BindEmptyIs
    <2> QED
      BY <1>2, <1>5, <2>4 DEF Refines
  <1>9. CASE m # "w"
    <2>1. Shows(p, Content(p), Text(p))
      BY <1>2, <1>9
    <2>2. Saves /\ Contents' = Contents
      BY <1>2, <2>1, EffectIs
    <2>3. PICK L \in SUBSET Objs : L = {}
      OBVIOUS
    <2>4. \A h \in Objs : Offers(h, IF h = f THEN c ELSE IF h \in L THEN Unbound ELSE Cursor(h))
      BY <1>1, <1>5, <1>7, <2>3
    <2>5. IsForm(c) /\ \A h \in L : Companion(f, h)
      BY <1>6, <2>3 DEF IsForm
    <2>6. Cursors!Next
      BY <2>2, <2>4, <2>5, BindIs
    <2> QED
      BY <1>2, <1>5, <2>6 DEF Refines
  <1> QED
    BY <1>8, <1>9

\* Files with one open stream are companions.
LEMMA SharersAre ==
  ASSUME CursorInv, NEW f \in files, NEW h \in files, mFile[f] \in open, mFile[h] = mFile[f]
  PROVE  Companion(f, h)
  <1>1. /\ Cursor(f) \in Cursors!Cursors
        /\ Cursor(f) = [path |-> fp[mFile[f]].path, r |-> mReadPos[f], w |-> mWritePos[f]]
    BY OpenCursor DEF CursorInv
  <1>2. /\ Cursor(h) \in Cursors!Cursors
        /\ Cursor(h) = [path |-> fp[mFile[h]].path, r |-> mReadPos[h], w |-> mWritePos[h]]
    BY OpenCursor DEF CursorInv
  <1> QED
    BY <1>1, <1>2 DEF Companion

\* What release() shows: the text in the buffer is not lost, and only the stream
\* of f may be closed.
LEMMA ReleaseShows ==
  ASSUME CursorInv, NEW f \in files, Release(f)
  PROVE  /\ StreamInv' /\ Saves /\ Contents' = Contents /\ RoomKept /\ PathsKept
         /\ opened' = opened /\ out' = <<>>
         /\ open' \subseteq open /\ \A s \in open \ open' : s = mFile[f]
  <1>1. opened' = opened /\ out' = <<>>
    BY DEF Release, kindVars
  <1>2. CASE Closes(f) /\ ~Dangles(f)
    <2>1. PICK s \in open : s = mFile[f]
      BY <1>2 DEF Closes, Dangles
    <2>2. PICK k : k = Sought(s, 0)
      OBVIOUS
    <2>3. 0 \in 0 .. MaxLen
      BY FileAssumption
    <2>4. k \in StreamRecs /\ k.path = fp[s].path /\ k.mode = fp[s].mode /\ k.buf = <<>>
      BY <2>2, <2>3, SoughtIs DEF CursorInv
    <2>5. fp' = [fp EXCEPT ![s] = k] /\ disk' = Flushed(s) /\ open' = open \ {s}
      BY <1>2, <2>1, <2>2 DEF Release, Close
    <2>6. StreamInv' /\ Saves /\ Contents' = Contents /\ RoomKept /\ PathsKept
      BY <1>1, <2>4, <2>5, FlushKeeps
    <2> QED
      BY <1>1, <2>1, <2>5, <2>6
  <1>3. CASE ~(Closes(f) /\ ~Dangles(f))
    <2>1. UNCHANGED <<disk, fp, open>>
      BY <1>3 DEF Release, streamVars
    <2>2. StreamInv' /\ Saves /\ Contents' = Contents
      BY <1>1, <2>1, NoEffect DEF CursorInv
    <2>3. RoomKept /\ PathsKept
      BY <1>1, <2>1, NoRoomEffect DEF CursorInv
    <2> QED
      BY <1>1, <2>1, <2>2, <2>3
  <1> QED
    BY <1>2, <1>3

\* What a step of f does below the Files: nothing, or it closes the stream of f.
LetsGo(f) ==
  /\ StreamInv' /\ Saves /\ Contents' = Contents /\ RoomKept /\ PathsKept
  /\ open' \subseteq open /\ out' = <<>>
  /\ \A s \in open \ open' : s = mFile[f] /\ f \in files

\* fclose() and the destructor.
LEMMA GoesStep ==
  ASSUME CursorInv, NEW f \in Objs, Fclose(f) \/ Destroy(f)
  PROVE  Refines
  <1>1. f \in files /\ Release(f) /\ (files' = files \/ files' = files \ {f})
        /\ \E need \in BOOLEAN : Become(f, 0, need, 0, 0)
    BY DEF Fclose, Destroy, Alive
  <1>2. /\ StreamInv' /\ Saves /\ Contents' = Contents /\ RoomKept /\ PathsKept
        /\ opened' = opened /\ out' = <<>>
        /\ open' \subseteq open /\ \A s \in open \ open' : s = mFile[f]
    BY <1>1, ReleaseShows
  <1>3. 0 \in 0 .. MaxLen /\ files \subseteq Objs /\ 0 \notin open'
    BY <1>2, FileAssumption DEF CursorInv, FileInv, Types, Ids
  <1>4. /\ mFile'[f] = 0 /\ mReadPos'[f] = 0 /\ mWritePos'[f] = 0
        /\ \A h \in Objs \ {f} : Like(h, h)
        /\ mReadPos' \in [Objs -> 0 .. MaxLen] /\ mWritePos' \in [Objs -> 0 .. MaxLen]
    BY <1>1, <1>3, BecomeIs
  <1>5. Fresh(f)
    BY <1>4 DEF Fresh
  <1>6. /\ PlacesInv'
        /\ \A h \in Objs \ {f} :
             Offers(h, IF h \in files /\ mFile[h] \in open \ open' THEN Unbound ELSE Cursor(h))
    BY <1>1, <1>2, <1>3, <1>4, <1>5, OneLives
  <1>7. PICK c \in {NULL, Unbound} : Offers(f, c)
    <2>1. CASE f \in files'
      BY <1>3, <1>4, <1>5, <2>1, FreshOffers
    <2>2. CASE f \notin files'
      BY <2>2, GoneOffers
    <2> QED
      BY <2>1, <2>2
  <1>8. PICK L \in SUBSET Objs : L = {h \in files \ {f} : mFile[h] \in open \ open'}
    BY <1>3
  <1>9. \A h \in L : Companion(f, h)
    BY <1>1, <1>2, <1>8, SharersAre
  <1>10. \A h \in Objs : Offers(h, IF h = f THEN c ELSE IF h \in L THEN Unbound ELSE Cursor(h))
    BY <1>6, <1>7, <1>8
  <1>11. Cursors!Next
    <2>1. IsForm(c)
      BY DEF IsForm
    <2> QED
      BY <1>2, <1>9, <1>10, <2>1, BindIs
  <1> QED
    BY <1>2, <1>6, <1>11 DEF Refines

\* A copy of g is made, in a new File or in one that lets its stream go.
LEMMA CopiesStep ==
  ASSUME CursorInv, NEW f \in Objs, NEW g \in Objs, CopyConstruct(f, g) \/ CopyAssign(f, g)
  PROVE  Refines
  <1>1. g \in files /\ g # f /\ files' = files \cup {f} /\ CopyFrom(f, g)
    BY DEF CopyConstruct, CopyAssign, Free, Alive
  <1>2. LetsGo(f) /\ opened' = opened
    <2>1. CASE CopyConstruct(f, g)
      <3>1. UNCHANGED <<disk, fp, open, opened>> /\ out' = <<>>
        BY <2>1 DEF CopyConstruct, streamVars, kindVars
      <3>2. StreamInv' /\ Saves /\ Contents' = Contents
        BY <3>1, NoEffect DEF CursorInv
      <3>3. RoomKept /\ PathsKept
        BY <3>1, NoRoomEffect DEF CursorInv
      <3> QED
        BY <3>1, <3>2, <3>3 DEF LetsGo
    <2>2. CASE CopyAssign(f, g)
      <3>1. f \in files /\ Release(f)
        BY <2>2 DEF CopyAssign, Alive
      <3> QED
        BY <3>1, ReleaseShows DEF LetsGo
    <2> QED
      BY <2>1, <2>2
  <1>3. /\ StreamInv' /\ Saves /\ Contents' = Contents /\ RoomKept /\ PathsKept
        /\ open' \subseteq open /\ out' = <<>> /\ files \subseteq Objs /\ files' \subseteq Objs
    BY <1>1, <1>2 DEF LetsGo, CursorInv, FileInv, Types
  <1>4. /\ Like(f, g) /\ \A h \in Objs \ {f} : Like(h, h)
        /\ mReadPos' \in [Objs -> 0 .. MaxLen] /\ mWritePos' \in [Objs -> 0 .. MaxLen]
    <2>1. mReadPos[g] \in 0 .. MaxLen /\ mWritePos[g] \in 0 .. MaxLen
      BY DEF CursorInv, PlacesInv
    <2>2. Become(f, mFile[g], g \in mNeedClosed, mReadPos[g], mWritePos[g])
      BY <1>1 DEF CopyFrom
    <2>3. /\ mFile'[f] = mFile[g] /\ mReadPos'[f] = mReadPos[g] /\ mWritePos'[f] = mWritePos[g]
          /\ \A h \in Objs \ {f} : Like(h, h)
          /\ mReadPos' \in [Objs -> 0 .. MaxLen] /\ mWritePos' \in [Objs -> 0 .. MaxLen]
      BY <2>1, <2>2, BecomeIs
    <2> QED
      BY <2>3 DEF Like
  <1>5. /\ PlacesInv'
        /\ \A h \in Objs \ {f} :
             Offers(h, IF h \in files /\ mFile[h] \in open \ open' THEN Unbound ELSE Cursor(h))
    BY <1>1, <1>3, <1>4, OneLives
  <1>6. PICK c : c = IF mFile[g] \in open \ open' THEN Unbound ELSE Cursor(g)
    OBVIOUS
  <1>7. Offers(f, c)
    BY <1>1, <1>3, <1>4, <1>6, LikeOffers DEF CursorInv
  <1>8. PICK L \in SUBSET Objs : L = {h \in files \ {f} : mFile[h] \in open \ open'}
    BY <1>3
  <1>9. \A h \in L : Companion(f, h)
    BY <1>2, <1>8, SharersAre DEF LetsGo
  <1>10. \A h \in Objs : Offers(h, IF h = f THEN c ELSE IF h \in L THEN Unbound ELSE Cursor(h))
    BY <1>5, <1>7, <1>8
  <1>11. Cursors!Next
    <2>1. IsForm(c)
      BY <1>6 DEF IsForm
    <2> QED
      BY <1>3, <1>9, <1>10, <2>1, BindIs
  <1> QED
    BY <1>3, <1>5, <1>11 DEF Refines

\* The fields that TakeFrom gives f and g.
LEMMA TakeFromIs ==
  ASSUME CursorInv, NEW f \in Objs, NEW g \in Objs, f # g, TakeFrom(f, g)
  PROVE  /\ Like(f, g) /\ mFile'[g] = 0 /\ Fresh(g)
         /\ \A h \in Objs \ {f, g} : Like(h, h)
         /\ mReadPos' \in [Objs -> 0 .. MaxLen] /\ mWritePos' \in [Objs -> 0 .. MaxLen]
  <1>1. /\ mFile \in [Objs -> Nat] /\ 0 \in 0 .. MaxLen
        /\ mReadPos \in [Objs -> 0 .. MaxLen] /\ mWritePos \in [Objs -> 0 .. MaxLen]
    BY FileAssumption DEF CursorInv, FileInv, Types, PlacesInv
  <1> QED
    BY <1>1 DEF TakeFrom, Like, Fresh

\* f takes the stream of g, which is lost if f and g shared it and f closes it.
LEMMA MovesStep ==
  ASSUME CursorInv, NEW f \in Objs, NEW g \in Objs, MoveConstruct(f, g) \/ MoveAssign(f, g)
  PROVE  Refines
  <1>1. g \in files /\ g # f /\ files' = files \cup {f} /\ TakeFrom(f, g)
    BY DEF MoveConstruct, MoveAssign, Free, Alive
  <1>2. LetsGo(f) /\ opened' = opened
    <2>1. CASE MoveConstruct(f, g)
      <3>1. UNCHANGED <<disk, fp, open, opened>> /\ out' = <<>>
        BY <2>1 DEF MoveConstruct, streamVars, kindVars
      <3>2. StreamInv' /\ Saves /\ Contents' = Contents
        BY <3>1, NoEffect DEF CursorInv
      <3>3. RoomKept /\ PathsKept
        BY <3>1, NoRoomEffect DEF CursorInv
      <3> QED
        BY <3>1, <3>2, <3>3 DEF LetsGo
    <2>2. CASE MoveAssign(f, g)
      <3>1. f \in files /\ Release(f)
        BY <2>2 DEF MoveAssign, Alive
      <3> QED
        BY <3>1, ReleaseShows DEF LetsGo
    <2> QED
      BY <2>1, <2>2
  <1>3. /\ StreamInv' /\ Saves /\ Contents' = Contents /\ RoomKept /\ PathsKept
        /\ open' \subseteq open /\ out' = <<>> /\ files \subseteq Objs /\ files' \subseteq Objs
        /\ 0 \notin open'
    BY <1>1, <1>2 DEF LetsGo, CursorInv, FileInv, Types, Ids
  <1>4. /\ Like(f, g) /\ mFile'[g] = 0 /\ Fresh(g)
        /\ \A h \in Objs \ {f, g} : Like(h, h)
        /\ mReadPos' \in [Objs -> 0 .. MaxLen] /\ mWritePos' \in [Objs -> 0 .. MaxLen]
    BY <1>1, TakeFromIs
  <1>5. PICK T \in SUBSET Objs : T = {f, g}
    OBVIOUS
  <1>6. /\ PlacesInv'
        /\ \A h \in Objs \ T :
             Offers(h, IF h \in files /\ mFile[h] \in open \ open' THEN Unbound ELSE Cursor(h))
    <2>1. /\ \A h \in Objs \ T : h \in files' <=> h \in files
          /\ \A h \in files \ T : Like(h, h)
          /\ \A h \in files' \cap T : Fresh(h) \/ \E i \in files : Like(h, i)
          /\ open' \subseteq open \cup {opened + 1}
      BY <1>1, <1>3, <1>4, <1>5
    <2>2. \A h \in Objs \ T :
            Offers(h, IF h \in files /\ mFile[h] \in open \ open' THEN Unbound ELSE Cursor(h))
      BY <1>3, <1>4, <2>1, LifeStep
    <2>3. PlacesInv'
      BY <1>3, <1>4, <2>1, LifeStep
    <2> QED
      BY <2>2, <2>3
  <1>7. Offers(g, Unbound)
    BY <1>1, <1>3, <1>4, FreshOffers
  <1>8. Offers(f, IF mFile[g] \in open \ open' THEN Unbound ELSE Cursor(g))
    BY <1>1, <1>3, <1>4, LikeOffers DEF CursorInv
  <1>9. CASE mFile[g] \in open \ open'
    <2>1. PICK L \in SUBSET Objs : L = {h \in files \ {f} : mFile[h] \in open \ open'}
      BY <1>3
    <2>2. \A h \in L : Companion(f, h)
      BY <1>2, <2>1, SharersAre DEF LetsGo
    <2>3. \A h \in Objs : Offers(h, IF h = f THEN Unbound ELSE IF h \in L THEN Unbound ELSE Cursor(h))
      BY <1>1, <1>5, <1>6, <1>7, <1>8, <1>9, <2>1
    <2>4. Cursors!Next
      <3>1. IsForm(Unbound)
        BY DEF IsForm
      <3> QED
        BY <1>3, <2>2, <2>3, <3>1, BindIs
    <2> QED
      BY <1>3, <1>6, <2>4 DEF Refines
  <1>10. CASE mFile[g] \notin open \ open'
    <2>1. PICK L \in SUBSET Objs : L = {h \in files \ {f} : mFile[h] \in open \ open'}
      BY <1>3
    <2>2. \A h \in L : Companion(f, h)
      BY <1>2, <2>1, SharersAre DEF LetsGo
    <2>3. \A h \in Objs : Offers(h, IF h = f THEN Cursor(g)
                                     ELSE IF h \in L \cup {g} THEN Unbound ELSE Cursor(h))
      BY <1>1, <1>5, <1>6, <1>7, <1>8, <1>10, <2>1
    <2>4. Cursors!Next
      BY <1>3, <2>2, <2>3, MoveIs
    <2> QED
      BY <1>3, <1>6, <2>4 DEF Refines
  <1> QED
    BY <1>9, <1>10

-----------------------------------------------------------------------------
(* The refinement *)

LEMMA StepRefines ==
  ASSUME CursorInv, Next
  PROVE  Refines
  <1>0. Modes \subseteq {"r", "r+", "w"} /\ MaxLen \in Nat
    BY FileAssumption
  <1>1. ASSUME NEW f \in Objs,
               \/ Construct(f) \/ Fclose(f) \/ Destroy(f) \/ UseClosed(f)
               \/ \E p \in Paths, m \in Modes : OpenConstructFails(f, p, m)
        PROVE  Refines
    BY <1>1, AppearStep, GoesStep, FaultStep DEF OpenConstructFails
  <1>2. ASSUME NEW f \in Objs, NEW p \in Paths, Borrow(f, p)
        PROVE  Refines
    <2>1. /\ OpenNext(p, "r+") /\ RoomFor(p, "r+") /\ CanOpen(p, "r+") /\ out' = <<>>
          /\ files' = files \cup {f} /\ mFile' = [mFile EXCEPT ![f] = opened']
          /\ mReadPos' = [mReadPos EXCEPT ![f] = 0] /\ mWritePos' = [mWritePos EXCEPT ![f] = 0]
      BY <1>2 DEF Borrow, Become
    <2> QED
      BY <2>1, OpensStep
  <1>3. ASSUME NEW f \in Objs, NEW p \in Paths, NEW m \in Modes, OpenConstruct(f, p, m)
        PROVE  Refines
    <2>1. /\ OpenNext(p, m) /\ RoomFor(p, m) /\ CanOpen(p, m) /\ out' = <<>>
          /\ files' = files \cup {f} /\ mFile' = [mFile EXCEPT ![f] = opened']
          /\ mReadPos' = [mReadPos EXCEPT ![f] = 0] /\ mWritePos' = [mWritePos EXCEPT ![f] = 0]
      BY <1>3 DEF OpenConstruct, OpenIn, Become
    <2> QED
      BY <1>0, <2>1, OpensStep
  <1>4. ASSUME NEW f \in Objs, NEW p \in Paths, NEW m \in Modes, Fopen(f, p, m)
        PROVE  Refines
    <2>1. /\ OpenNext(p, m) /\ RoomFor(p, m) /\ CanOpen(p, m) /\ out' = <<>>
          /\ f \in files /\ mFile[f] = 0
          /\ files' = files /\ mFile' = [mFile EXCEPT ![f] = opened']
          /\ mReadPos' = mReadPos /\ mWritePos' = mWritePos
      BY <1>4 DEF Fopen, OpenIn, Alive, posVars
    <2>2. /\ mReadPos[f] = 0 /\ mWritePos[f] = 0 /\ files' = files \cup {f}
          /\ mReadPos' = [mReadPos EXCEPT ![f] = 0] /\ mWritePos' = [mWritePos EXCEPT ![f] = 0]
      BY <2>1 DEF CursorInv, PlacesInv
    <2> QED
      BY <1>0, <2>1, <2>2, OpensStep
  <1>5. ASSUME NEW f \in Objs, NEW g \in Objs,
               \/ CopyConstruct(f, g) \/ CopyAssign(f, g)
               \/ MoveConstruct(f, g) \/ MoveAssign(f, g)
        PROVE  Refines
    BY <1>5, CopiesStep, MovesStep
  <1>6. ASSUME NEW f \in Objs, NEW n \in Nat, Fread(f, n) \/ Fgets(f, n) \/ ReadFile(f)
        PROVE  Refines
    BY <1>6, ReadSteps
  <1>7. ASSUME NEW f \in Objs,
               Size(f) \/ Syncfile(f) \/ ResetRead(f) \/ ResetWrite(f) \/ GetOneLine(f)
        PROVE  Refines
    BY <1>7, SizeStep, SyncStep, ResetStep, LineStep
  <1>8. ASSUME NEW f \in Objs, NEW d \in Data, Fwrite(f, d) \/ Fprintf(f, d)
        PROVE  Refines
    BY <1>8, WriteSteps
  <1>9. ASSUME NEW s, ClientClose(s) \/ GetFileSize(s)
        PROVE  Refines
    BY <1>9, LentStep
  <1>10. ASSUME NEW p \in Paths, ReadPath(p) \/ DelFile(p) \/ \E d \in Data : SaveFile(p, d)
        PROVE  Refines
    BY <1>10, PathSteps
  <1>11. \A n \in 1 .. MaxLen : n \in Nat
    BY <1>0
  <1> QED
    BY <1>1, <1>2, <1>3, <1>4, <1>5, <1>6, <1>7, <1>8, <1>9, <1>10, <1>11 DEF Next

LEMMA StutterRefines ==
  ASSUME CursorInv, UNCHANGED vars
  PROVE  StreamInv' /\ PlacesInv' /\ UNCHANGED Cursors!cursorVars
  <1>1. UNCHANGED <<disk, fp, open, opened, files, mFile, mReadPos, mWritePos, out>>
    BY DEF vars, streamVars, kindVars, fileVars, posVars
  <1>2. StreamInv' /\ Contents' = Contents
    BY <1>1, NoEffect DEF CursorInv
  <1>3. RoomKept /\ PathsKept
    BY <1>1, NoRoomEffect DEF CursorInv
  <1>4. PlacesInv' /\ Places' = Places
    BY <1>1, <1>2, <1>3, QuietPlaces
  <1>5. \A p \in Paths : Text(p)' = Text(p)
    BY <1>1 DEF Text
  <1> QED
    BY <1>1, <1>2, <1>4, <1>5 DEF Cursors!cursorVars, Contents, Places

LEMMA InitRefines ==
  ASSUME Init
  PROVE  StreamInv /\ PlacesInv /\ Cursors!Init
  <1>1. StreamInv
    BY FileAssumption DEF Init, StreamInv
  <1>2. PlacesInv
    BY FileAssumption DEF Init, PlacesInv
  <1>3. \A p \in Paths : Text(p) = <<>> /\ Content(p) = <<>>
    BY DEF Init, Text, Content, OpenStreams
  <1>4. \A f \in Objs : Cursor(f) = NULL
    BY DEF Init, Cursor
  <1>5. out = <<>>
    BY DEF Init
  <1> QED
    BY <1>1, <1>2, <1>3, <1>4, <1>5 DEF Cursors!Init

\* The text in every buffer can be written out, no File is to write behind the
\* end of its file, and a File without a stream is at the beginning.
THEOREM StreamsAndPlaces == Spec => [](StreamInv /\ PlacesInv)
  <1>1. CursorInv /\ [Next]_vars => StreamInv' /\ PlacesInv'
    BY StepRefines, StutterRefines DEF Refines
  <1>2. Init => StreamInv /\ PlacesInv
    BY InitRefines
  <1>3. FileInv /\ StreamInv /\ PlacesInv <=> CursorInv
    BY DEF CursorInv
  <1> QED
    BY <1>1, <1>2, <1>3, Ownership, PTL DEF Spec

\* File implements CursorFile: through any interleaving of copies, moves, opening
\* and closing, every File reads and writes at its own places in a file whose
\* text includes what fprintf has left in the buffer of its stream, and a call
\* takes the file only from Files that share the stream it closes.
THEOREM FilesAreCursors == Spec => ImplementsCursors
  <1>1. Init => Cursors!Init
    BY InitRefines
  <1>2. CursorInv /\ [Next]_vars => [Cursors!Next]_(Cursors!cursorVars)
    BY StepRefines, StutterRefines DEF Refines
  <1>3. FileInv /\ StreamInv /\ PlacesInv <=> CursorInv
    BY DEF CursorInv
  <1> QED
    BY <1>1, <1>2, <1>3, Ownership, StreamsAndPlaces, PTL DEF Spec, ImplementsCursors, Cursors!Spec

=============================================================================
