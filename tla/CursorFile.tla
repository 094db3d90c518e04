----------------------------- MODULE CursorFile ------------------------------
(***************************************************************************)
(* What File (inc/os/File.h) offers its clients, without FILE*: an object   *)
(* stands for a file and has a place to read from and a place to write to,  *)
(* both its own.  A call moves one of the two by what it read or wrote,     *)
(* except getOneLine, which moves neither.                                 *)
(***************************************************************************)
EXTENDS Integers, Sequences, SequencesExt, FiniteSetsExt

CONSTANTS Objs, Paths, Chars, NULL, Unbound, MaxLen

VARIABLES
  content,   \* per path: the characters of the file
  saved,     \* per path: the characters that have reached the system
  cur,       \* per object: NULL (no object), Unbound (no file open) or a cursor
  out        \* what the last call has read, <<>> if it reads nothing

cursorVars == <<content, saved, cur, out>>

Cursors == [path : Paths, r : 0 .. MaxLen, w : 0 .. MaxLen]

\* At most n characters of c behind place r.
Piece(c, r, n) == SubSeq(c, r + 1, Min({Len(c), r + n}))

\* d written over c at place w, which is not behind the end of c.
Overlay(c, w, d) ==
  [i \in 1 .. Max({Len(c), w + Len(d)}) |->
     IF i \in w + 1 .. w + Len(d) THEN d[i - w] ELSE c[i]]

Init ==
  /\ content \in [Paths -> {<<>>}]
  /\ saved = content
  /\ cur = [f \in Objs |-> NULL]
  /\ out = <<>>

\* The objects that may lose their file when f lets go of its own: copies of
\* one object have the file in common.
Companions(f) ==
  {g \in Objs : /\ cur[f] \in Cursors /\ cur[g] \in Cursors
                /\ cur[g].path = cur[f].path}

\* What f may become: nothing, an object without a file, a copy of another
\* object, an object at the beginning of a file.
Forms == {NULL, Unbound} \cup {cur[g] : g \in Objs}
         \cup [path : Paths, r : {0}, w : {0}]

\* An object appears, goes, opens, closes, or becomes a copy of another one.
Bind(f, c, losers) ==
  /\ cur' = [g \in Objs |-> IF g = f THEN c ELSE IF g \in losers THEN Unbound ELSE cur[g]]
  /\ out' = <<>> /\ UNCHANGED content

\* Opening for writing empties the file.
BindEmpty(f, p) ==
  /\ cur' = [cur EXCEPT ![f] = [path |-> p, r |-> 0, w |-> 0]]
  /\ content' = [content EXCEPT ![p] = <<>>]
  /\ out' = <<>>

\* f takes the cursor of g, and lets go of its own file.
Move(f, g, losers) ==
  /\ cur' = [h \in Objs |-> IF h = f THEN cur[g]
                            ELSE IF h \in losers \cup {g} THEN Unbound ELSE cur[h]]
  /\ out' = <<>> /\ UNCHANGED content

Read(f, n) ==
  /\ cur[f] \in Cursors
  /\ out' = Piece(content[cur[f].path], cur[f].r, n)
  /\ cur' = [cur EXCEPT ![f].r = @ + Len(out')]
  /\ UNCHANGED content

Write(f, d) ==
  /\ cur[f] \in Cursors
  /\ content' = [content EXCEPT ![cur[f].path] = Overlay(@, cur[f].w, d)]
  /\ cur' = [cur EXCEPT ![f].w = @ + Len(d)]
  /\ out' = <<>>

Reset(f) ==
  /\ cur[f] \in Cursors
  /\ \E c \in {[cur[f] EXCEPT !.r = 0], [cur[f] EXCEPT !.w = 0]} :
       cur' = [cur EXCEPT ![f] = c]
  /\ out' = <<>> /\ UNCHANGED content

\* getOneLine returns some line and moves neither place.
Line(f) ==
  /\ cur[f] \in Cursors
  /\ \E r, n \in 0 .. MaxLen : out' = Piece(content[cur[f].path], r, n)
  /\ UNCHANGED <<content, cur>>

\* Files nobody has open change.
Store(p, c) ==
  /\ \A f \in Objs : cur[f] \in Cursors => cur[f].path # p
  /\ content' = [content EXCEPT ![p] = c]
  /\ out' = <<>> /\ UNCHANGED cur

\* A file is read by its path: what has reached the system.
Load(p) == out' = saved[p] /\ UNCHANGED <<content, cur>>

\* A call that only asks.
Ask == out' = <<>> /\ UNCHANGED <<content, cur>>

\* A call may bring a file's characters to the system, from before it or after.
Save ==
  /\ DOMAIN saved' = Paths
  /\ \A p \in Paths : saved'[p] \in {saved[p], content[p], content'[p]}

Call ==
  \/ Ask
  \/ \E f \in Objs :
       \/ Reset(f) \/ Line(f)
       \/ \E n \in 0 .. MaxLen : Read(f, n)
       \/ \E n \in 1 .. MaxLen : \E d \in [1 .. n -> Chars] : Write(f, d)
       \/ \E p \in Paths : BindEmpty(f, p)
       \/ \E losers \in SUBSET Companions(f) :
            \/ \E c \in Forms : Bind(f, c, losers)
            \/ \E g \in Objs : Move(f, g, losers)
  \/ \E p \in Paths :
       \/ Load(p)
       \/ \E c \in SeqOf(Chars, MaxLen) : Store(p, c)

Next == Call /\ Save

Spec == Init /\ [][Next]_cursorVars

=============================================================================
