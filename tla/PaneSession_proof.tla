---------------------------- MODULE PaneSession_proof ----------------------------
(***************************************************************************)
(* Theorems about PaneSession, for any cells, states, slots and bounds.    *)
(***************************************************************************)
EXTENDS PaneSession, TLAPS

(***************************************************************************)
(* Chains of requests: what an operation of each kind still has to send.   *)
(***************************************************************************)

Kinds == {"seed", "commit", "undo", "redo", "step", "toggle", "poll"}
Requests == {"state", "again", "full", "reset", "cells", "step", "pause", "start", "resume"}

Resuming == {<<"pause", "cells", "resume">>, <<"cells", "resume">>, <<"full", "resume">>,
             <<"resume">>}
Chains(kind) ==
    CASE kind = "seed" -> {<<"reset">>, <<"reset", "cells">>, <<"cells">>, <<"full">>}
      [] kind = "commit" -> {<<"state">>, <<"again">>, <<"cells">>, <<"full">>} \cup Resuming
      [] kind \in {"undo", "redo"} -> {<<"cells">>, <<"full">>} \cup Resuming
      [] kind = "step" -> {<<"step">>}
      [] kind = "toggle" -> {<<"state">>, <<"pause">>, <<"resume">>, <<"start">>}
      [] kind = "poll" -> {<<"state">>}

LEMMA Short ==
  ASSUME NEW x \in Requests
  PROVE  /\ <<x>> \in Seq(Requests) /\ <<x>> # <<>>
         /\ Head(<<x>>) = x /\ Tail(<<x>>) = <<>> /\ Len(<<x>>) = 1
         /\ <<"full">> \o Tail(<<x>>) = <<"full">>
<1>1. /\ <<x>> \in Seq(Requests) /\ <<x>> # <<>>
      /\ Head(<<x>>) = x /\ Tail(<<x>>) = <<>> /\ Len(<<x>>) = 1
  OBVIOUS
<1>2. <<"full">> \in Seq(Requests) /\ <<>> \in Seq(Requests)
  BY DEF Requests
<1>3. PICK c : c = <<"full">> \o <<>>
  OBVIOUS
<1>4. Len(c) = 1 /\ c \in Seq(Requests) /\ c[1] = "full"
  BY <1>2, <1>3
<1>5. c = <<"full">>
  BY <1>4
<1>6. QED
  BY <1>1, <1>3, <1>5

LEMMA Long ==
  ASSUME NEW x \in Requests, NEW y \in Requests
  PROVE  /\ <<x, y>> \in Seq(Requests) /\ <<x, y>> # <<>>
         /\ Head(<<x, y>>) = x /\ Tail(<<x, y>>) = <<y>> /\ Len(<<x, y>>) = 2
         /\ <<"full">> \o Tail(<<x, y>>) = <<"full", y>>
<1>1. /\ <<x, y>> \in Seq(Requests) /\ <<x, y>> # <<>>
      /\ Head(<<x, y>>) = x /\ Tail(<<x, y>>) = <<y>> /\ Len(<<x, y>>) = 2
  OBVIOUS
<1>2. <<"full">> \in Seq(Requests) /\ <<y>> \in Seq(Requests)
  BY DEF Requests
<1>3. PICK c : c = <<"full">> \o <<y>>
  OBVIOUS
<1>4. Len(c) = 2 /\ c \in Seq(Requests) /\ c[1] = "full" /\ c[2] = y
  BY <1>2, <1>3
<1>5. c = <<"full", y>>
  BY <1>4
<1>6. QED
  BY <1>1, <1>3, <1>5

LEMMA Longest ==
  /\ <<"pause", "cells", "resume">> \in Seq(Requests)
  /\ <<"pause", "cells", "resume">> # <<>>
  /\ Head(<<"pause", "cells", "resume">>) = "pause"
  /\ Tail(<<"pause", "cells", "resume">>) = <<"cells", "resume">>
  /\ Len(<<"pause", "cells", "resume">>) = 3
  BY DEF Requests

\* The chains one by one.
LEMMA Literals ==
  /\ <<"state">> \in Seq(Requests) /\ <<"state">> # <<>> /\ Head(<<"state">>) = "state"
  /\ Tail(<<"state">>) = <<>> /\ Len(<<"state">>) = 1
  /\ <<"again">> \in Seq(Requests) /\ <<"again">> # <<>> /\ Head(<<"again">>) = "again"
  /\ Tail(<<"again">>) = <<>> /\ Len(<<"again">>) = 1
  /\ <<"full">> \in Seq(Requests) /\ <<"full">> # <<>> /\ Head(<<"full">>) = "full"
  /\ Tail(<<"full">>) = <<>> /\ Len(<<"full">>) = 1
  /\ <<"reset">> \in Seq(Requests) /\ <<"reset">> # <<>> /\ Head(<<"reset">>) = "reset"
  /\ Tail(<<"reset">>) = <<>> /\ Len(<<"reset">>) = 1
  /\ <<"cells">> \in Seq(Requests) /\ <<"cells">> # <<>> /\ Head(<<"cells">>) = "cells"
  /\ Tail(<<"cells">>) = <<>> /\ Len(<<"cells">>) = 1
  /\ <<"step">> \in Seq(Requests) /\ <<"step">> # <<>> /\ Head(<<"step">>) = "step"
  /\ Tail(<<"step">>) = <<>> /\ Len(<<"step">>) = 1
  /\ <<"pause">> \in Seq(Requests) /\ <<"pause">> # <<>> /\ Head(<<"pause">>) = "pause"
  /\ Tail(<<"pause">>) = <<>> /\ Len(<<"pause">>) = 1
  /\ <<"start">> \in Seq(Requests) /\ <<"start">> # <<>> /\ Head(<<"start">>) = "start"
  /\ Tail(<<"start">>) = <<>> /\ Len(<<"start">>) = 1
  /\ <<"resume">> \in Seq(Requests) /\ <<"resume">> # <<>> /\ Head(<<"resume">>) = "resume"
  /\ Tail(<<"resume">>) = <<>> /\ Len(<<"resume">>) = 1
  /\ <<"cells", "resume">> \in Seq(Requests) /\ <<"cells", "resume">> # <<>> /\ Head(<<"cells", "resume">>) = "cells"
  /\ Tail(<<"cells", "resume">>) = <<"resume">> /\ Len(<<"cells", "resume">>) = 2
  /\ <<"full", "resume">> \in Seq(Requests) /\ <<"full", "resume">> # <<>> /\ Head(<<"full", "resume">>) = "full"
  /\ Tail(<<"full", "resume">>) = <<"resume">> /\ Len(<<"full", "resume">>) = 2
  /\ <<"reset", "cells">> \in Seq(Requests) /\ <<"reset", "cells">> # <<>> /\ Head(<<"reset", "cells">>) = "reset"
  /\ Tail(<<"reset", "cells">>) = <<"cells">> /\ Len(<<"reset", "cells">>) = 2
  /\ <<"full">> \o <<>> = <<"full">> /\ <<"full">> \o <<"resume">> = <<"full", "resume">>
<1>1. {"state", "again", "full", "reset", "cells", "step", "pause", "start", "resume"} = Requests
  BY DEF Requests
<1>2. <<"full">> \o <<>> = <<"full">> /\ <<"full">> \o <<"resume">> = <<"full", "resume">>
  BY <1>1, Short, Long
<1>3. QED
  BY <1>1, <1>2, Short, Long

\* What an operation sends after an answer, and in place of a delta that does
\* not fit, is a chain of its kind again.
LEMMA ChainFacts ==
  ASSUME NEW kind \in Kinds, NEW c \in Chains(kind)
  PROVE  /\ c \in Seq(Requests) /\ c # <<>> /\ Head(c) \in Requests
         /\ Tail(c) # <<>> => Tail(c) \in Chains(kind)
         /\ Head(c) = "cells" => <<"full">> \o Tail(c) \in Chains(kind)
         /\ Len(c) > 1 <=> Tail(c) # <<>>
         /\ Head(c) \in {"state", "again", "full", "resume", "start", "step"} /\ Head(c) # "full"
               => Tail(c) = <<>>
         /\ Head(c) = "reset" <=> kind = "seed" /\ Head(c) \notin {"cells", "full"}
         /\ Head(c) = "again" => kind = "commit"
         /\ Head(c) = "step" <=> kind = "step"
         /\ Head(c) = "state" => kind \in {"commit", "toggle", "poll"}
         /\ kind = "poll" => Head(c) = "state"
         /\ kind = "toggle" => Head(c) \in {"state", "pause", "resume", "start"}
         /\ Head(c) \in {"cells", "full"} => kind \in {"seed", "commit", "undo", "redo"}
         /\ Tail(c) # <<>> => Head(Tail(c)) \in {"cells", "resume"}
<1> DEFINE Fact(d) ==
         /\ d \in Seq(Requests) /\ d # <<>> /\ Head(d) \in Requests
         /\ Tail(d) # <<>> => Tail(d) \in Chains(kind)
         /\ Head(d) = "cells" => <<"full">> \o Tail(d) \in Chains(kind)
         /\ Len(d) > 1 <=> Tail(d) # <<>>
         /\ Head(d) \in {"state", "again", "full", "resume", "start", "step"} /\ Head(d) # "full"
               => Tail(d) = <<>>
         /\ Head(d) = "reset" <=> kind = "seed" /\ Head(d) \notin {"cells", "full"}
         /\ Head(d) = "again" => kind = "commit"
         /\ Head(d) = "step" <=> kind = "step"
         /\ Head(d) = "state" => kind \in {"commit", "toggle", "poll"}
         /\ kind = "poll" => Head(d) = "state"
         /\ kind = "toggle" => Head(d) \in {"state", "pause", "resume", "start"}
         /\ Head(d) \in {"cells", "full"} => kind \in {"seed", "commit", "undo", "redo"}
         /\ Tail(d) # <<>> => Head(Tail(d)) \in {"cells", "resume"}
<1> SUFFICES Fact(c)
  OBVIOUS
<1> HIDE DEF Fact
<1>1. CASE kind = "seed"
  <2>1. Chains(kind) = {<<"reset">>, <<"reset", "cells">>, <<"cells">>, <<"full">>}
    BY <1>1 DEF Chains, Resuming
  <2>2. CASE c = <<"reset">>
    BY <1>1, <2>1, <2>2, Literals DEF Fact
  <2>3. CASE c = <<"reset", "cells">>
    BY <1>1, <2>1, <2>3, Literals DEF Fact
  <2>4. CASE c = <<"cells">>
    BY <1>1, <2>1, <2>4, Literals DEF Fact
  <2>5. CASE c = <<"full">>
    BY <1>1, <2>1, <2>5, Literals DEF Fact
  <2>6. QED
    BY <2>1, <2>2, <2>3, <2>4, <2>5
<1>2. CASE kind = "commit"
  <2>1. Chains(kind) = {<<"pause", "cells", "resume">>, <<"cells", "resume">>, <<"full", "resume">>,
                         <<"resume">>, <<"cells">>, <<"full">>, <<"state">>, <<"again">>}
    BY <1>2 DEF Chains, Resuming
  <2>2. CASE c = <<"pause", "cells", "resume">>
    <3>1. /\ c \in Seq(Requests) /\ c # <<>> /\ Head(c) = "pause" /\ Len(c) = 3
          /\ Tail(c) = <<"cells", "resume">> /\ Head(Tail(c)) = "cells" /\ Tail(c) # <<>>
      BY <2>2, Longest, Literals
    <3>2. "pause" \in Requests /\ Tail(c) \in Chains(kind)
      BY <2>1, <3>1 DEF Requests
    <3>3. PICK t : t = Tail(c)
      OBVIOUS
    <3>4. PICK h : h = Head(c)
      OBVIOUS
    <3>5. /\ Len(c) > 1 <=> Tail(c) # <<>>
          /\ Tail(c) # <<>> => Head(Tail(c)) \in {"cells", "resume"}
      BY <3>1
    <3>6. /\ c \in Seq(Requests) /\ c # <<>> /\ Head(c) = "pause" /\ Head(c) \in Requests
          /\ Tail(c) # <<>> => Tail(c) \in Chains(kind)
      BY <3>1, <3>2
    <3>7. QED
      BY <1>2, <3>5, <3>6 DEF Fact
  <2>3. CASE c = <<"cells", "resume">>
    <3>1. /\ c \in Seq(Requests) /\ c # <<>> /\ Head(c) = "cells" /\ Len(c) = 2
          /\ Tail(c) = <<"resume">>
      BY <2>3, Literals
    <3>2. Tail(c) \in Chains(kind) /\ Tail(c) # <<>> /\ Head(Tail(c)) = "resume"
      BY <2>1, <3>1, Literals
    <3>3. <<"full">> \o Tail(c) \in Chains(kind)
      <4>1. <<"full">> \o Tail(c) = <<"full", "resume">>
        BY <3>1, Literals
      <4>2. QED
        BY <2>1, <4>1
    <3>4. "cells" \in Requests
      BY DEF Requests
    <3>5. QED
      BY <1>2, <3>1, <3>2, <3>3, <3>4 DEF Fact
  <2>4. CASE c = <<"full", "resume">>
    <3>1. /\ c \in Seq(Requests) /\ c # <<>> /\ Head(c) = "full" /\ Len(c) = 2
          /\ Tail(c) = <<"resume">>
      BY <2>4, Literals
    <3>2. Tail(c) \in Chains(kind) /\ Tail(c) # <<>> /\ Head(Tail(c)) = "resume"
      BY <2>1, <3>1, Literals
    <3>3. "full" \in Requests
      BY DEF Requests
    <3>4. QED
      BY <1>2, <3>1, <3>2, <3>3 DEF Fact
  <2>5. CASE c = <<"resume">>
    <3>1. /\ c \in Seq(Requests) /\ c # <<>> /\ Head(c) = "resume" /\ Len(c) = 1
          /\ Tail(c) = <<>>
      BY <2>5, Literals
    <3>2. "resume" \in Requests
      BY DEF Requests
    <3>3. QED
      BY <1>2, <3>1, <3>2 DEF Fact
  <2>6. CASE c = <<"cells">>
    <3>1. /\ c \in Seq(Requests) /\ c # <<>> /\ Head(c) = "cells" /\ Len(c) = 1
          /\ Tail(c) = <<>>
      BY <2>6, Literals
    <3>2. <<"full">> \o Tail(c) \in Chains(kind)
      <4>1. <<"full">> \o Tail(c) = <<"full">>
        BY <3>1, Literals
      <4>2. QED
        BY <2>1, <4>1
    <3>3. "cells" \in Requests
      BY DEF Requests
    <3>4. QED
      BY <1>2, <3>1, <3>2, <3>3 DEF Fact
  <2>7. CASE c = <<"full">>
    <3>1. /\ c \in Seq(Requests) /\ c # <<>> /\ Head(c) = "full" /\ Len(c) = 1
          /\ Tail(c) = <<>>
      BY <2>7, Literals
    <3>2. "full" \in Requests
      BY DEF Requests
    <3>3. QED
      BY <1>2, <3>1, <3>2 DEF Fact
  <2>8. CASE c = <<"state">>
    <3>1. /\ c \in Seq(Requests) /\ c # <<>> /\ Head(c) = "state" /\ Len(c) = 1
          /\ Tail(c) = <<>>
      BY <2>8, Literals
    <3>2. "state" \in Requests
      BY DEF Requests
    <3>3. QED
      BY <1>2, <3>1, <3>2 DEF Fact
  <2>9. CASE c = <<"again">>
    <3>1. /\ c \in Seq(Requests) /\ c # <<>> /\ Head(c) = "again" /\ Len(c) = 1
          /\ Tail(c) = <<>>
      BY <2>9, Literals
    <3>2. "again" \in Requests
      BY DEF Requests
    <3>3. QED
      BY <1>2, <3>1, <3>2 DEF Fact
  <2>10. QED
    BY <2>1, <2>2, <2>3, <2>4, <2>5, <2>6, <2>7, <2>8, <2>9
<1>3. CASE kind \in {"undo", "redo"}
  <2>1. Chains(kind) = {<<"pause", "cells", "resume">>, <<"cells", "resume">>, <<"full", "resume">>,
                         <<"resume">>, <<"cells">>, <<"full">>}
    BY <1>3 DEF Chains, Resuming
  <2>2. CASE c = <<"pause", "cells", "resume">>
    BY <1>3, <2>1, <2>2, Longest, Literals DEF Fact
  <2>3. CASE c = <<"cells", "resume">>
    BY <1>3, <2>1, <2>3, Literals DEF Fact
  <2>4. CASE c = <<"full", "resume">>
    BY <1>3, <2>1, <2>4, Literals DEF Fact
  <2>5. CASE c = <<"resume">>
    BY <1>3, <2>1, <2>5, Literals DEF Fact
  <2>6. CASE c = <<"cells">>
    BY <1>3, <2>1, <2>6, Literals DEF Fact
  <2>7. CASE c = <<"full">>
    BY <1>3, <2>1, <2>7, Literals DEF Fact
  <2>8. QED
    BY <2>1, <2>2, <2>3, <2>4, <2>5, <2>6, <2>7
<1>4. CASE kind = "step"
  <2>1. Chains(kind) = {<<"step">>}
    BY <1>4 DEF Chains, Resuming
  <2>2. CASE c = <<"step">>
    BY <1>4, <2>1, <2>2, Literals DEF Fact
  <2>3. QED
    BY <2>1, <2>2
<1>5. CASE kind = "toggle"
  <2>1. Chains(kind) = {<<"state">>, <<"pause">>, <<"resume">>, <<"start">>}
    BY <1>5 DEF Chains, Resuming
  <2>2. CASE c = <<"state">>
    BY <1>5, <2>1, <2>2, Literals DEF Fact
  <2>3. CASE c = <<"pause">>
    BY <1>5, <2>1, <2>3, Literals DEF Fact
  <2>4. CASE c = <<"resume">>
    BY <1>5, <2>1, <2>4, Literals DEF Fact
  <2>5. CASE c = <<"start">>
    BY <1>5, <2>1, <2>5, Literals DEF Fact
  <2>6. QED
    BY <2>1, <2>2, <2>3, <2>4, <2>5
<1>6. CASE kind = "poll"
  <2>1. Chains(kind) = {<<"state">>}
    BY <1>6 DEF Chains, Resuming
  <2>2. CASE c = <<"state">>
    BY <1>6, <2>1, <2>2, Literals DEF Fact
  <2>3. QED
    BY <2>1, <2>2
<1>7. kind \in {"seed", "commit", "undo", "redo", "step", "toggle", "poll"}
  BY DEF Kinds
<1>8. QED
  BY <1>1, <1>2, <1>3, <1>4, <1>5, <1>6, <1>7

LEMMA ResumingFacts ==
  ASSUME NEW kind \in WriteKinds, NEW c \in Chains(kind)
  PROVE  /\ Head(c) \in {"pause", "resume"} => c \in Resuming
         /\ c \in Resuming => /\ Head(c) \in {"pause", "cells", "full", "resume"}
                              /\ Tail(c) = <<>> <=> Head(c) = "resume"
                              /\ Tail(c) # <<>> => Tail(c) \in Resuming
                              /\ Head(c) = "cells" => <<"full">> \o Tail(c) \in Resuming
         /\ c \notin Resuming => /\ Tail(c) = <<>>
                                 /\ <<"full">> \o Tail(c) \notin Resuming
  <1>1. CASE c = <<"pause", "cells", "resume">>
    BY <1>1, Longest, Long DEF Chains, Resuming, Requests, WriteKinds
  <1>2. CASE c = <<"cells", "resume">>
    BY <1>2, Short, Long DEF Chains, Resuming, Requests, WriteKinds
  <1>3. CASE c = <<"full", "resume">>
    BY <1>3, Short, Long DEF Chains, Resuming, Requests, WriteKinds
  <1>4. CASE c = <<"resume">>
    BY <1>4, Short DEF Chains, Resuming, Requests, WriteKinds
  <1>5. ASSUME NEW x \in {"state", "again", "cells", "full"}, c = <<x>>
        PROVE  /\ Head(c) \notin {"pause", "resume"} /\ Tail(c) = <<>> /\ c \notin Resuming
               /\ <<"full">> \o Tail(c) \notin Resuming
    <2>1. x \in Requests /\ "full" \in Requests /\ "cells" \in Requests /\ "resume" \in Requests
      BY DEF Requests
    <2>2. /\ Head(c) = x /\ Tail(c) = <<>> /\ <<"full">> \o Tail(c) = <<"full">>
          /\ Len(c) = 1 /\ Len(<<"full">>) = 1 /\ Head(<<"full">>) = "full"
          /\ Head(<<"resume">>) = "resume"
      BY <1>5, <2>1, Short
    <2>3. /\ Len(<<"cells", "resume">>) = 2 /\ Len(<<"full", "resume">>) = 2
      BY <2>1, Long
    <2>4. c \notin Resuming /\ <<"full">> \notin Resuming
      BY <2>2, <2>3, Longest DEF Resuming
    <2>5. QED
      BY <2>2, <2>4
  <1>6. QED
    BY <1>1, <1>2, <1>3, <1>4, <1>5 DEF Chains, Resuming, WriteKinds
(***************************************************************************)
(* The inductive invariant.                                                *)
(***************************************************************************)

Top(op) == Head(op.requests)
Cmd(s) == ops[s] # Nothing /\ ops[s].kind # "poll"
IsWrite(s) == ops[s] # Nothing /\ ops[s].kind \in WriteKinds
Control(s) == Cmd(s) /\ ops[s].kind \notin WriteKinds
Sent(s) == ops[s].phase = "sent"
AnswerOf(s) == ops[s].answer.snapshot

\* What is still to be sent is a chain of the operation's kind, and the cells a
\* write brings or takes back are known.
WellFormed(op) ==
    /\ op.requests \in Chains(op.kind)
    /\ op.phase = "answered" => op.answer \in Answers
    /\ op.kind \in WriteKinds \cup {"seed"} => op.entry \in Changes
    /\ op.kind \in WriteKinds /\ Top(op) # "state" => op.entry \in Entries

Typed ==
    /\ TypeOK
    /\ \A s \in Slots : ops[s] # Nothing => WellFormed(ops[s])
    /\ {disposed, meant, apart, crossed, strayed, failed} \subseteq BOOLEAN

\* The snapshots in the pane, in its backend and in answers under way, and the
\* session's state: none is newer than the session, and revisions tell them apart.
InAnswer(x) == \E s \in Slots : ops[s] # Nothing /\ ~Sent(s) /\ x = AnswerOf(s)
Known(x) == x = server \/ (x = cache /\ cache # Nothing) \/ (x = shown /\ shown # Nothing) \/ InAnswer(x)
Distinct ==
    /\ \A x \in Snapshots : Known(x) => x.revision <= server.revision
    /\ \A x, y \in Snapshots : Known(x) /\ Known(y) /\ x.revision = y.revision => x = y

\* Commands that are not writes are alone while nothing is crossed, the seeding
\* before anything is shown.
Alone ==
    /\ apart => ~crossed
    /\ apart => \A s, t \in Slots : Cmd(s) /\ Cmd(t) => s = t
    /\ ~crossed => \A s, t \in Slots : Control(s) /\ Cmd(t) => s = t
    /\ ~crossed => \A s \in Slots : ops[s] # Nothing /\ ops[s].kind = "seed" =>
                       shown = Nothing /\ undo = <<>> /\ redo = <<>> /\ ~meant

\* The pane shows what the backend was told last; buttons and polls come with it.
Shows ==
    /\ shown # Nothing => cache # Nothing
    /\ shown = Nothing => ~buttons.undo /\ ~buttons.redo
    /\ shown = Nothing => \A s \in Slots : ops[s] # Nothing => ops[s].kind # "poll"
    /\ ~crossed /\ ~disposed /\ shown # Nothing => shown = cache
    /\ ~crossed /\ ~failed /\ ~disposed /\ shown = Nothing =>
           \E s \in Slots : ops[s] # Nothing /\ ops[s].kind = "seed"
    /\ ~crossed /\ ~failed => \A s \in Slots : Cmd(s) => Top(ops[s]) \notin {"state", "again"}

\* What a control is about to do is what the user last asked for.
Intended ==
    ~crossed /\ ~failed => \A s \in Slots : Control(s) =>
        /\ ops[s].kind = "step" \/ Top(ops[s]) = "pause" => ~meant
        /\ Top(ops[s]) \in {"start", "resume"} => meant

Decides(s) == Control(s) /\ Top(ops[s]) \notin {"cells", "full"}
Undecided == \E s \in Slots : Decides(s) /\ Sent(s)
Resumes(s) == IsWrite(s) /\ ops[s].requests \in Resuming
WillResume(s) == Resumes(s) /\ ~(Top(ops[s]) = "resume" /\ ~Sent(s))
Overruled(x) ==
    \/ cache # Nothing /\ x.revision < cache.revision
    \/ \E s \in Slots : Decides(s) /\ ~Sent(s) /\ x.revision < AnswerOf(s).revision

\* Once the last control was served: a run that is meant is under way or will be
\* resumed; if none is meant, nothing resumes one, and no snapshot that a write
\* could be built on shows one.
Running ==
    ~crossed /\ ~failed /\ ~Undecided =>
        IF meant THEN server.running \/ \E s \in Slots : WillResume(s)
        ELSE /\ \A s \in Slots : ~Resumes(s)
             /\ \A x \in Snapshots : Known(x) /\ x.running => Overruled(x)

Told ==
    ~disposed /\ ~failed /\ (\A s \in Slots : ~Cmd(s)) =>
        buttons = [undo |-> undo # <<>>, redo |-> redo # <<>>]

Bringing(s) == ~Sent(s) /\ (shown = Nothing \/ Top(ops[s]) \in {"cells", "full"})
Overtaken(x) ==
    \/ cache # Nothing /\ x.revision < cache.revision
    \/ \E s \in Slots : Cmd(s) /\ Bringing(s) /\ x.revision < AnswerOf(s).revision

\* A snapshot with other cells than the session's is overtaken by one that is
\* known, or the whole state is being asked for, or nothing is shown yet.
Fresh ==
    apart /\ ~strayed =>
        \/ \E s \in Slots : Cmd(s) /\ Top(ops[s]) = "full" /\ Sent(s)
        \/ shown = Nothing /\ \A s \in Slots : Cmd(s) => Sent(s)
        \/ \A x \in Snapshots : Known(x) /\ x.cells # server.cells => Overtaken(x)

\* A write that is in the stacks and not on the board yet
Moving(s) ==
    /\ IsWrite(s)
    /\ Top(ops[s]) \in {"pause", "again"} \/ (Top(ops[s]) = "cells" /\ Sent(s))
Fit(undos, redos, board) ==
    Leads(undos, board, "after", "before") /\ Leads(redos, board, "before", "after")

\* The stacks fit the board the write will make, and the one it was asked on
\* once they are rolled back.
FitsLater(op, undos, redos, board) ==
    /\ Fit(undos, redos, Overlaid(Updates(op), board))
    /\ op.kind = "commit" =>
         undos # <<>> /\ Fit(Popped(undos), redos, board)
    /\ op.kind = "undo" =>
         redos # <<>> /\ Fit(Append(undos, op.entry), Popped(redos), board)
    /\ op.kind = "redo" =>
         undos # <<>> /\ Fit(Popped(undos), Append(redos, op.entry), board)
Fitting ==
    apart /\ ~strayed =>
        /\ (\A s \in Slots : ~Moving(s)) => Fit(undo, redo, server.cells)
        /\ \A s \in Slots : Moving(s) => FitsLater(ops[s], undo, redo, server.cells)

\* What a write and a seeding still have to send, request by request.
LEMMA TailFacts ==
  ASSUME NEW kind \in Kinds, NEW c \in Chains(kind)
  PROVE  /\ kind \in WriteKinds /\ Head(c) = "pause" => Tail(c) # <<>> /\ Head(Tail(c)) = "cells"
         /\ kind \in WriteKinds /\ Head(c) # "pause" /\ Tail(c) # <<>> => Head(Tail(c)) = "resume"
         /\ kind \notin WriteKinds /\ Tail(c) # <<>> =>
              kind = "seed" /\ Head(c) = "reset" /\ Tail(c) = <<"cells">> /\ Head(Tail(c)) = "cells"
         /\ kind \notin WriteKinds /\ Head(c) = "cells" => <<"full">> \o Tail(c) = <<"full">>
         /\ Head(c) = "cells" => Head(<<"full">> \o Tail(c)) = "full"
  <1>1. CASE c = <<"pause", "cells", "resume">>
    BY <1>1, Longest, Literals DEF Chains, Resuming, WriteKinds, Kinds
  <1>2. CASE c = <<"cells", "resume">>
    BY <1>2, Literals DEF Chains, Resuming, WriteKinds, Kinds
  <1>3. CASE c = <<"full", "resume">>
    BY <1>3, Literals DEF Chains, Resuming, WriteKinds, Kinds
  <1>4. CASE c = <<"reset", "cells">>
    BY <1>4, Literals, Longest DEF Chains, Resuming, WriteKinds, Kinds
  <1>5. CASE c \in {<<"state">>, <<"again">>, <<"cells">>, <<"full">>, <<"resume">>, <<"reset">>,
                    <<"step">>, <<"pause">>, <<"start">>}
    <2>1. Tail(c) = <<>>
      BY <1>5, Literals
    <2>2. kind \in WriteKinds => Head(c) # "pause"
      <3>1. CASE c = <<"pause">>
        <4>1. Len(c) = 1 /\ Len(<<"cells", "resume">>) = 2 /\ Len(<<"full", "resume">>) = 2
              /\ Head(c) = "pause" /\ Len(<<"pause", "cells", "resume">>) = 3
          BY <3>1, Literals, Longest
        <4>2. kind \notin WriteKinds
          BY <4>1, Literals DEF Chains, Resuming, WriteKinds
        <4>3. QED
          BY <4>2
      <3>2. QED
        BY <1>5, <3>1, Literals
    <2>3. Head(<<"full">> \o Tail(c)) = "full" /\ <<"full">> \o Tail(c) = <<"full">>
      BY <2>1, Literals
    <2>4. QED
      BY <2>1, <2>2, <2>3
  <1>6. c \in {<<"pause", "cells", "resume">>, <<"cells", "resume">>, <<"full", "resume">>, <<"reset", "cells">>,
               <<"state">>, <<"again">>, <<"cells">>, <<"full">>, <<"resume">>, <<"reset">>,
               <<"step">>, <<"pause">>, <<"start">>}
    BY DEF Chains, Resuming, Kinds
  <1>7. QED
    BY <1>1, <1>2, <1>3, <1>4, <1>5, <1>6

(***************************************************************************)
(* Boards, entries and the stacks' walks.                                  *)
(***************************************************************************)

LEMMA OverlaidBoard ==
  ASSUME NEW cells \in Paints, NEW board \in Boards
  PROVE  Overlaid(cells, board) \in Boards
  BY DEF Overlaid, Boards, Paints

LEMMA EmptyPaint == <<>> \in Paints
  <1>1. <<>> \in [{} -> States]
    OBVIOUS
  <1> QED BY <1>1 DEF Paints

LEMMA EmptyBoard == Empty \in Boards
  BY PaneAssumption DEF Empty, Boards

LEMMA DiffsFit ==
  ASSUME NEW painted \in Paints, NEW s \in Snapshots, NEW e, e = Diffs(painted, s)
  PROVE  /\ e \in Entries
         /\ Overlaid(e.after, s.cells) \in Boards
         /\ Overlaid(e.after, Overlaid(e.after, s.cells)) = Overlaid(e.after, s.cells)
         /\ Overlaid(e.before, Overlaid(e.after, s.cells)) = s.cells
  <1>1. PICK changed : changed = {c \in DOMAIN painted : painted[c] # s.cells[c]}
    OBVIOUS
  <1>2. e = [before |-> Restrict(s.cells, changed), after |-> Restrict(painted, changed)]
    BY <1>1 DEF Diffs, Entry
  <1>3. /\ s.cells \in [Cells -> States] /\ DOMAIN painted \subseteq Cells /\ changed \subseteq DOMAIN painted
        /\ \A c \in DOMAIN painted : painted[c] \in States
    BY <1>1 DEF Snapshots, Boards, Paints
  <1>4. /\ e.before = [c \in changed |-> s.cells[c]] /\ e.after = [c \in changed |-> painted[c]]
    BY <1>2 DEF Restrict
  <1>5. e.before \in [changed -> States] /\ e.after \in [changed -> States] /\ changed \in SUBSET Cells
    BY <1>3, <1>4
  <1>6. e.before \in Paints /\ e.after \in Paints /\ DOMAIN e.before = DOMAIN e.after
    BY <1>5 DEF Paints
  <1>7. e \in Entries
    BY <1>2, <1>6 DEF Entries, Changes
  <1>8. Overlaid(e.after, s.cells) \in Boards
    BY <1>6, <1>3, OverlaidBoard DEF Boards
  <1>9. Overlaid(e.after, Overlaid(e.after, s.cells)) = Overlaid(e.after, s.cells)
    BY DEF Overlaid
  <1>10. Overlaid(e.before, Overlaid(e.after, s.cells)) = s.cells
    <2>1. DOMAIN e.before = changed /\ DOMAIN e.after = changed
      BY <1>5
    <2>2. \A c \in Cells : Overlaid(e.before, Overlaid(e.after, s.cells))[c] = s.cells[c]
      BY <2>1, <1>3, <1>4 DEF Overlaid
    <2>3. Overlaid(e.before, Overlaid(e.after, s.cells)) \in [Cells -> States]
      BY <1>6, <1>8, OverlaidBoard DEF Boards
    <2> QED BY <2>2, <2>3, <1>3
  <1> QED BY <1>7, <1>8, <1>9, <1>10

\* An empty stroke leaves the board as it is.
LEMMA NoDiffs ==
  ASSUME NEW painted \in Paints, NEW s \in Snapshots, Diffs(painted, s).after = <<>>
  PROVE  Overlaid(painted, s.cells) = s.cells
  <1>1. PICK changed : changed = {c \in DOMAIN painted : painted[c] # s.cells[c]}
    OBVIOUS
  <1>2. [c \in changed |-> painted[c]] = <<>>
    BY <1>1 DEF Diffs, Entry, Restrict
  <1>3. changed = {}
    BY <1>2
  <1>4. s.cells \in [Cells -> States]
    BY DEF Snapshots, Boards
  <1> QED BY <1>1, <1>3, <1>4 DEF Overlaid

\* Undoing what is on a board and doing it again leads back to it.
LEMMA Reversal ==
  ASSUME NEW e \in Entries, NEW board \in Boards, NEW one, NEW two,
         <<one, two>> \in {<<"after", "before">>, <<"before", "after">>},
         Overlaid(e[one], board) = board
  PROVE  /\ Overlaid(e[two], board) \in Boards
         /\ Overlaid(e[two], Overlaid(e[two], board)) = Overlaid(e[two], board)
         /\ Overlaid(e[one], Overlaid(e[two], board)) = board
  <1>1. e[one] \in Paints /\ e[two] \in Paints /\ DOMAIN e[one] = DOMAIN e[two]
    BY DEF Entries, Changes
  <1>2. Overlaid(e[two], board) \in Boards
    BY <1>1, OverlaidBoard
  <1>3. Overlaid(e[two], Overlaid(e[two], board)) = Overlaid(e[two], board)
    BY DEF Overlaid
  <1>4. \A c \in Cells : c \in DOMAIN e[one] => e[one][c] = board[c]
    BY DEF Overlaid, Boards
  <1>5. \A c \in Cells : Overlaid(e[one], Overlaid(e[two], board))[c] = board[c]
    BY <1>1, <1>4 DEF Overlaid
  <1>6. Overlaid(e[one], Overlaid(e[two], board)) \in Boards
    BY <1>1, <1>2, OverlaidBoard
  <1>7. Overlaid(e[one], Overlaid(e[two], board)) = board
    BY <1>5, <1>6 DEF Boards
  <1> QED BY <1>2, <1>3, <1>7

\* The walk of a stack of n entries.
Through(stack, n, board, from, to) ==
    \E passed \in [0..n -> Boards] :
        /\ passed[0] = board
        /\ \A k \in 0..n - 1 : /\ Overlaid(stack[n - k][from], passed[k]) = passed[k]
                               /\ passed[k + 1] = Overlaid(stack[n - k][to], passed[k])

LEMMA LeadsThrough ==
  ASSUME NEW stack, NEW board, NEW from, NEW to
  PROVE  Leads(stack, board, from, to) <=> Through(stack, Len(stack), board, from, to)
  BY DEF Leads, Through

LEMMA LeadsEmpty ==
  ASSUME NEW board \in Boards, NEW from, NEW to
  PROVE  Leads(<<>>, board, from, to)
  <1>1. PICK passed : passed = [k \in 0..0 |-> board]
    OBVIOUS
  <1>2. passed \in [0..0 -> Boards] /\ passed[0] = board
    BY <1>1
  <1>3. Len(<<>>) = 0 /\ 0..(0 - 1) = {}
    OBVIOUS
  <1> QED BY <1>2, <1>3 DEF Leads

LEMMA LeadsPush ==
  ASSUME NEW stack \in Seq(Entries), NEW e \in Entries, NEW board \in Boards, NEW onto \in Boards,
         NEW from, NEW to,
         Leads(stack, board, from, to),
         Overlaid(e[from], onto) = onto, Overlaid(e[to], onto) = board
  PROVE  Leads(Append(stack, e), onto, from, to)
  <1>1. PICK n \in Nat : n = Len(stack)
    OBVIOUS
  <1>2. PICK old \in [0..n -> Boards] :
           /\ old[0] = board
           /\ \A k \in 0..n - 1 : /\ Overlaid(stack[n - k][from], old[k]) = old[k]
                                  /\ old[k + 1] = Overlaid(stack[n - k][to], old[k])
    <2>1. Through(stack, n, board, from, to)
      BY <1>1, LeadsThrough
    <2> QED BY <2>1 DEF Through
  <1>3. PICK new : new = [k \in 0..n + 1 |-> IF k = 0 THEN onto ELSE old[k - 1]]
    OBVIOUS
  <1>4. \A k \in 0..n + 1 : k # 0 => k - 1 \in 0..n
    OBVIOUS
  <1>5. new \in [0..n + 1 -> Boards] /\ new[0] = onto
    BY <1>3, <1>4
  <1>6. PICK longer : longer = Append(stack, e)
    OBVIOUS
  <1>7. Len(longer) = n + 1 /\ longer[n + 1] = e /\ \A i \in 1..n : longer[i] = stack[i]
    BY <1>1, <1>6
  <1>8. ASSUME NEW k \in 0..n
        PROVE  /\ Overlaid(longer[n + 1 - k][from], new[k]) = new[k]
               /\ new[k + 1] = Overlaid(longer[n + 1 - k][to], new[k])
    <2>1. CASE k = 0
      <3>1. new[0] = onto /\ new[1] = old[0] /\ 0 \in 0..n + 1 /\ 1 \in 0..n + 1
        BY <1>3
      <3>2. n + 1 - k = n + 1 /\ k + 1 = 1
        BY <2>1
      <3> QED BY <2>1, <3>1, <3>2, <1>2, <1>7
    <2>2. CASE k # 0
      <3>1. PICK j \in 0..n - 1 : j = k - 1
        BY <2>2
      <3>2. new[k] = old[j] /\ new[k + 1] = old[j + 1]
        BY <3>1, <1>3
      <3>3. n + 1 - k = n - j /\ n - j \in 1..n
        BY <3>1
      <3>4. longer[n - j] = stack[n - j]
        BY <3>3, <1>7
      <3> QED BY <3>1, <3>2, <3>3, <3>4, <1>2
    <2> QED BY <2>1, <2>2
  <1>9. PICK m : m = n + 1 /\ m = Len(longer) /\ m - 1 = n
    BY <1>7
  <1>10. Through(longer, m, onto, from, to)
    <2>1. new \in [0..m -> Boards] /\ new[0] = onto
      BY <1>5, <1>9
    <2>2. ASSUME NEW k \in 0..m - 1
          PROVE  /\ Overlaid(longer[m - k][from], new[k]) = new[k]
                 /\ new[k + 1] = Overlaid(longer[m - k][to], new[k])
      <3>1. k \in 0..n /\ m - k = n + 1 - k
        BY <1>9
      <3> QED BY <1>8, <3>1
    <2> QED BY <2>1, <2>2 DEF Through
  <1>11. Leads(longer, onto, from, to)
    BY <1>9, <1>10, LeadsThrough
  <1> QED BY <1>6, <1>11

LEMMA LeadsPop ==
  ASSUME NEW stack \in Seq(Entries), stack # <<>>, NEW board \in Boards, NEW from, NEW to,
         <<from, to>> \in {<<"after", "before">>, <<"before", "after">>},
         Leads(stack, board, from, to)
  PROVE  /\ Newest(stack) \in Entries /\ Popped(stack) \in Seq(Entries)
         /\ Overlaid(Newest(stack)[from], board) = board
         /\ Overlaid(Newest(stack)[to], board) \in Boards
         /\ Leads(Popped(stack), Overlaid(Newest(stack)[to], board), from, to)
         /\ Append(Popped(stack), Newest(stack)) = stack
  <1>1. PICK n \in Nat : n + 1 = Len(stack)
    <2>1. Len(stack) \in Nat /\ Len(stack) # 0
      OBVIOUS
    <2>2. PICK m \in Nat : m = Len(stack) - 1
      BY <2>1
    <2> QED BY <2>1, <2>2
  <1>length. PICK m : m = n + 1
    OBVIOUS
  <1>walk. PICK old \in [0..m -> Boards] :
           /\ old[0] = board
           /\ \A k \in 0..m - 1 : /\ Overlaid(stack[m - k][from], old[k]) = old[k]
                                  /\ old[k + 1] = Overlaid(stack[m - k][to], old[k])
    <2>1. Through(stack, m, board, from, to)
      BY <1>1, <1>length, LeadsThrough
    <2> QED BY <2>1 DEF Through
  <1>2. /\ old \in [0..n + 1 -> Boards] /\ old[0] = board
        /\ \A k \in 0..n + 1 - 1 : /\ Overlaid(stack[n + 1 - k][from], old[k]) = old[k]
                                   /\ old[k + 1] = Overlaid(stack[n + 1 - k][to], old[k])
    BY <1>length, <1>walk
  <1>3. PICK e \in Entries : e = stack[n + 1] /\ e = Newest(stack)
    BY <1>1 DEF Newest
  <1>4. PICK rest \in Seq(Entries) : rest = Popped(stack) /\ Len(rest) = n /\ \A i \in 1..n : rest[i] = stack[i]
    <2>1. PICK rest : rest = SubSeq(stack, 1, n)
      OBVIOUS
    <2>2. rest \in Seq(Entries) /\ Len(rest) = n /\ \A i \in 1..n : rest[i] = stack[i]
      BY <1>1, <2>1
    <2>3. Len(stack) - 1 = n
      BY <1>1
    <2>4. rest = Popped(stack)
      BY <2>1, <2>3 DEF Popped
    <2> QED BY <2>2, <2>4
  <1>5. Overlaid(e[from], board) = board /\ old[1] = Overlaid(e[to], board)
    <2>1. 0 \in 0..n + 1 - 1 /\ n + 1 - 0 = n + 1 /\ 0 + 1 = 1
      OBVIOUS
    <2> QED BY <2>1, <1>2, <1>3
  <1>6. old[1] \in Boards
    <2>1. 1 \in 0..n + 1
      OBVIOUS
    <2> QED BY <2>1, <1>2
  <1>7. PICK new : new = [k \in 0..n |-> old[k + 1]]
    OBVIOUS
  <1>8. new \in [0..n -> Boards] /\ new[0] = old[1]
    <2>1. \A k \in 0..n : k + 1 \in 0..n + 1
      OBVIOUS
    <2>2. \A k \in 0..n : old[k + 1] \in Boards
      BY <2>1, <1>2
    <2>3. 0 \in 0..n /\ 0 + 1 = 1
      OBVIOUS
    <2> QED BY <2>2, <2>3, <1>7
  <1>9. ASSUME NEW k \in 0..n - 1
        PROVE  /\ Overlaid(rest[n - k][from], new[k]) = new[k]
               /\ new[k + 1] = Overlaid(rest[n - k][to], new[k])
    <2>1. PICK j \in 0..n + 1 - 1 : j = k + 1
      OBVIOUS
    <2>2. n + 1 - j = n - k /\ n - k \in 1..n
      BY <2>1
    <2>3. new[k] = old[j] /\ new[k + 1] = old[j + 1]
      BY <2>1, <1>7
    <2>4. rest[n - k] = stack[n + 1 - j]
      BY <2>2, <1>4
    <2>5. /\ Overlaid(stack[n + 1 - j][from], old[j]) = old[j]
          /\ old[j + 1] = Overlaid(stack[n + 1 - j][to], old[j])
      BY <1>2
    <2> QED BY <2>3, <2>4, <2>5
  <1>10. Leads(rest, old[1], from, to)
    <2>1. Through(rest, n, old[1], from, to)
      BY <1>8, <1>9 DEF Through
    <2> QED BY <2>1, <1>4, LeadsThrough
  <1>11. Append(rest, e) = stack
    <2>1. PICK s : s = Append(rest, e)
      OBVIOUS
    <2>2. s \in Seq(Entries) /\ Len(s) = n + 1 /\ s[n + 1] = e /\ \A i \in 1..n : s[i] = rest[i]
      BY <2>1, <1>3, <1>4
    <2>3. ASSUME NEW i \in 1..n + 1 PROVE s[i] = stack[i]
      <3>1. CASE i = n + 1
        BY <3>1, <2>2, <1>3
      <3>2. CASE i # n + 1
        <4>1. i \in 1..n
          BY <3>2
        <4> QED BY <4>1, <2>2, <1>4
      <3> QED BY <3>1, <3>2
    <2>4. s = stack
      BY <2>2, <2>3, <1>1
    <2> QED BY <2>1, <2>4
  <1> QED BY <1>3, <1>4, <1>5, <1>6, <1>10, <1>11

(***************************************************************************)
(* What an action does, in the terms the invariants are stated in.         *)
(***************************************************************************)

Sets(s, r) ==
    /\ s \in Slots /\ ops'[s] = r /\ \A t \in Slots : t # s => ops'[t] = ops[t]
    /\ ops' \in [Slots -> Operations \cup {Nothing}]
Begun(op) == op \in Operations /\ op # Nothing /\ WellFormed(op) /\ op.phase = "sent"

LEMMA OperationBegun ==
  ASSUME NEW kind \in Kinds, NEW requests \in Chains(kind), NEW entry \in Changes \cup {Nothing},
         kind \in WriteKinds \cup {"seed"} => entry \in Changes,
         kind \in WriteKinds /\ Head(requests) # "state" => entry \in Entries,
         NEW op, op = Operation(kind, requests, entry)
  PROVE  Begun(op) /\ op.kind = kind /\ op.requests = requests /\ op.entry = entry
  <1>1. requests \in Seq(Requests)
    BY ChainFacts
  <1>2. op \in Operations
    BY <1>1 DEF Operation, Operations, Requests, Kinds
  <1>3. op # Nothing
    BY <1>2, PaneAssumption
  <1>4. op.kind = kind /\ op.requests = requests /\ op.entry = entry /\ op.phase = "sent"
    BY DEF Operation
  <1>5. WellFormed(op)
    BY <1>4 DEF WellFormed, Top
  <1> QED BY <1>2, <1>3, <1>4, <1>5 DEF Begun

LEMMA SetsOne ==
  ASSUME ops \in [Slots -> Operations \cup {Nothing}], NEW s \in Slots, NEW r \in Operations \cup {Nothing},
         ops' = [ops EXCEPT ![s] = r]
  PROVE  Sets(s, r)
  BY DEF Sets

LEMMA StackTyped ==
  ASSUME NEW stack \in Seq(Entries)
  PROVE  /\ Popped(stack) \in Seq(Entries)
         /\ stack # <<>> => Newest(stack) \in Entries /\ Append(Popped(stack), Newest(stack)) = stack
         /\ \A e \in Entries : /\ Append(stack, e) \in Seq(Entries) /\ Append(stack, e) # <<>>
                               /\ Popped(Append(stack, e)) = stack /\ Newest(Append(stack, e)) = e
  <1>1. Popped(stack) \in Seq(Entries)
    BY DEF Popped
  <1>2. stack # <<>> => Newest(stack) \in Entries
    BY DEF Newest
  <1>3. ASSUME stack # <<>> PROVE Append(Popped(stack), Newest(stack)) = stack
    <2>1. PICK n \in Nat : n + 1 = Len(stack) /\ n = Len(stack) - 1
      <3>1. Len(stack) \in Nat /\ Len(stack) # 0
        BY <1>3
      <3>2. PICK m \in Nat : m = Len(stack) - 1
        BY <3>1
      <3> QED BY <3>1, <3>2
    <2>2. PICK rest \in Seq(Entries) : rest = Popped(stack) /\ Len(rest) = n /\ \A i \in 1..n : rest[i] = stack[i]
      <3>1. PICK rest : rest = SubSeq(stack, 1, n)
        OBVIOUS
      <3>2. rest \in Seq(Entries) /\ Len(rest) = n /\ \A i \in 1..n : rest[i] = stack[i]
        BY <2>1, <3>1
      <3>3. rest = Popped(stack)
        BY <1>3, <2>1, <3>1 DEF Popped
      <3> QED BY <3>2, <3>3
    <2>3. PICK e \in Entries : e = Newest(stack) /\ e = stack[n + 1]
      BY <1>2, <1>3, <2>1 DEF Newest
    <2>4. PICK t : t = Append(rest, e)
      OBVIOUS
    <2>5. t \in Seq(Entries) /\ Len(t) = n + 1 /\ t[n + 1] = e /\ \A i \in 1..n : t[i] = rest[i]
      BY <2>2, <2>3, <2>4
    <2>6. \A i \in 1..n + 1 : t[i] = stack[i]
      BY <2>2, <2>3, <2>5
    <2>7. t = stack
      BY <2>5, <2>6, <2>1
    <2> QED BY <2>2, <2>3, <2>4, <2>7
  <1>4. ASSUME NEW e \in Entries
        PROVE  /\ Append(stack, e) \in Seq(Entries) /\ Append(stack, e) # <<>>
               /\ Popped(Append(stack, e)) = stack /\ Newest(Append(stack, e)) = e
    <2>1. PICK n \in Nat : n = Len(stack)
      OBVIOUS
    <2>2. PICK t : t = Append(stack, e)
      OBVIOUS
    <2>3. t \in Seq(Entries) /\ Len(t) = n + 1 /\ t[n + 1] = e /\ t # <<>> /\ \A i \in 1..n : t[i] = stack[i]
      BY <2>1, <2>2
    <2>4. Newest(t) = e
      BY <2>3 DEF Newest
    <2>5. PICK p : p = SubSeq(t, 1, n)
      OBVIOUS
    <2>6. p \in Seq(Entries) /\ Len(p) = n /\ \A i \in 1..n : p[i] = t[i]
      BY <2>3, <2>5
    <2>7. p = stack
      BY <2>1, <2>3, <2>6
    <2>8. Len(t) - 1 = n
      BY <2>3
    <2>9. Popped(t) = stack
      BY <2>3, <2>5, <2>7, <2>8 DEF Popped
    <2> QED BY <2>2, <2>3, <2>4, <2>9
  <1> QED BY <1>1, <1>2, <1>3, <1>4

LEMMA WritingChain ==
  ASSUME NEW snapshot \in Snapshots, NEW kind \in WriteKinds
  PROVE  /\ Writing(snapshot) \in Chains(kind) /\ Head(Writing(snapshot)) \in {"pause", "cells"}
         /\ snapshot.running <=> Writing(snapshot) \in Resuming
  <1>1. CASE snapshot.running
    BY <1>1, Longest DEF Writing, Chains, Resuming, WriteKinds
  <1>2. CASE ~snapshot.running
    <2>1. Writing(snapshot) = <<"cells">>
      BY <1>2 DEF Writing
    <2>2. <<"cells">> \notin Resuming
      BY Literals, Longest DEF Resuming
    <2> QED BY <1>2, <2>1, <2>2, Literals DEF Chains, WriteKinds
  <1> QED BY <1>1, <1>2

LEMMA TogglingChain ==
  ASSUME NEW snapshot \in Snapshots
  PROVE  /\ Toggling(snapshot) \in Chains("toggle")
         /\ Head(Toggling(snapshot)) \in {"pause", "resume", "start"}
         /\ snapshot.running <=> Head(Toggling(snapshot)) = "pause"
  BY Literals DEF Toggling, Chains

\* A command of the user, or a poll, takes a slot.
Launches(s, op) ==
    /\ Sets(s, op) /\ ops[s] = Nothing /\ Begun(op) /\ ~disposed /\ op.kind # "seed"
    /\ UNCHANGED <<server, cache, shown, buttons, disposed, strayed, failed>>
    /\ IF op.kind = "poll"
       THEN shown # Nothing /\ UNCHANGED <<apart, crossed>>
       ELSE /\ apart' = (apart /\ \A t \in Slots : ~Cmd(t))
            /\ crossed' = (crossed \/ \E t \in Slots :
                               Cmd(t) /\ (op.kind \notin WriteKinds \/ ops[t].kind \notin WriteKinds))
    /\ op.kind \in WriteKinds \cup {"poll"} => meant' = meant
    /\ op.kind \in WriteKinds =>
         \/ op.kind = "commit" /\ op.requests = <<"state">> /\ shown = Nothing
         \/ shown # Nothing /\ op.requests = Writing(shown)
    /\ op.kind = "commit" => IF shown = Nothing THEN UNCHANGED stacks
                             ELSE /\ \E painted \in Paints : op.entry = Diffs(painted, shown)
                                  /\ undo' = Append(undo, op.entry) /\ redo' = <<>>
    /\ op.kind = "undo" => /\ undo # <<>> /\ op.entry = Newest(undo)
                           /\ undo' = Popped(undo) /\ redo' = Append(redo, op.entry)
    /\ op.kind = "redo" => /\ redo # <<>> /\ op.entry = Newest(redo)
                           /\ redo' = Popped(redo) /\ undo' = Append(undo, op.entry)
    /\ op.kind \in {"step", "toggle", "poll"} => UNCHANGED stacks
    /\ op.kind = "step" => meant' = FALSE /\ op.requests = <<"step">>
    /\ op.kind = "toggle" =>
         IF shown = Nothing THEN meant' = TRUE /\ op.requests = <<"state">>
         ELSE meant' = ~shown.running /\ op.requests = Toggling(shown)

LEMMA BeginShape ==
  ASSUME Typed, NEW op, Begun(op), op.kind # "poll", op.kind # "seed", Begin(op)
  PROVE  \E s \in Slots :
            /\ Sets(s, op) /\ ops[s] = Nothing /\ ~disposed
            /\ UNCHANGED <<server, cache, shown, buttons, disposed, strayed, failed>>
            /\ apart' = (apart /\ \A t \in Slots : ~Cmd(t))
            /\ crossed' = (crossed \/ \E t \in Slots :
                               Cmd(t) /\ (op.kind \notin WriteKinds \/ ops[t].kind \notin WriteKinds))
  <1>1. PICK s : s = CHOOSE x \in Slots : ops[x] = Nothing
    OBVIOUS
  <1>2. s \in Slots /\ ops[s] = Nothing
    BY <1>1 DEF Begin, Busy
  <1>3. Sets(s, op)
    BY <1>1, <1>2, SetsOne DEF Begin, Launched, Typed, TypeOK, Begun
  <1>4. \A t : t \in Commands <=> t \in Slots /\ Cmd(t)
    BY DEF Commands, Busy, Cmd
  <1>5. apart' = (apart /\ \A t \in Slots : ~Cmd(t))
    BY <1>4 DEF Begin
  <1>6. ASSUME NEW t \in Slots
        PROVE  {op.kind, ops[t].kind} \ WriteKinds # {}
                 <=> op.kind \notin WriteKinds \/ ops[t].kind \notin WriteKinds
    OBVIOUS
  <1>7. crossed' = (crossed \/ \E t \in Slots :
                               Cmd(t) /\ (op.kind \notin WriteKinds \/ ops[t].kind \notin WriteKinds))
    <2>1. (\E t \in Commands : {op.kind, ops[t].kind} \ WriteKinds # {})
            <=> \E t \in Slots : Cmd(t) /\ (op.kind \notin WriteKinds \/ ops[t].kind \notin WriteKinds)
      BY <1>4, <1>6
    <2>2. crossed' = (crossed \/ \E t \in Commands : {op.kind, ops[t].kind} \ WriteKinds # {})
      BY DEF Begin
    <2> QED BY <2>1, <2>2
  <1>8. ~disposed /\ UNCHANGED <<server, cache, shown, buttons, disposed, strayed, failed>>
    BY DEF Begin, pane
  <1> QED BY <1>2, <1>3, <1>5, <1>7, <1>8

LEMMA ShownTyped ==
  ASSUME Typed, shown # Nothing
  PROVE  shown \in Snapshots /\ shown.cells \in Boards
  BY DEF Typed, TypeOK, Snapshots

LEMMA EntryKinds == WriteKinds \subseteq Kinds /\ Entries \subseteq Changes
  BY DEF WriteKinds, Kinds, Entries

LEMMA WriteBegun ==
  ASSUME Typed, shown # Nothing, NEW kind \in WriteKinds, NEW entry \in Entries,
         NEW op, op = Operation(kind, Writing(shown), entry)
  PROVE  Begun(op) /\ op.kind = kind /\ op.requests = Writing(shown) /\ op.entry = entry
  BY ShownTyped, WritingChain, EntryKinds, OperationBegun

LEMMA CommitLaunches ==
  ASSUME Typed, NEW painted \in Strokes, Commit(painted)
  PROVE  \E s \in Slots, op \in Operations : Launches(s, op)
  <1>1. shown \in Snapshots /\ painted \in Paints /\ shown # Nothing
    BY ShownTyped DEF Commit, Strokes
  <1>2. PICK entry \in Entries : entry = Diffs(painted, shown)
    BY <1>1, DiffsFit
  <1>3. PICK op : op = Operation("commit", Writing(shown), entry)
    OBVIOUS
  <1>4. Begun(op) /\ op.kind = "commit" /\ op.requests = Writing(shown) /\ op.entry = entry
    BY <1>1, <1>3, WriteBegun DEF WriteKinds
  <1>5. Begin(op) /\ undo' = Append(undo, entry) /\ redo' = <<>> /\ meant' = meant
    BY <1>2, <1>3 DEF Commit
  <1>6. PICK s \in Slots :
            /\ Sets(s, op) /\ ops[s] = Nothing /\ ~disposed
            /\ UNCHANGED <<server, cache, shown, buttons, disposed, strayed, failed>>
            /\ apart' = (apart /\ \A t \in Slots : ~Cmd(t))
            /\ crossed' = (crossed \/ \E t \in Slots :
                               Cmd(t) /\ (op.kind \notin WriteKinds \/ ops[t].kind \notin WriteKinds))
    BY <1>4, <1>5, BeginShape
  <1>7. \E p \in Paints : op.entry = Diffs(p, shown)
    BY <1>1, <1>2, <1>4
  <1>8. Launches(s, op)
    BY <1>1, <1>4, <1>5, <1>6, <1>7 DEF Launches
  <1> QED BY <1>4, <1>8 DEF Begun

LEMMA CommitEarlyLaunches ==
  ASSUME Typed, NEW painted \in Strokes, CommitEarly(painted)
  PROVE  \E s \in Slots, op \in Operations : Launches(s, op)
  <1>1. PICK op : op = Operation("commit", <<"state">>, Entry(<<>>, painted))
    OBVIOUS
  <1>2. Entry(<<>>, painted) \in Changes
    BY EmptyPaint DEF Entry, Changes, Strokes
  <1>3. Begun(op) /\ op.kind = "commit" /\ op.requests = <<"state">>
    <2>1. "commit" \in Kinds /\ <<"state">> \in Chains("commit") /\ Head(<<"state">>) = "state"
      BY Literals DEF Kinds, Chains
    <2> QED BY <1>1, <1>2, <2>1, OperationBegun
  <1>4. Begin(op) /\ UNCHANGED stacks /\ meant' = meant /\ shown = Nothing
    BY <1>1 DEF CommitEarly
  <1>5. PICK s \in Slots :
            /\ Sets(s, op) /\ ops[s] = Nothing /\ ~disposed
            /\ UNCHANGED <<server, cache, shown, buttons, disposed, strayed, failed>>
            /\ apart' = (apart /\ \A t \in Slots : ~Cmd(t))
            /\ crossed' = (crossed \/ \E t \in Slots :
                               Cmd(t) /\ (op.kind \notin WriteKinds \/ ops[t].kind \notin WriteKinds))
    BY <1>3, <1>4, BeginShape
  <1>6. Launches(s, op)
    BY <1>3, <1>4, <1>5 DEF Launches
  <1> QED BY <1>3, <1>6 DEF Begun

LEMMA UndoLaunches ==
  ASSUME Typed, Shows, Undo
  PROVE  \E s \in Slots, op \in Operations : Launches(s, op)
  <1>1. shown # Nothing /\ undo # <<>>
    BY DEF Undo, Shows
  <1>2. PICK entry \in Entries : entry = Newest(undo)
    BY <1>1, StackTyped DEF Typed, TypeOK
  <1>3. PICK op : op = Operation("undo", Writing(shown), entry)
    OBVIOUS
  <1>4. Begun(op) /\ op.kind = "undo" /\ op.requests = Writing(shown) /\ op.entry = entry
    BY <1>1, <1>3, WriteBegun DEF WriteKinds
  <1>5. Begin(op) /\ undo' = Popped(undo) /\ redo' = Append(redo, entry) /\ meant' = meant
    BY <1>2, <1>3 DEF Undo
  <1>6. PICK s \in Slots :
            /\ Sets(s, op) /\ ops[s] = Nothing /\ ~disposed
            /\ UNCHANGED <<server, cache, shown, buttons, disposed, strayed, failed>>
            /\ apart' = (apart /\ \A t \in Slots : ~Cmd(t))
            /\ crossed' = (crossed \/ \E t \in Slots :
                               Cmd(t) /\ (op.kind \notin WriteKinds \/ ops[t].kind \notin WriteKinds))
    BY <1>4, <1>5, BeginShape
  <1>7. Launches(s, op)
    BY <1>1, <1>2, <1>4, <1>5, <1>6 DEF Launches
  <1> QED BY <1>4, <1>7 DEF Begun

LEMMA RedoLaunches ==
  ASSUME Typed, Shows, Redo
  PROVE  \E s \in Slots, op \in Operations : Launches(s, op)
  <1>1. shown # Nothing /\ redo # <<>>
    BY DEF Redo, Shows
  <1>2. PICK entry \in Entries : entry = Newest(redo)
    BY <1>1, StackTyped DEF Typed, TypeOK
  <1>3. PICK op : op = Operation("redo", Writing(shown), entry)
    OBVIOUS
  <1>4. Begun(op) /\ op.kind = "redo" /\ op.requests = Writing(shown) /\ op.entry = entry
    BY <1>1, <1>3, WriteBegun DEF WriteKinds
  <1>5. Begin(op) /\ redo' = Popped(redo) /\ undo' = Append(undo, entry) /\ meant' = meant
    BY <1>2, <1>3 DEF Redo
  <1>6. PICK s \in Slots :
            /\ Sets(s, op) /\ ops[s] = Nothing /\ ~disposed
            /\ UNCHANGED <<server, cache, shown, buttons, disposed, strayed, failed>>
            /\ apart' = (apart /\ \A t \in Slots : ~Cmd(t))
            /\ crossed' = (crossed \/ \E t \in Slots :
                               Cmd(t) /\ (op.kind \notin WriteKinds \/ ops[t].kind \notin WriteKinds))
    BY <1>4, <1>5, BeginShape
  <1>7. Launches(s, op)
    BY <1>1, <1>2, <1>4, <1>5, <1>6 DEF Launches
  <1> QED BY <1>4, <1>7 DEF Begun

LEMMA StepOnceLaunches ==
  ASSUME Typed, StepOnce
  PROVE  \E s \in Slots, op \in Operations : Launches(s, op)
  <1>1. PICK op : op = Operation("step", <<"step">>, Nothing)
    OBVIOUS
  <1>2. Begun(op) /\ op.kind = "step" /\ op.requests = <<"step">>
    <2>1. "step" \in Kinds /\ "step" \notin WriteKinds \cup {"seed"} /\ <<"step">> \in Chains("step")
      BY DEF Kinds, WriteKinds, Chains
    <2> QED BY <1>1, <2>1, OperationBegun
  <1>3. Begin(op) /\ UNCHANGED stacks /\ meant' = FALSE
    BY <1>1 DEF StepOnce
  <1>4. PICK s \in Slots :
            /\ Sets(s, op) /\ ops[s] = Nothing /\ ~disposed
            /\ UNCHANGED <<server, cache, shown, buttons, disposed, strayed, failed>>
            /\ apart' = (apart /\ \A t \in Slots : ~Cmd(t))
            /\ crossed' = (crossed \/ \E t \in Slots :
                               Cmd(t) /\ (op.kind \notin WriteKinds \/ ops[t].kind \notin WriteKinds))
    BY <1>2, <1>3, BeginShape
  <1>5. Launches(s, op)
    BY <1>2, <1>3, <1>4 DEF Launches, WriteKinds
  <1> QED BY <1>2, <1>5 DEF Begun

LEMMA RunToggleLaunches ==
  ASSUME Typed, RunToggle
  PROVE  \E s \in Slots, op \in Operations : Launches(s, op)
  <1>1. PICK requests : requests = IF shown = Nothing THEN <<"state">> ELSE Toggling(shown)
    OBVIOUS
  <1>2. PICK op : op = Operation("toggle", requests, Nothing)
    OBVIOUS
  <1>3. Begun(op) /\ op.kind = "toggle" /\ op.requests = requests
    <2>1. "toggle" \in Kinds /\ "toggle" \notin WriteKinds \cup {"seed"}
      BY DEF Kinds, WriteKinds
    <2>2. requests \in Chains("toggle")
      BY <1>1, ShownTyped, TogglingChain DEF Chains
    <2> QED BY <1>2, <2>1, <2>2, OperationBegun
  <1>4. Begin(op) /\ UNCHANGED stacks /\ meant' = (shown = Nothing \/ ~shown.running)
    BY <1>1, <1>2 DEF RunToggle
  <1>5. PICK s \in Slots :
            /\ Sets(s, op) /\ ops[s] = Nothing /\ ~disposed
            /\ UNCHANGED <<server, cache, shown, buttons, disposed, strayed, failed>>
            /\ apart' = (apart /\ \A t \in Slots : ~Cmd(t))
            /\ crossed' = (crossed \/ \E t \in Slots :
                               Cmd(t) /\ (op.kind \notin WriteKinds \/ ops[t].kind \notin WriteKinds))
    BY <1>3, <1>4, BeginShape
  <1>6. IF shown = Nothing THEN meant' = TRUE /\ op.requests = <<"state">>
        ELSE meant' = ~shown.running /\ op.requests = Toggling(shown)
    BY <1>1, <1>3, <1>4
  <1>7. Launches(s, op)
    BY <1>3, <1>4, <1>5, <1>6 DEF Launches, WriteKinds
  <1> QED BY <1>3, <1>7 DEF Begun

LEMMA RefreshLaunches ==
  ASSUME Typed, Refresh
  PROVE  \E s \in Slots, op \in Operations : Launches(s, op)
  <1>1. PICK op : op = Operation("poll", <<"state">>, Nothing)
    OBVIOUS
  <1>2. Begun(op) /\ op.kind = "poll" /\ op.requests = <<"state">>
    <2>1. "poll" \in Kinds /\ "poll" \notin WriteKinds \cup {"seed"} /\ <<"state">> \in Chains("poll")
      BY DEF Kinds, WriteKinds, Chains
    <2> QED BY <1>1, <2>1, OperationBegun
  <1>3. PICK s : s = CHOOSE x \in Slots : ops[x] = Nothing
    OBVIOUS
  <1>4. s \in Slots /\ ops[s] = Nothing
    BY <1>3 DEF Refresh, Busy
  <1>5. Sets(s, op)
    BY <1>1, <1>2, <1>3, <1>4, SetsOne DEF Refresh, Launched, Typed, TypeOK, Begun
  <1>6. Launches(s, op)
    BY <1>2, <1>4, <1>5 DEF Launches, WriteKinds, Refresh, Polling, pane, stacks, ghosts
  <1> QED BY <1>2, <1>4, <1>6 DEF Begun

Launching == \E s \in Slots, op \in Operations : Launches(s, op)

\* The session takes a request.
Serves(s, r) ==
    /\ Sets(s, r) /\ ops[s] # Nothing /\ Sent(s)
    /\ r # Nothing /\ r \in Operations /\ WellFormed(r)
    /\ r.kind = ops[s].kind /\ r.requests = ops[s].requests /\ r.entry = ops[s].entry
    /\ r.phase = "answered" /\ r.answer.snapshot = server'
    /\ UNCHANGED <<cache, shown, buttons, disposed, undo, redo, meant, apart, crossed, failed>>
    /\ server' \in Snapshots
    /\ server' = server \/ server'.revision = server.revision + 1
    /\ strayed' = (strayed \/ (ops[s].kind = "step" /\ server'.cells # server.cells))
    /\ Top(ops[s]) \in Reads => server' = server
    /\ Top(ops[s]) \in {"pause", "start", "resume"} => server'.cells = server.cells
    /\ Top(ops[s]) \in {"pause", "step", "reset"} => ~server'.running
    /\ Top(ops[s]) \in {"start", "resume"} => server'.running
    /\ Top(ops[s]) = "cells" =>
         /\ server'.running = server.running
         /\ server'.cells = Overlaid(Updates(ops[s]), server.cells)

LEMMA OpTyped ==
  ASSUME Typed, NEW s \in Slots, ops[s] # Nothing
  PROVE  /\ ops[s] \in Operations /\ WellFormed(ops[s])
         /\ ops[s].kind \in Kinds /\ ops[s].requests \in Chains(ops[s].kind)
         /\ ops[s].phase \in {"sent", "answered"} /\ Top(ops[s]) \in Requests
         /\ ~Sent(s) => /\ ops[s].phase = "answered" /\ AnswerOf(s) \in Snapshots
                        /\ ops[s].answer.base \in Nat
  <1>1. ops[s] \in Operations /\ WellFormed(ops[s])
    BY DEF Typed, TypeOK
  <1>2. ops[s].kind \in Kinds /\ ops[s].requests \in Chains(ops[s].kind) /\ ops[s].phase \in {"sent", "answered"}
    BY <1>1 DEF Operations, Kinds, WellFormed
  <1>3. Top(ops[s]) \in Requests
    BY <1>2, ChainFacts DEF Top
  <1>4. ASSUME ~Sent(s) PROVE ops[s].phase = "answered" /\ AnswerOf(s) \in Snapshots /\ ops[s].answer.base \in Nat
    BY <1>1, <1>2, <1>4 DEF WellFormed, Sent, AnswerOf, Answers
  <1> QED BY <1>1, <1>2, <1>3, <1>4

LEMMA OutcomeFacts ==
  ASSUME Typed, NEW s \in Slots, ops[s] # Nothing, NEW next \in Outcomes(ops[s])
  PROVE  /\ next \in Snapshots
         /\ next = server \/ next.revision = server.revision + 1
         /\ Top(ops[s]) \in Reads => next = server
         /\ Top(ops[s]) \in {"pause", "start", "resume"} => next.cells = server.cells
         /\ Top(ops[s]) \in {"pause", "step", "reset"} => ~next.running
         /\ Top(ops[s]) \in {"start", "resume"} => next.running
         /\ Top(ops[s]) = "cells" => /\ next.running = server.running
                                     /\ next.cells = Overlaid(Updates(ops[s]), server.cells)
  <1>1. server \in Snapshots
    BY DEF Typed, TypeOK
  <1>2. server.revision \in Nat /\ server.revision + 1 \in Nat /\ server.generation \in Nat /\ server.generation + 1 \in Nat
        /\ server.running \in BOOLEAN /\ server.cells \in Boards
    BY <1>1 DEF Snapshots
  <1>3. PICK head : head = Top(ops[s])
    OBVIOUS
  <1>4. head \in {"state", "again", "full", "reset", "cells", "step", "pause", "start", "resume"}
    BY <1>3, OpTyped DEF Requests
  <1>5. CASE head \in Reads
    BY <1>1, <1>3, <1>5 DEF Outcomes, Top, Reads
  <1>6. CASE head = "pause"
    <2>1. next = IF server.running THEN Bumped([server EXCEPT !.running = FALSE]) ELSE server
      BY <1>3, <1>6 DEF Outcomes, Top, Reads
    <2> QED BY <2>1, <1>1, <1>2, <1>3, <1>6 DEF Bumped, Snapshots, Reads
  <1>7. CASE head \in {"start", "resume"}
    <2>1. next = IF server.running THEN server ELSE Bumped([server EXCEPT !.running = TRUE])
      BY <1>3, <1>7 DEF Outcomes, Top, Reads
    <2> QED BY <2>1, <1>1, <1>2, <1>3, <1>7 DEF Bumped, Snapshots, Reads
  <1>8. CASE head = "step"
    <2>1. PICK board \in Boards : next = Evolved([server EXCEPT !.running = FALSE], board)
      BY <1>3, <1>8 DEF Outcomes, Top, Reads
    <2> QED BY <2>1, <1>1, <1>2, <1>3, <1>8 DEF Evolved, Bumped, Snapshots, Reads
  <1>9. CASE head = "reset"
    <2>1. next = Bumped([server EXCEPT !.running = FALSE, !.generation = 0, !.cells = Empty])
      BY <1>3, <1>9 DEF Outcomes, Top, Reads
    <2> QED BY <2>1, <1>1, <1>2, <1>3, <1>9, EmptyBoard DEF Bumped, Snapshots, Reads
  <1>10. CASE head = "cells"
    <2>1. next = Written(server, Updates(ops[s]))
      BY <1>3, <1>10 DEF Outcomes, Top, Reads
    <2>2. ops[s].entry \in Changes
      <3>1. ops[s].kind \in {"seed", "commit", "undo", "redo"}
        BY <1>3, <1>10, OpTyped, ChainFacts DEF Top
      <3> QED BY <3>1, OpTyped DEF WellFormed, WriteKinds
    <2>3. Updates(ops[s]) \in Paints
      BY <2>2 DEF Updates, Changes
    <2>4. PICK board \in Boards : board = Overlaid(Updates(ops[s]), server.cells)
      BY <2>3, <1>2, OverlaidBoard
    <2>5. next = IF board = server.cells THEN server ELSE Bumped([server EXCEPT !.cells = board])
      BY <2>1, <2>4 DEF Written
    <2> QED BY <2>4, <2>5, <1>1, <1>2, <1>3, <1>10 DEF Bumped, Snapshots, Reads
  <1> QED BY <1>4, <1>5, <1>6, <1>7, <1>8, <1>9, <1>10 DEF Reads

LEMMA ServeShape ==
  ASSUME Typed, NEW s \in Slots, Serve(s)
  PROVE  \E r \in Operations : Serves(s, r)
  <1>1. PICK next \in Outcomes(ops[s]) :
          /\ server' = next
          /\ ops' = [ops EXCEPT ![s].phase = "answered",
                                ![s].answer = [base |-> server.revision, snapshot |-> next]]
          /\ strayed' = (strayed \/ (ops[s].kind = "step" /\ next.cells # server.cells))
    BY DEF Serve
  <1>2. ops[s] # Nothing /\ ops[s].phase = "sent" /\ ops[s] \in Operations /\ WellFormed(ops[s])
    BY OpTyped DEF Serve
  <1>3. PICK r : r = [ops[s] EXCEPT !.phase = "answered",
                                   !.answer = [base |-> server.revision, snapshot |-> next]]
    OBVIOUS
  <1>4. next \in Snapshots /\ server.revision \in Nat
    BY <1>2, OutcomeFacts DEF Typed, TypeOK, Snapshots
  <1>5. [base |-> server.revision, snapshot |-> next] \in Answers
    BY <1>4 DEF Answers
  <1>6. /\ r.kind = ops[s].kind /\ r.requests = ops[s].requests /\ r.entry = ops[s].entry
        /\ r.phase = "answered" /\ r.answer = [base |-> server.revision, snapshot |-> next]
        /\ r \in Operations
    BY <1>2, <1>3, <1>5 DEF Operations
  <1>7. r # Nothing
    BY <1>6, PaneAssumption
  <1>8. WellFormed(r)
    BY <1>2, <1>5, <1>6 DEF WellFormed, Top
  <1>9. ops' = [ops EXCEPT ![s] = r]
    <2>1. ops \in [Slots -> Operations \cup {Nothing}]
      BY DEF Typed, TypeOK
    <2> QED BY <2>1, <1>1, <1>3
  <1>10. Sets(s, r)
    BY <1>6, <1>9, SetsOne DEF Typed, TypeOK
  <1>11. UNCHANGED <<cache, shown, buttons, disposed, undo, redo, meant, apart, crossed, failed>>
    BY DEF Serve, pane, stacks
  <1>12. Serves(s, r)
    BY <1>1, <1>2, <1>4, <1>6, <1>7, <1>8, <1>10, <1>11, OutcomeFacts DEF Serves, Sent
  <1> QED BY <1>6, <1>12

\* A poll, a command or a delta that does not fit asks again.
Refetches(s, r) ==
    /\ Sets(s, r) /\ ops[s] # Nothing /\ ~Sent(s) /\ Top(ops[s]) = "cells"
    /\ Begun(r) /\ r.kind = ops[s].kind /\ r.entry = ops[s].entry
    /\ r.requests = <<"full">> \o Tail(ops[s].requests) /\ Top(r) = "full"
    /\ UNCHANGED <<server, cache, shown, buttons, disposed, undo, redo,
                   meant, apart, crossed, strayed, failed>>

\* What an operation of this kind continues with, well formed.
LEMMA ThenShape ==
  ASSUME Typed, NEW s \in Slots, ops[s] # Nothing, Top(ops[s]) # "state",
         NEW requests \in Chains(ops[s].kind), Then(s, requests)
  PROVE  \E r \in Operations : /\ Sets(s, r) /\ Begun(r)
                               /\ r.kind = ops[s].kind /\ r.requests = requests /\ r.entry = ops[s].entry
  <1>1. ops[s].kind \in Kinds /\ ops[s] \in Operations /\ WellFormed(ops[s])
    BY OpTyped
  <1>2. PICK r : r = Operation(ops[s].kind, requests, ops[s].entry)
    OBVIOUS
  <1>3. ops[s].entry \in Changes \cup {Nothing}
    BY <1>1 DEF Operations
  <1>4. Begun(r) /\ r.kind = ops[s].kind /\ r.requests = requests /\ r.entry = ops[s].entry
    BY <1>1, <1>2, <1>3, OperationBegun DEF WellFormed
  <1>5. requests # <<>>
    BY <1>1, ChainFacts
  <1>6. ops' = [ops EXCEPT ![s] = r]
    BY <1>2, <1>5 DEF Then, Typed, TypeOK
  <1>7. Sets(s, r)
    BY <1>4, <1>6, SetsOne DEF Typed, TypeOK, Begun
  <1> QED BY <1>4, <1>7 DEF Begun

LEMMA EndShape ==
  ASSUME Typed, NEW s \in Slots, Then(s, <<>>)
  PROVE  Sets(s, Nothing)
  <1>1. ops' = [ops EXCEPT ![s] = Nothing]
    BY DEF Then, Typed, TypeOK
  <1> QED BY <1>1, SetsOne DEF Typed, TypeOK

LEMMA RefetchShape ==
  ASSUME Typed, NEW s \in Slots, Refetch(s)
  PROVE  \E r \in Operations : Refetches(s, r)
  <1>1. ops[s] # Nothing /\ ops[s].phase = "answered" /\ Top(ops[s]) = "cells"
        /\ Then(s, <<"full">> \o Tail(ops[s].requests))
    BY DEF Refetch, FitsCache, Top
  <1>2. <<"full">> \o Tail(ops[s].requests) \in Chains(ops[s].kind)
        /\ Head(<<"full">> \o Tail(ops[s].requests)) = "full"
    BY <1>1, OpTyped, ChainFacts, TailFacts DEF Top
  <1>3. PICK r \in Operations : /\ Sets(s, r) /\ Begun(r)
                                /\ r.kind = ops[s].kind /\ r.entry = ops[s].entry
                                /\ r.requests = <<"full">> \o Tail(ops[s].requests)
    BY <1>1, <1>2, ThenShape
  <1>4. Refetches(s, r)
    BY <1>1, <1>2, <1>3 DEF Refetches, Refetch, Sent, Top, pane, stacks, ghosts
  <1> QED BY <1>4

\* An answer arrives: r is what the operation goes on with, or Nothing.
Receives(s, r) ==
    /\ Sets(s, r) /\ ops[s] # Nothing /\ ~Sent(s)
    /\ r # Nothing => Begun(r) /\ r.kind = ops[s].kind
    /\ UNCHANGED <<server, disposed, meant, apart, crossed, strayed, failed>>
    /\ cache' \in Snapshots /\ (cache' = AnswerOf(s) \/ (cache' = cache /\ cache # Nothing))
    /\ AnswerOf(s).revision <= cache'.revision
    /\ cache # Nothing => cache.revision <= cache'.revision
    /\ IF disposed \/ (Top(ops[s]) = "reset" /\ r # Nothing) THEN UNCHANGED <<shown, buttons>>
       ELSE shown' = cache' /\ buttons' \in [undo : BOOLEAN, redo : BOOLEAN]
    /\ ~disposed /\ r = Nothing =>
         shown' = cache' /\ buttons' = [undo |-> undo' # <<>>, redo |-> redo' # <<>>]
    /\ Top(ops[s]) \notin {"state", "again"} =>
         IF Tail(ops[s].requests) = <<>> THEN r = Nothing
         ELSE r # Nothing /\ r.requests = Tail(ops[s].requests) /\ r.entry = ops[s].entry
    /\ IF Top(ops[s]) = "reset" THEN undo' = <<>> /\ redo' = <<>>
       ELSE (ops[s].kind = "commit" /\ Top(ops[s]) = "state") \/ UNCHANGED stacks
    /\ Top(ops[s]) = "again" =>
         ops[s].kind = "commit" /\ r # Nothing /\ r.requests = Writing(cache') /\ r.entry = ops[s].entry
    /\ Top(ops[s]) = "state" =>
         /\ ops[s].kind = "poll" => r = Nothing
         /\ ops[s].kind = "toggle" => r # Nothing /\ r.requests = Toggling(cache')
         /\ ops[s].kind = "commit" =>
              IF r = Nothing THEN UNCHANGED stacks
              ELSE /\ \E painted \in Paints : r.entry = Diffs(painted, cache')
                   /\ undo' = Append(undo, r.entry) /\ redo' = <<>>
                   /\ Top(r) \in {"again", "pause", "cells"}

LEMMA NewerFacts ==
  ASSUME Typed, NEW x \in Snapshots, cache' = Newer(x)
  PROVE  /\ cache' \in Snapshots /\ (cache' = x \/ (cache' = cache /\ cache # Nothing))
         /\ x.revision <= cache'.revision
         /\ cache # Nothing => cache.revision <= cache'.revision
  <1>1. x.revision \in Nat /\ (cache # Nothing => cache \in Snapshots /\ cache.revision \in Nat)
    BY DEF Typed, TypeOK, Snapshots
  <1> QED BY <1>1 DEF Newer

\* The part that all answers have in common
Installs(s) ==
    /\ s \in Slots /\ ops[s] # Nothing /\ ~Sent(s)
    /\ UNCHANGED <<server, disposed, meant, apart, crossed, strayed, failed>>
    /\ cache' \in Snapshots /\ (cache' = AnswerOf(s) \/ (cache' = cache /\ cache # Nothing))
    /\ AnswerOf(s).revision <= cache'.revision
    /\ cache # Nothing => cache.revision <= cache'.revision

LEMMA InstallShape ==
  ASSUME Typed, NEW s \in Slots, Answerable(s), cache' = Newer(ops[s].answer.snapshot),
         UNCHANGED <<server, disposed, ghosts>>
  PROVE  Installs(s)
  <1>1. ops[s] # Nothing /\ ~Sent(s) /\ AnswerOf(s) \in Snapshots
    <2>1. ops[s] # Nothing /\ ~Sent(s)
      BY DEF Answerable, Sent
    <2> QED BY <2>1, OpTyped
  <1>2. cache' = Newer(AnswerOf(s))
    BY DEF AnswerOf
  <1>3. UNCHANGED <<server, disposed, meant, apart, crossed, strayed, failed>>
    BY DEF ghosts
  <1> QED BY <1>1, <1>2, <1>3, NewerFacts DEF Installs

LEMMA ApplyShape ==
  ASSUME NEW x, NEW undos, NEW redos, Apply(x, undos, redos)
  PROVE  /\ disposed => UNCHANGED <<shown, buttons>>
         /\ ~disposed => shown' = x /\ buttons' = [undo |-> undos # <<>>, redo |-> redos # <<>>]
         /\ ~disposed => buttons' \in [undo : BOOLEAN, redo : BOOLEAN]
  <1>1. /\ disposed => UNCHANGED <<shown, buttons>>
        /\ ~disposed => shown' = x /\ buttons' = [undo |-> undos # <<>>, redo |-> redos # <<>>]
    BY DEF Apply
  <1>2. PICK a \in BOOLEAN, b \in BOOLEAN : a = (undos # <<>>) /\ b = (redos # <<>>)
    OBVIOUS
  <1>3. [undo |-> a, redo |-> b] \in [undo : BOOLEAN, redo : BOOLEAN]
    OBVIOUS
  <1> QED BY <1>1, <1>2, <1>3

LEMMA ReseededShape ==
  ASSUME Typed, NEW s \in Slots, Reseeded(s)
  PROVE  \E r \in Operations \cup {Nothing} : Receives(s, r)
  <1>1. Installs(s)
    BY InstallShape DEF Reseeded
  <1>2. Top(ops[s]) = "reset" /\ ops[s] # Nothing
    BY <1>1 DEF Reseeded, Top, Installs
  <1>3. undo' = <<>> /\ redo' = <<>> /\ Then(s, Tail(ops[s].requests))
    BY DEF Reseeded
  <1>4. Len(ops[s].requests) > 1 <=> Tail(ops[s].requests) # <<>>
    BY <1>2, OpTyped, ChainFacts
  <1>5. CASE Tail(ops[s].requests) # <<>>
    <2>1. UNCHANGED <<shown, buttons>>
      BY <1>4, <1>5 DEF Reseeded
    <2>2. PICK r \in Operations : /\ Sets(s, r) /\ Begun(r)
                               /\ r.kind = ops[s].kind /\ r.entry = ops[s].entry
                               /\ r.requests = Tail(ops[s].requests)
      BY <1>2, <1>3, <1>5, ThenShape, OpTyped, ChainFacts
    <2>3. Receives(s, r)
      BY <1>1, <1>2, <1>3, <1>5, <2>1, <2>2 DEF Receives, Installs, Begun
    <2> QED BY <2>3
  <1>6. CASE Tail(ops[s].requests) = <<>>
    <2>1. Apply(cache', <<>>, <<>>)
      BY <1>4, <1>6 DEF Reseeded
    <2>2. Sets(s, Nothing)
      BY <1>3, <1>6, EndShape
    <2>3. /\ disposed => UNCHANGED <<shown, buttons>>
          /\ ~disposed => shown' = cache' /\ buttons' = [undo |-> undo' # <<>>, redo |-> redo' # <<>>]
          /\ ~disposed => buttons' \in [undo : BOOLEAN, redo : BOOLEAN]
      BY <2>1, <1>3, ApplyShape
    <2>4. Receives(s, Nothing)
      BY <1>1, <1>2, <1>3, <1>6, <2>2, <2>3 DEF Receives, Installs
    <2> QED BY <2>4
  <1> QED BY <1>5, <1>6

LEMMA AskedShape ==
  ASSUME Typed, NEW s \in Slots, Asked(s)
  PROVE  \E r \in Operations \cup {Nothing} : Receives(s, r)
  <1>1. Installs(s) /\ UNCHANGED stacks
    BY InstallShape DEF Asked
  <1>2. ops[s] # Nothing /\ cache' \in Snapshots
    BY <1>1 DEF Installs
  <1>3. /\ disposed => UNCHANGED <<shown, buttons>>
        /\ ~disposed => shown' = cache' /\ buttons' = [undo |-> undo # <<>>, redo |-> redo # <<>>]
        /\ ~disposed => buttons' \in [undo : BOOLEAN, redo : BOOLEAN]
    BY ApplyShape DEF Asked
  <1>4. CASE ops[s].kind = "toggle" /\ Top(ops[s]) = "state"
    <2>1. Toggling(cache') \in Chains("toggle") /\ Toggling(cache') # <<>>
      BY <1>2, TogglingChain, ChainFacts DEF Kinds
    <2>2. PICK r : r = Operation("toggle", Toggling(cache'), ops[s].entry)
      OBVIOUS
    <2>3. ops[s].entry \in Changes \cup {Nothing} /\ "toggle" \in Kinds /\ "toggle" \notin WriteKinds \cup {"seed"}
      BY <1>2, OpTyped DEF Operations, Kinds, WriteKinds
    <2>4. Begun(r) /\ r.kind = "toggle" /\ r.requests = Toggling(cache')
      BY <2>1, <2>2, <2>3, OperationBegun
    <2>5. ops' = [ops EXCEPT ![s] = r]
      BY <1>4, <2>1, <2>2 DEF Asked, Then, Typed, TypeOK
    <2>6. Sets(s, r) /\ r \in Operations /\ r # Nothing
      BY <2>4, <2>5, SetsOne DEF Typed, TypeOK, Begun
    <2>7. Receives(s, r)
      BY <1>1, <1>3, <1>4, <2>4, <2>6 DEF Receives, Installs, stacks
    <2> QED BY <2>6, <2>7
  <1>5. CASE ops[s].kind = "commit" /\ Top(ops[s]) = "again"
    <2>1. Writing(cache') \in Chains("commit")
      BY <1>2, WritingChain DEF WriteKinds
    <2>2. Then(s, Writing(cache'))
      BY <1>5 DEF Asked
    <2>3. PICK r \in Operations : /\ Sets(s, r) /\ Begun(r)
                                  /\ r.kind = ops[s].kind /\ r.entry = ops[s].entry /\ r.requests = Writing(cache')
      BY <1>2, <1>5, <2>1, <2>2, ThenShape
    <2>4. Receives(s, r)
      BY <1>1, <1>3, <1>5, <2>3 DEF Receives, Installs, stacks, Begun
    <2> QED BY <2>4
  <1> QED BY <1>4, <1>5 DEF Asked, Top

LEMMA ComparedShape ==
  ASSUME Typed, NEW s \in Slots, Compared(s)
  PROVE  \E r \in Operations \cup {Nothing} : Receives(s, r)
  <1>1. Installs(s)
    BY InstallShape DEF Compared
  <1>2. ops[s] # Nothing /\ cache' \in Snapshots /\ ops[s].kind = "commit" /\ Top(ops[s]) = "state"
    BY <1>1 DEF Installs, Compared, Top
  <1>3. /\ disposed => UNCHANGED <<shown, buttons>>
        /\ ~disposed => shown' = cache' /\ buttons' = [undo |-> undo # <<>>, redo |-> redo # <<>>]
        /\ ~disposed => buttons' \in [undo : BOOLEAN, redo : BOOLEAN]
    BY ApplyShape DEF Compared
  <1>4. ops[s].entry \in Changes
    BY <1>2, OpTyped DEF WellFormed, WriteKinds
  <1>5. PICK painted \in Paints : painted = ops[s].entry.after
    BY <1>4 DEF Changes
  <1>6. PICK entry \in Entries : entry = Diffs(painted, cache')
    BY <1>2, DiffsFit
  <1>7. CASE entry.after = <<>>
    <2>1. UNCHANGED stacks /\ Then(s, <<>>)
      BY <1>5, <1>6, <1>7 DEF Compared
    <2>2. Sets(s, Nothing)
      BY <2>1, EndShape
    <2>3. Receives(s, Nothing)
      BY <1>1, <1>2, <1>3, <2>1, <2>2 DEF Receives, Installs, stacks
    <2> QED BY <2>3
  <1>8. CASE entry.after # <<>>
    <2>0. shown' = Nothing \/ shown' \in Snapshots
      BY <1>2, <1>3 DEF Typed, TypeOK
    <2>1. PICK requests : requests = IF shown' = Nothing THEN <<"again">> ELSE Writing(shown')
      OBVIOUS
    <2>2. requests \in Chains("commit") /\ Head(requests) \in {"again", "pause", "cells"}
      BY <2>0, <2>1, WritingChain, Literals DEF WriteKinds, Chains
    <2>3. PICK r : r = Operation("commit", requests, entry)
      OBVIOUS
    <2>4. Begun(r) /\ r.kind = "commit" /\ r.requests = requests /\ r.entry = entry
      BY <2>2, <2>3, EntryKinds, OperationBegun DEF Kinds
    <2>5. undo' = Append(undo, entry) /\ redo' = <<>> /\ ops' = [ops EXCEPT ![s] = r]
      BY <1>5, <1>6, <1>8, <2>1, <2>3 DEF Compared
    <2>6. Sets(s, r) /\ r \in Operations /\ r # Nothing
      BY <2>4, <2>5, SetsOne DEF Typed, TypeOK, Begun
    <2>7. \E p \in Paints : r.entry = Diffs(p, cache')
      BY <1>6, <2>4
    <2>8. Receives(s, r)
      <3>1. disposed => UNCHANGED <<shown, buttons>>
        BY <1>3
      <3>2. ~disposed => shown' = cache' /\ buttons' \in [undo : BOOLEAN, redo : BOOLEAN]
        BY <1>3
      <3> QED BY <1>1, <1>2, <3>1, <3>2, <2>2, <2>4, <2>5, <2>6, <2>7 DEF Receives, Installs, Top
    <2> QED BY <2>6, <2>8
  <1> QED BY <1>7, <1>8

LEMMA AnsweredShape ==
  ASSUME Typed, NEW s \in Slots, Answered(s)
  PROVE  \E r \in Operations \cup {Nothing} : Receives(s, r)
  <1>1. Installs(s) /\ UNCHANGED stacks
    BY InstallShape DEF Answered
  <1>2. /\ ops[s] # Nothing /\ Top(ops[s]) \notin {"reset", "again"}
        /\ Top(ops[s]) = "state" => ops[s].kind = "poll"
        /\ Then(s, Tail(ops[s].requests))
    BY <1>1 DEF Installs, Answered, Top
  <1>3. /\ disposed => UNCHANGED <<shown, buttons>>
        /\ ~disposed => shown' = cache' /\ buttons' = [undo |-> undo # <<>>, redo |-> redo # <<>>]
        /\ ~disposed => buttons' \in [undo : BOOLEAN, redo : BOOLEAN]
    BY ApplyShape DEF Answered
  <1>4. Top(ops[s]) = "state" => Tail(ops[s].requests) = <<>>
    BY <1>2, OpTyped, ChainFacts DEF Top
  <1>5. CASE Tail(ops[s].requests) = <<>>
    <2>1. Sets(s, Nothing)
      BY <1>2, <1>5, EndShape
    <2>2. Receives(s, Nothing)
      BY <1>1, <1>2, <1>3, <1>5, <2>1 DEF Receives, Installs, stacks
    <2> QED BY <2>2
  <1>6. CASE Tail(ops[s].requests) # <<>>
    <2>1. PICK r \in Operations : /\ Sets(s, r) /\ Begun(r)
                               /\ r.kind = ops[s].kind /\ r.entry = ops[s].entry
                               /\ r.requests = Tail(ops[s].requests)
      BY <1>2, <1>4, <1>6, ThenShape, OpTyped, ChainFacts
    <2>2. Receives(s, r)
      BY <1>1, <1>2, <1>3, <1>4, <1>6, <2>1 DEF Receives, Installs, stacks, Begun
    <2> QED BY <2>2
  <1> QED BY <1>5, <1>6

\* The board is written, or about to be.
Overwrites(s) ==
    IsWrite(s) /\ (Top(ops[s]) \in {"full", "resume"} \/ (Top(ops[s]) = "cells" /\ ~Sent(s)))

\* An operation ends in a failure; what was sent is taken off the stacks.
Ends(s) ==
    /\ Sets(s, Nothing) /\ ops[s] # Nothing /\ failed' = TRUE
    /\ UNCHANGED <<server, cache, shown, buttons, disposed, meant, apart, crossed>>
    /\ strayed' = (strayed \/ Overwrites(s))
    /\ IF ops[s].kind \notin WriteKinds \/ (ops[s].kind = "commit" /\ Top(ops[s]) = "state")
       THEN UNCHANGED stacks
       ELSE /\ ops[s].kind = "commit" => undo' = Popped(undo) /\ redo' = redo
            /\ ops[s].kind = "undo" => redo' = Popped(redo) /\ undo' = Append(undo, ops[s].entry)
            /\ ops[s].kind = "redo" => undo' = Popped(undo) /\ redo' = Append(redo, ops[s].entry)

LEMMA FailShape ==
  ASSUME Typed, NEW s \in Slots, Fails(s)
  PROVE  Ends(s)
  <1>1. /\ ops[s] # Nothing /\ failed' = TRUE
        /\ UNCHANGED <<server, pane, disposed, meant, apart, crossed>> /\ Then(s, <<>>)
    BY DEF Fails
  <1>2. Sets(s, Nothing)
    BY <1>1, EndShape
  <1>3. ops[s].phase \in {"sent", "answered"}
    BY <1>1, OpTyped
  <1>6. strayed' = (strayed \/ (ops[s].kind \in WriteKinds /\ (\/ Head(ops[s].requests) \in {"full", "resume"}
                                              \/ (Head(ops[s].requests) = "cells" /\ ops[s].phase = "answered"))))
    BY DEF Fails
  <1>7. UNCHANGED <<server, cache, shown, buttons, disposed, meant, apart, crossed>>
    BY <1>1 DEF pane
  <1>4. strayed' = (strayed \/ Overwrites(s))
    <2>1. (ops[s].kind \in WriteKinds /\ (\/ Head(ops[s].requests) \in {"full", "resume"}
                                          \/ (Head(ops[s].requests) = "cells" /\ ops[s].phase = "answered")))
            <=> Overwrites(s)
      BY <1>1, <1>3 DEF Overwrites, IsWrite, Top, Sent
    <2> QED BY <2>1, <1>6
  <1>5. IF ops[s].kind \notin WriteKinds \/ (ops[s].kind = "commit" /\ Top(ops[s]) = "state")
        THEN UNCHANGED stacks
        ELSE /\ ops[s].kind = "commit" => undo' = Popped(undo) /\ redo' = redo
             /\ ops[s].kind = "undo" => redo' = Popped(redo) /\ undo' = Append(undo, ops[s].entry)
             /\ ops[s].kind = "redo" => undo' = Popped(undo) /\ redo' = Append(redo, ops[s].entry)
    <2>1. IF ops[s].kind = "commit" /\ Top(ops[s]) = "state" THEN UNCHANGED stacks
          ELSE RolledBack(ops[s].kind, ops[s].entry)
      BY DEF Fails, Top
    <2> QED BY <2>1 DEF RolledBack, WriteKinds
  <1> QED BY <1>1, <1>2, <1>4, <1>5, <1>7 DEF Ends

\* The loop ticks.
Ticks ==
    /\ server.running /\ server' \in Snapshots /\ server'.running
    /\ server'.revision = server.revision + 1
    /\ strayed' = (strayed \/ server'.cells # server.cells)
    /\ UNCHANGED <<ops, cache, shown, buttons, disposed, undo, redo, meant, apart, crossed, failed>>

\* The pane is disposed of, or nothing happens.
Rests ==
    /\ disposed' \in {disposed, TRUE}
    /\ UNCHANGED <<server, ops, cache, shown, buttons, undo, redo, meant, apart, crossed, strayed, failed>>

LEMMA TickShape == Typed /\ Tick => Ticks
  <1> SUFFICES ASSUME Typed, Tick PROVE Ticks OBVIOUS
  <1>1. PICK board \in Boards : /\ server' = Evolved(server, board)
                                /\ strayed' = (strayed \/ board # server.cells)
    BY DEF Tick
  <1>2. /\ server \in Snapshots /\ server.running
        /\ UNCHANGED <<ops, pane, disposed, stacks, meant, apart, crossed, failed>>
        /\ server.revision \in Nat /\ server.revision + 1 \in Nat /\ server.generation + 1 \in Nat
    BY DEF Typed, TypeOK, Tick, Snapshots
  <1>3. /\ server' \in Snapshots /\ server'.running /\ server'.revision = server.revision + 1
        /\ server'.cells = board
    BY <1>1, <1>2 DEF Evolved, Bumped, Snapshots
  <1> QED BY <1>1, <1>2, <1>3 DEF Ticks, pane, stacks

Shapes ==
    \/ \E s \in Slots, op \in Operations : Launches(s, op)
    \/ \E s \in Slots, r \in Operations : Serves(s, r)
    \/ \E s \in Slots, r \in Operations : Refetches(s, r)
    \/ \E s \in Slots, r \in Operations \cup {Nothing} : Receives(s, r)
    \/ \E s \in Slots : Ends(s)
    \/ Ticks
    \/ Rests

\* Every step of the pane has one of these shapes.
LEMMA StepShapes == Typed /\ Shows /\ [Next]_vars => Shapes
  <1> SUFFICES ASSUME Typed, Shows, [Next]_vars PROVE Shapes OBVIOUS
  <1>1. ASSUME NEW painted \in Strokes, Commit(painted) \/ CommitEarly(painted) PROVE Shapes
    BY <1>1, CommitLaunches, CommitEarlyLaunches DEF Shapes
  <1>2. CASE Undo \/ Redo
    BY <1>2, UndoLaunches, RedoLaunches DEF Shapes
  <1>3. CASE StepOnce \/ RunToggle \/ Refresh
    BY <1>3, StepOnceLaunches, RunToggleLaunches, RefreshLaunches DEF Shapes
  <1>4. CASE Tick
    BY <1>4, TickShape DEF Shapes
  <1>5. CASE Dispose \/ UNCHANGED vars
    <2>1. Rests
      BY <1>5 DEF Rests, Dispose, vars, pane, stacks, ghosts
    <2> QED BY <2>1 DEF Shapes
  <1>6. ASSUME NEW s \in Slots, Serve(s) PROVE Shapes
    BY <1>6, ServeShape DEF Shapes
  <1>7. ASSUME NEW s \in Slots, Refetch(s) PROVE Shapes
    BY <1>7, RefetchShape DEF Shapes
  <1>8. ASSUME NEW s \in Slots, Reseeded(s) \/ Asked(s) \/ Compared(s) \/ Answered(s) PROVE Shapes
    BY <1>8, ReseededShape, AskedShape, ComparedShape, AnsweredShape DEF Shapes
  <1>9. ASSUME NEW s \in Slots, Fails(s) PROVE Shapes
    BY <1>9, FailShape DEF Shapes
  <1> QED BY <1>1, <1>2, <1>3, <1>4, <1>5, <1>6, <1>7, <1>8, <1>9 DEF Next

(***************************************************************************)
(* Types.                                                                  *)
(***************************************************************************)

LEMMA SetsFormed ==
  ASSUME Typed, NEW s, NEW r, Sets(s, r), r = Nothing \/ WellFormed(r)
  PROVE  \A t \in Slots : ops'[t] # Nothing => WellFormed(ops'[t])
  BY DEF Typed, Sets

LEMMA StacksTyped ==
  ASSUME Typed
  PROVE  /\ Popped(undo) \in Seq(Entries) /\ Popped(redo) \in Seq(Entries) /\ <<>> \in Seq(Entries)
         /\ \A e \in Entries : Append(undo, e) \in Seq(Entries) /\ Append(redo, e) \in Seq(Entries)
  <1>1. undo \in Seq(Entries) /\ redo \in Seq(Entries) /\ <<>> \in Seq(Entries)
    BY DEF Typed, TypeOK
  <1>2. Popped(undo) \in Seq(Entries) /\ \A e \in Entries : Append(undo, e) \in Seq(Entries)
    BY <1>1, StackTyped
  <1>3. Popped(redo) \in Seq(Entries) /\ \A e \in Entries : Append(redo, e) \in Seq(Entries)
    BY <1>1, StackTyped
  <1> QED BY <1>1, <1>2, <1>3

LEMMA StepTyped == Typed /\ Shapes => Typed'
  <1> SUFFICES ASSUME Typed, Shapes PROVE Typed' OBVIOUS
  <1>1. /\ server \in Snapshots /\ {cache, shown} \subseteq Snapshots \union {Nothing}
        /\ buttons \in [undo : BOOLEAN, redo : BOOLEAN] /\ undo \in Seq(Entries) /\ redo \in Seq(Entries)
        /\ ops \in [Slots -> Operations \cup {Nothing}]
        /\ \A s \in Slots : ops[s] # Nothing => WellFormed(ops[s])
        /\ {disposed, meant, apart, crossed, strayed, failed} \subseteq BOOLEAN
    BY DEF Typed, TypeOK
  <1>2. ASSUME NEW s \in Slots, NEW op \in Operations, Launches(s, op) PROVE Typed'
    <2>1. /\ UNCHANGED <<server, cache, shown, buttons, disposed, strayed, failed>>
          /\ Sets(s, op) /\ Begun(op)
      BY <1>2 DEF Launches
    <2>2. \A t \in Slots : ops'[t] # Nothing => WellFormed(ops'[t])
      BY <2>1, SetsFormed DEF Begun
    <2>3. {apart', crossed'} \subseteq BOOLEAN
      BY <1>1, <1>2 DEF Launches
    <2>4. meant' \in BOOLEAN
      <3>1. (~shown.running) \in BOOLEAN
        OBVIOUS
      <3>2. op.kind \in {"commit", "undo", "redo", "poll", "step", "toggle"}
        BY <1>2 DEF Launches, Begun, Operations
      <3> QED BY <1>1, <1>2, <3>1, <3>2 DEF Launches, WriteKinds
    <2>5. undo' \in Seq(Entries) /\ redo' \in Seq(Entries)
      <3>1. op.kind \in WriteKinds => op.entry \in Entries \/ (op.kind = "commit" /\ shown = Nothing)
        <4>1. ASSUME op.kind \in WriteKinds, shown # Nothing PROVE op.entry \in Entries
          <5>1. op.requests = Writing(shown)
            BY <1>2, <4>1 DEF Launches
          <5>2. Top(op) # "state"
            BY <5>1, <4>1, ShownTyped, WritingChain DEF Top
          <5> QED BY <5>2, <2>1, <4>1 DEF Begun, WellFormed
        <4> QED BY <4>1, <1>2 DEF Launches
      <3>2. op.kind \in {"commit", "undo", "redo", "poll", "step", "toggle"}
        BY <1>2 DEF Launches, Begun, Operations
      <3>3. CASE op.kind = "commit"
        BY <1>1, <1>2, <3>1, <3>3, StacksTyped DEF Launches, WriteKinds, stacks
      <3>4. CASE op.kind \in {"undo", "redo"}
        BY <1>1, <1>2, <3>1, <3>4, StacksTyped DEF Launches, WriteKinds
      <3>5. CASE op.kind \in {"poll", "step", "toggle"}
        BY <1>1, <1>2, <3>5 DEF Launches, stacks
      <3> QED BY <3>2, <3>3, <3>4, <3>5
    <2> QED BY <1>1, <2>1, <2>2, <2>3, <2>4, <2>5 DEF Typed, TypeOK, Sets
  <1>3. ASSUME NEW s \in Slots, NEW r \in Operations, Serves(s, r) PROVE Typed'
    <2>1. /\ UNCHANGED <<cache, shown, buttons, disposed, undo, redo, meant, apart, crossed, failed>>
          /\ Sets(s, r) /\ WellFormed(r) /\ server' \in Snapshots
      BY <1>3 DEF Serves
    <2>2. \A t \in Slots : ops'[t] # Nothing => WellFormed(ops'[t])
      BY <2>1, SetsFormed
    <2>3. strayed' \in BOOLEAN
      BY <1>1, <1>3 DEF Serves
    <2> QED BY <1>1, <2>1, <2>2, <2>3 DEF Typed, TypeOK, Sets
  <1>4. ASSUME NEW s \in Slots, NEW r \in Operations, Refetches(s, r) PROVE Typed'
    <2>1. /\ UNCHANGED <<server, cache, shown, buttons, disposed, undo, redo,
                         meant, apart, crossed, strayed, failed>>
          /\ Sets(s, r) /\ WellFormed(r)
      BY <1>4 DEF Refetches, Begun
    <2>2. \A t \in Slots : ops'[t] # Nothing => WellFormed(ops'[t])
      BY <2>1, SetsFormed
    <2> QED BY <1>1, <2>1, <2>2 DEF Typed, TypeOK, Sets
  <1>5. ASSUME NEW s \in Slots, NEW r \in Operations \cup {Nothing}, Receives(s, r) PROVE Typed'
    <2>1. /\ UNCHANGED <<server, disposed, meant, apart, crossed, strayed, failed>>
          /\ Sets(s, r) /\ (r # Nothing => Begun(r)) /\ cache' \in Snapshots
          /\ ops[s] # Nothing
      BY <1>5 DEF Receives
    <2>2. \A t \in Slots : ops'[t] # Nothing => WellFormed(ops'[t])
      BY <2>1, SetsFormed DEF Begun
    <2>3. shown' \in {shown, cache'} /\ buttons' \in [undo : BOOLEAN, redo : BOOLEAN]
      BY <1>1, <1>5 DEF Receives
    <2>4. undo' \in Seq(Entries) /\ redo' \in Seq(Entries)
      <3>1. CASE Top(ops[s]) = "reset"
        BY <1>5, <3>1 DEF Receives
      <3>2. CASE ops[s].kind = "commit" /\ Top(ops[s]) = "state" /\ r # Nothing
        <4>1. r.entry \in Entries
          BY <1>5, <2>1, <3>2 DEF Receives, Begun, WellFormed, WriteKinds
        <4> QED BY <1>1, <1>5, <3>2, <4>1, StacksTyped DEF Receives
      <3>3. CASE UNCHANGED stacks
        BY <1>1, <3>3 DEF stacks
      <3> QED BY <1>5, <3>1, <3>2, <3>3 DEF Receives
    <2> QED BY <1>1, <2>1, <2>2, <2>3, <2>4 DEF Typed, TypeOK, Sets
  <1>6. ASSUME NEW s \in Slots, Ends(s) PROVE Typed'
    <2>1. /\ UNCHANGED <<server, cache, shown, buttons, disposed, meant, apart, crossed>>
          /\ Sets(s, Nothing) /\ failed' = TRUE /\ ops[s] # Nothing
      BY <1>6 DEF Ends
    <2>2. \A t \in Slots : ops'[t] # Nothing => WellFormed(ops'[t])
      BY <2>1, SetsFormed
    <2>3. strayed' \in BOOLEAN
      BY <1>1, <1>6 DEF Ends
    <2>4. undo' \in Seq(Entries) /\ redo' \in Seq(Entries)
      <3>1. CASE UNCHANGED stacks
        BY <1>1, <3>1 DEF stacks
      <3>2. CASE ops[s].kind \in WriteKinds /\ ~(ops[s].kind = "commit" /\ Top(ops[s]) = "state")
        <4>1. Top(ops[s]) # "state"
          BY <2>1, <3>2, OpTyped, ChainFacts DEF Top, WriteKinds
        <4>2. ops[s].entry \in Entries
          BY <1>1, <2>1, <3>2, <4>1 DEF WellFormed
        <4> QED BY <1>1, <1>6, <3>2, <4>2, StacksTyped DEF Ends, WriteKinds
      <3> QED BY <1>6, <3>1, <3>2 DEF Ends
    <2> QED BY <1>1, <2>1, <2>2, <2>3, <2>4 DEF Typed, TypeOK, Sets
  <1>7. CASE Ticks
    <2>1. strayed' \in BOOLEAN
      BY <1>1, <1>7 DEF Ticks
    <2> QED BY <1>1, <1>7, <2>1 DEF Ticks, Typed, TypeOK
  <1>8. CASE Rests
    BY <1>1, <1>8 DEF Rests, Typed, TypeOK
  <1> QED BY <1>2, <1>3, <1>4, <1>5, <1>6, <1>7, <1>8 DEF Shapes

LEMMA InitTyped == Init => Typed
  <1> SUFFICES ASSUME Init PROVE Typed OBVIOUS
  <1>1. PICK left \in Leftovers :
           server = [revision |-> 0, generation |-> 0, running |-> left.running, cells |-> left.cells]
    BY DEF Init
  <1>2. server \in Snapshots
    BY <1>1, PaneAssumption DEF Snapshots, Boards
  <1>3. PICK slot : slot = CHOOSE s \in Slots : TRUE
    OBVIOUS
  <1>4. PICK pattern \in Patterns : ops = [s \in Slots |-> IF s = slot THEN Seeding(pattern) ELSE Nothing]
    BY <1>3 DEF Init
  <1>5. Begun(Seeding(pattern))
    <2>1. pattern \in Paints
      BY DEF Patterns, Paints
    <2>2. Entry(pattern, pattern) \in Changes
      BY <2>1 DEF Entry, Changes
    <2>3. PICK requests : requests = IF pattern = <<>> THEN <<"reset">> ELSE <<"reset", "cells">>
      OBVIOUS
    <2>4. "seed" \in Kinds /\ "seed" \notin WriteKinds /\ requests \in Chains("seed")
      BY <2>3 DEF Kinds, WriteKinds, Chains
    <2>5. Seeding(pattern) = Operation("seed", requests, Entry(pattern, pattern))
      BY <2>3 DEF Seeding
    <2> QED BY <2>2, <2>4, <2>5, OperationBegun
  <1>6. ops \in [Slots -> Operations \cup {Nothing}] /\ \A s \in Slots : ops[s] # Nothing => WellFormed(ops[s])
    BY <1>4, <1>5 DEF Begun
  <1>7. buttons \in [undo : BOOLEAN, redo : BOOLEAN] /\ undo \in Seq(Entries) /\ redo \in Seq(Entries)
    BY DEF Init
  <1> QED BY <1>2, <1>6, <1>7 DEF Init, Typed, TypeOK

(***************************************************************************)
(* Revisions tell what is known apart.                                     *)
(***************************************************************************)

\* Nothing is known after a step that was not, but for the session's state.
LEMMA KnownStep ==
  Typed /\ Shapes => \A x \in Snapshots : Known(x)' => Known(x) \/ x = server'
  <1> SUFFICES ASSUME Typed, Shapes, NEW x \in Snapshots, Known(x)', x # server' PROVE Known(x)
    OBVIOUS
  <1>1. ASSUME NEW s \in Slots, NEW op \in Operations, Launches(s, op) PROVE Known(x)
    BY <1>1 DEF Launches, Begun, Sets, Known, InAnswer, Sent, AnswerOf
  <1>2. ASSUME NEW s \in Slots, NEW r \in Operations, Serves(s, r) PROVE Known(x)
    BY <1>2 DEF Serves, Sets, Known, InAnswer, Sent, AnswerOf
  <1>3. ASSUME NEW s \in Slots, NEW r \in Operations, Refetches(s, r) PROVE Known(x)
    BY <1>3 DEF Refetches, Begun, Sets, Known, InAnswer, Sent, AnswerOf
  <1>4. ASSUME NEW s \in Slots, NEW r \in Operations \cup {Nothing}, Receives(s, r) PROVE Known(x)
    <2>1. /\ s \in Slots /\ ops'[s] = r /\ \A t \in Slots : t # s => ops'[t] = ops[t]
          /\ ops[s] # Nothing /\ ~Sent(s) /\ (r # Nothing => r.phase = "sent")
          /\ server' = server /\ (cache' = AnswerOf(s) \/ (cache' = cache /\ cache # Nothing))
          /\ shown' = cache' \/ shown' = shown
      BY <1>4 DEF Receives, Begun, Sets
    <2>2. InAnswer(AnswerOf(s))
      BY <2>1 DEF InAnswer
    <2>3. InAnswer(x)' => InAnswer(x)
      BY <2>1 DEF InAnswer, Sent, AnswerOf
    <2> QED BY <2>1, <2>2, <2>3 DEF Known
  <1>5. ASSUME NEW s \in Slots, Ends(s) PROVE Known(x)
    BY <1>5 DEF Ends, Sets, Known, InAnswer, Sent, AnswerOf
  <1>6. CASE Ticks
    BY <1>6 DEF Ticks, Known, InAnswer, Sent, AnswerOf
  <1>7. CASE Rests
    BY <1>7 DEF Rests, Known, InAnswer, Sent, AnswerOf
  <1> QED BY <1>1, <1>2, <1>3, <1>4, <1>5, <1>6, <1>7 DEF Shapes

LEMMA ServerStep ==
  Typed /\ Shapes => server' = server \/ server'.revision = server.revision + 1
  BY DEF Shapes, Launches, Serves, Refetches, Receives, Ends, Ticks, Rests

LEMMA StepDistinct == Typed /\ Typed' /\ Distinct /\ Shapes => Distinct'
  <1> SUFFICES ASSUME Typed, Typed', Distinct, Shapes PROVE Distinct' OBVIOUS
  <1>1. /\ server \in Snapshots /\ server' \in Snapshots
        /\ server.revision \in Nat /\ server'.revision \in Nat
        /\ \A x \in Snapshots : x.revision \in Nat
    BY DEF Typed, TypeOK, Snapshots
  <1>2. Known(server) /\ server.revision <= server'.revision
    BY <1>1, ServerStep DEF Known
  <1>3. ASSUME NEW x \in Snapshots, Known(x)' PROVE x.revision <= server'.revision
    BY <1>1, <1>2, <1>3, KnownStep DEF Distinct
  <1>4. ASSUME NEW x \in Snapshots, NEW y \in Snapshots, Known(x)', Known(y)', x.revision = y.revision
        PROVE  x = y
    <2>1. CASE server' = server
      BY <1>2, <1>4, <2>1, KnownStep DEF Distinct
    <2>2. CASE server'.revision = server.revision + 1
      BY <1>1, <1>4, <2>2, KnownStep DEF Distinct
    <2> QED BY <2>1, <2>2, ServerStep
  <1> QED BY <1>3, <1>4 DEF Distinct

(***************************************************************************)
(* Who is under way together.                                              *)
(***************************************************************************)

LEMMA Continues ==
  ASSUME Typed, NEW s \in Slots, NEW r, Sets(s, r),
         ops[s] # Nothing, r # Nothing => r.kind = ops[s].kind
  PROVE  \A t \in Slots : ops'[t] # Nothing => ops[t] # Nothing /\ ops'[t].kind = ops[t].kind
  BY DEF Sets

\* All steps but the launches leave the kinds of what is under way alone.
LEMMA KindsStay ==
  ASSUME Typed, Shapes, ~\E s \in Slots, op \in Operations : Launches(s, op)
  PROVE  \A t \in Slots : ops'[t] # Nothing => ops[t] # Nothing /\ ops'[t].kind = ops[t].kind
  <1>1. ASSUME NEW s \in Slots, NEW r \in Operations, Serves(s, r) \/ Refetches(s, r)
        PROVE  \A t \in Slots : ops'[t] # Nothing => ops[t] # Nothing /\ ops'[t].kind = ops[t].kind
    BY <1>1, Continues DEF Serves, Refetches
  <1>2. ASSUME NEW s \in Slots, NEW r \in Operations \cup {Nothing}, Receives(s, r)
        PROVE  \A t \in Slots : ops'[t] # Nothing => ops[t] # Nothing /\ ops'[t].kind = ops[t].kind
    BY <1>2, Continues DEF Receives
  <1>3. ASSUME NEW s \in Slots, Ends(s)
        PROVE  \A t \in Slots : ops'[t] # Nothing => ops[t] # Nothing /\ ops'[t].kind = ops[t].kind
    BY <1>3, Continues DEF Ends
  <1>4. CASE Ticks \/ Rests
    BY <1>4 DEF Ticks, Rests
  <1> QED BY <1>1, <1>2, <1>3, <1>4 DEF Shapes

LEMMA StepAlone == Typed /\ Alone /\ Shows /\ Shapes => Alone'
  <1> SUFFICES ASSUME Typed, Alone, Shows, Shapes PROVE Alone' OBVIOUS
  <1>1. ASSUME NEW s \in Slots, NEW op \in Operations, Launches(s, op) PROVE Alone'
    <2>1. /\ ops'[s] = op /\ op # Nothing /\ op.kind # "seed" /\ ops[s] = Nothing
          /\ \A t \in Slots : t # s => ops'[t] = ops[t]
          /\ shown' = shown
      BY <1>1 DEF Launches, Sets, Begun
    <2>2. CASE op.kind = "poll"
      <3>1. /\ apart' = apart /\ crossed' = crossed /\ UNCHANGED stacks /\ meant' = meant
            /\ \A t \in Slots : Cmd(t)' <=> Cmd(t)
            /\ \A t \in Slots : Control(t)' <=> Control(t)
        BY <1>1, <2>1, <2>2 DEF Launches, Cmd, Control
      <3>2. \A t \in Slots : ops'[t] # Nothing /\ ops'[t].kind = "seed" => ops[t] # Nothing /\ ops[t].kind = "seed"
        BY <2>1
      <3> QED BY <2>1, <3>1, <3>2 DEF Alone, stacks
    <2>3. CASE op.kind # "poll"
      <3>1. /\ apart' => apart /\ \A t \in Slots : ~Cmd(t)
            /\ ~crossed' => /\ ~crossed
                            /\ \A t \in Slots : Cmd(t) => op.kind \in WriteKinds /\ ops[t].kind \in WriteKinds
            /\ apart => ~crossed
        BY <1>1, <2>3 DEF Launches, Alone
      <3>2. /\ \A t \in Slots : t # s => (Cmd(t)' <=> Cmd(t)) /\ (Control(t)' <=> Control(t))
            /\ Control(s)' <=> op.kind \notin WriteKinds
        BY <2>1, <2>3 DEF Cmd, Control
      <3>3. apart' => ~crossed'
        BY <1>1, <2>3 DEF Launches, Alone
      <3>4. apart' => \A t, u \in Slots : Cmd(t)' /\ Cmd(u)' => t = u
        BY <3>1, <3>2
      <3>5. ~crossed' => \A t, u \in Slots : Control(t)' /\ Cmd(u)' => t = u
        BY <3>1, <3>2 DEF Alone, Control
      <3>6. ~crossed' => \A t \in Slots : ~(ops'[t] # Nothing /\ ops'[t].kind = "seed")
        BY <2>1, <3>1 DEF Cmd, WriteKinds
      <3> QED BY <3>3, <3>4, <3>5, <3>6 DEF Alone
    <2> QED BY <2>2, <2>3
  <1>2. ASSUME ~\E s \in Slots, op \in Operations : Launches(s, op) PROVE Alone'
    <2>1. \A t \in Slots : ops'[t] # Nothing => ops[t] # Nothing /\ ops'[t].kind = ops[t].kind
      BY <1>2, KindsStay
    <2>2. apart' = apart /\ crossed' = crossed /\ meant' = meant
      BY <1>2 DEF Shapes, Serves, Refetches, Receives, Ends, Ticks, Rests
    <2>3. \A t \in Slots : (Cmd(t)' => Cmd(t)) /\ (Control(t)' => Control(t))
      BY <2>1 DEF Cmd, Control
    <2>4. ASSUME ~crossed, NEW t \in Slots, ops'[t] # Nothing, ops'[t].kind = "seed"
          PROVE  shown' = Nothing /\ undo' = <<>> /\ redo' = <<>>
      <3>1. /\ ops[t] # Nothing /\ ops[t].kind = "seed" /\ shown = Nothing /\ undo = <<>> /\ redo = <<>>
            /\ Cmd(t) /\ Control(t)
        BY <2>1, <2>4 DEF Alone, Cmd, Control, WriteKinds
      <3>2. \A u \in Slots : ops[u] # Nothing => u = t
        BY <3>1, <2>4 DEF Alone, Shows, Cmd
      <3>3. ASSUME NEW r \in Operations \cup {Nothing}, Receives(t, r)
            PROVE  shown' = Nothing /\ undo' = <<>> /\ redo' = <<>>
        <4>1. r # Nothing /\ ops'[t] = r
          BY <2>4, <3>3 DEF Receives, Sets
        <4>2. Tail(ops[t].requests) # <<>> /\ Top(ops[t]) = "reset"
          <5>1. Top(ops[t]) \notin {"state", "again"}
            BY <3>1, OpTyped, ChainFacts DEF Top
          <5>2. Tail(ops[t].requests) # <<>>
            BY <3>3, <4>1, <5>1 DEF Receives
          <5> QED BY <3>1, <5>2, OpTyped, TailFacts DEF Top, WriteKinds
        <4> QED BY <3>1, <3>3, <4>1, <4>2 DEF Receives
      <3>4. ASSUME Ends(t) PROVE FALSE
        BY <3>4, <2>4 DEF Ends, Sets
      <3>5. ASSUME NEW u \in Slots, NEW r, Serves(u, r) \/ Refetches(u, r) \/ Receives(u, r) \/ Ends(u)
            PROVE  u = t
        BY <3>2, <3>5 DEF Serves, Refetches, Receives, Ends
      <3> QED BY <1>2, <3>1, <3>3, <3>4, <3>5 DEF Shapes, Serves, Refetches, Ticks, Rests
    <2> QED BY <2>1, <2>2, <2>3, <2>4 DEF Alone
  <1> QED BY <1>1, <1>2

(***************************************************************************)
(* What the pane shows.                                                    *)
(***************************************************************************)

LEMMA LaunchTop ==
  ASSUME Typed, Shows, NEW s \in Slots, NEW op \in Operations, Launches(s, op), shown # Nothing, op.kind # "poll"
  PROVE  Top(op) \notin {"state", "again", "full"}
  <1>1. op.kind \in {"commit", "undo", "redo", "step", "toggle"}
    BY DEF Launches, Begun, Operations
  <1>2. CASE op.kind \in WriteKinds
    BY <1>2, ShownTyped, WritingChain DEF Launches, Top
  <1>3. CASE op.kind = "step"
    BY <1>3, Literals DEF Launches, Top
  <1>4. CASE op.kind = "toggle"
    BY <1>4, ShownTyped, TogglingChain DEF Launches, Top
  <1> QED BY <1>1, <1>2, <1>3, <1>4 DEF WriteKinds

LEMMA StepShows == Typed /\ Alone /\ Shows /\ Shapes => Shows'
  <1> SUFFICES ASSUME Typed, Alone, Shows, Shapes PROVE Shows' OBVIOUS
  <1>1. ASSUME NEW s \in Slots, NEW op \in Operations, Launches(s, op) PROVE Shows'
    <2>1. /\ ops'[s] = op /\ op # Nothing /\ ops[s] = Nothing
          /\ \A t \in Slots : t # s => ops'[t] = ops[t]
          /\ UNCHANGED <<cache, shown, buttons, disposed, failed>> /\ ~disposed
          /\ op.kind = "poll" => shown # Nothing /\ crossed' = crossed
          /\ ~crossed' => ~crossed
      BY <1>1 DEF Launches, Sets, Begun
    <2>2. ASSUME ~crossed', ~failed, NEW t \in Slots, Cmd(t)' PROVE Top(ops'[t]) \notin {"state", "again"}
      <3>1. CASE t # s
        BY <2>1, <2>2, <3>1 DEF Shows, Cmd
      <3>2. CASE t = s
        <4>1. op.kind # "poll"
          BY <2>1, <2>2, <3>2 DEF Cmd
        <4>2. shown # Nothing
          <5> SUFFICES ASSUME shown = Nothing PROVE FALSE OBVIOUS
          <5>1. PICK u \in Slots : ops[u] # Nothing /\ ops[u].kind = "seed"
            BY <2>1, <2>2 DEF Shows
          <5>2. Cmd(u) /\ ops[u].kind \notin WriteKinds
            BY <5>1 DEF Cmd, WriteKinds
          <5>3. crossed'
            BY <1>1, <4>1, <5>2 DEF Launches
          <5> QED BY <2>2, <5>3
        <4> QED BY <1>1, <2>1, <3>2, <4>1, <4>2, LaunchTop
      <3> QED BY <3>1, <3>2
    <2>3. shown' = Nothing => \A t \in Slots : ops'[t] # Nothing => ops'[t].kind # "poll"
      BY <2>1 DEF Shows
    <2>4. ~crossed' /\ ~failed' /\ ~disposed' /\ shown' = Nothing =>
             \E t \in Slots : ops'[t] # Nothing /\ ops'[t].kind = "seed"
      BY <2>1 DEF Shows
    <2> QED BY <2>1, <2>2, <2>3, <2>4 DEF Shows
  <1>2. ASSUME NEW s \in Slots, NEW r \in Operations, Serves(s, r) PROVE Shows'
    <2>1. /\ ops'[s] = r /\ r # Nothing /\ r.kind = ops[s].kind /\ Top(r) = Top(ops[s]) /\ ops[s] # Nothing
          /\ \A t \in Slots : t # s => ops'[t] = ops[t]
          /\ UNCHANGED <<cache, shown, buttons, disposed, failed, crossed>>
      BY <1>2 DEF Serves, Sets, Top
    <2>2. \A t \in Slots : (Cmd(t)' <=> Cmd(t)) /\ (ops[t] # Nothing => Top(ops'[t]) = Top(ops[t]))
                           /\ (ops'[t] # Nothing <=> ops[t] # Nothing) /\ ops'[t].kind = ops[t].kind
      BY <2>1 DEF Cmd
    <2> QED BY <2>1, <2>2 DEF Shows, Cmd
  <1>3. ASSUME NEW s \in Slots, NEW r \in Operations, Refetches(s, r) PROVE Shows'
    <2>1. /\ ops'[s] = r /\ r # Nothing /\ r.kind = ops[s].kind /\ Top(r) = "full" /\ ops[s] # Nothing
          /\ \A t \in Slots : t # s => ops'[t] = ops[t]
          /\ UNCHANGED <<cache, shown, buttons, disposed, failed, crossed>>
      BY <1>3 DEF Refetches, Sets, Begun
    <2>2. \A t \in Slots : (Cmd(t)' <=> Cmd(t)) /\ (Top(ops'[t]) = Top(ops[t]) \/ Top(ops'[t]) = "full")
                           /\ (ops'[t] # Nothing <=> ops[t] # Nothing) /\ ops'[t].kind = ops[t].kind
      BY <2>1 DEF Cmd
    <2> QED BY <2>1, <2>2 DEF Shows, Cmd
  <1>4. ASSUME NEW s \in Slots, NEW r \in Operations \cup {Nothing}, Receives(s, r) PROVE Shows'
    <2>1. /\ ops'[s] = r /\ (r # Nothing => r.kind = ops[s].kind) /\ ops[s] # Nothing
          /\ \A t \in Slots : t # s => ops'[t] = ops[t]
          /\ UNCHANGED <<disposed, failed, crossed>> /\ cache' \in Snapshots /\ cache' # Nothing
      BY <1>4, PaneAssumption DEF Receives, Sets
    <2>2. IF disposed \/ (Top(ops[s]) = "reset" /\ r # Nothing) THEN UNCHANGED <<shown, buttons>>
          ELSE shown' = cache'
      BY <1>4 DEF Receives
    <2>3. shown' # Nothing \/ (shown = Nothing /\ buttons' = buttons)
      BY <2>1, <2>2
    <2>4. \A t \in Slots : ops'[t] # Nothing => ops[t] # Nothing /\ ops'[t].kind = ops[t].kind
      BY <2>1
    <2>5. Top(ops[s]) = "reset" => ops[s].kind = "seed"
      BY <2>1, OpTyped, ChainFacts DEF Top
    <2>6. ~crossed /\ ~disposed /\ shown' # Nothing => shown' = cache'
      BY <2>1, <2>2, <2>5 DEF Alone
    <2>7. ~disposed /\ shown' = Nothing => \E t \in Slots : ops'[t] # Nothing /\ ops'[t].kind = "seed"
      BY <2>1, <2>2, <2>5
    <2>8. ASSUME ~crossed, ~failed, NEW t \in Slots, Cmd(t)' PROVE Top(ops'[t]) \notin {"state", "again"}
      <3>1. CASE t # s
        BY <2>1, <2>8, <3>1 DEF Shows, Cmd
      <3>2. CASE t = s
        <4>1. r # Nothing /\ Cmd(s)
          BY <2>1, <2>8, <3>2 DEF Cmd
        <4>2. Top(ops[s]) \notin {"state", "again"}
          BY <2>8, <4>1 DEF Shows
        <4>3. Tail(ops[s].requests) # <<>> /\ r.requests = Tail(ops[s].requests)
          BY <1>4, <4>1, <4>2 DEF Receives
        <4>4. Head(Tail(ops[s].requests)) \in {"cells", "resume"}
          BY <2>1, <4>3, OpTyped, ChainFacts
        <4> QED BY <2>1, <3>2, <4>3, <4>4 DEF Top
      <3> QED BY <3>1, <3>2
    <2>9. shown' = Nothing => /\ ~buttons'.undo /\ ~buttons'.redo
                              /\ \A t \in Slots : ops'[t] # Nothing => ops'[t].kind # "poll"
      BY <2>3, <2>4 DEF Shows
    <2> QED BY <2>1, <2>6, <2>7, <2>8, <2>9 DEF Shows
  <1>5. ASSUME NEW s \in Slots, Ends(s) PROVE Shows'
    <2>1. /\ ops'[s] = Nothing /\ \A t \in Slots : t # s => ops'[t] = ops[t]
          /\ UNCHANGED <<cache, shown, buttons, disposed, crossed>> /\ failed'
      BY <1>5 DEF Ends, Sets
    <2>2. shown = Nothing => \A t \in Slots : ops'[t] # Nothing => ops'[t].kind # "poll"
      BY <2>1 DEF Shows
    <2> QED BY <2>1, <2>2 DEF Shows
  <1>6. CASE Ticks
    BY <1>6 DEF Ticks, Shows, Cmd
  <1>7. CASE Rests
    BY <1>7 DEF Rests, Shows, Cmd
  <1> QED BY <1>1, <1>2, <1>3, <1>4, <1>5, <1>6, <1>7 DEF Shapes

(***************************************************************************)
(* The buttons.                                                            *)
(***************************************************************************)

LEMMA StepTold == Typed /\ Told /\ Shapes => Told'
  <1> SUFFICES ASSUME Typed, Told, Shapes, ~disposed', ~failed', \A t \in Slots : ~Cmd(t)'
               PROVE  buttons' = [undo |-> undo' # <<>>, redo |-> redo' # <<>>]
    BY DEF Told
  <1>1. ASSUME NEW s \in Slots, NEW op \in Operations, Launches(s, op)
        PROVE  buttons' = [undo |-> undo' # <<>>, redo |-> redo' # <<>>]
    <2>1. /\ ops'[s] = op /\ op # Nothing /\ ops[s] = Nothing
          /\ \A t \in Slots : t # s => ops'[t] = ops[t]
          /\ UNCHANGED <<buttons, disposed, failed>> /\ ~disposed
      BY <1>1 DEF Launches, Sets, Begun
    <2>2. op.kind = "poll"
      BY <2>1 DEF Cmd
    <2>3. UNCHANGED stacks
      BY <1>1, <2>2 DEF Launches
    <2>4. \A t \in Slots : ~Cmd(t)
      BY <2>1 DEF Cmd
    <2> QED BY <2>1, <2>3, <2>4 DEF Told, stacks
  <1>2. ASSUME NEW s \in Slots, NEW r \in Operations, Serves(s, r)
        PROVE  buttons' = [undo |-> undo' # <<>>, redo |-> redo' # <<>>]
    <2>1. \A t \in Slots : ~Cmd(t)
      BY <1>2 DEF Serves, Sets, Cmd
    <2> QED BY <1>2, <2>1 DEF Serves, Told
  <1>3. ASSUME NEW s \in Slots, NEW r \in Operations, Refetches(s, r)
        PROVE  buttons' = [undo |-> undo' # <<>>, redo |-> redo' # <<>>]
    <2>1. \A t \in Slots : ~Cmd(t)
      BY <1>3 DEF Refetches, Begun, Sets, Cmd
    <2> QED BY <1>3, <2>1 DEF Refetches, Told
  <1>4. ASSUME NEW s \in Slots, NEW r \in Operations \cup {Nothing}, Receives(s, r)
        PROVE  buttons' = [undo |-> undo' # <<>>, redo |-> redo' # <<>>]
    <2>1. ops'[s] = r /\ ops[s] # Nothing /\ (r # Nothing => r.kind = ops[s].kind) /\ ~disposed
      BY <1>4 DEF Receives, Sets
    <2>2. CASE r = Nothing
      BY <1>4, <2>1, <2>2 DEF Receives
    <2>3. CASE r # Nothing
      <3>1. ops[s].kind = "poll"
        BY <2>1, <2>3 DEF Cmd
      <3>2. Top(ops[s]) = "state"
        BY <2>1, <3>1, OpTyped, ChainFacts DEF Top
      <3> QED BY <1>4, <2>3, <3>1, <3>2 DEF Receives
    <2> QED BY <2>2, <2>3
  <1>5. ASSUME NEW s \in Slots, Ends(s)
        PROVE  buttons' = [undo |-> undo' # <<>>, redo |-> redo' # <<>>]
    BY <1>5 DEF Ends
  <1>6. CASE Ticks
    BY <1>6 DEF Ticks, Told, Cmd
  <1>7. CASE Rests
    BY <1>7 DEF Rests, Told, Cmd
  <1> QED BY <1>1, <1>2, <1>3, <1>4, <1>5, <1>6, <1>7 DEF Shapes

(***************************************************************************)
(* Whether the session runs.                                               *)
(***************************************************************************)

LEMMA ControlLaunch ==
  ASSUME Typed, Shows, NEW s \in Slots, NEW op \in Operations, Launches(s, op),
         op.kind \notin WriteKinds, op.kind # "poll"
  PROVE  /\ Top(op) \in {"step", "state", "pause", "resume", "start"}
         /\ op.kind = "step" \/ Top(op) = "pause" => ~meant'
         /\ Top(op) \in {"start", "resume"} => meant'
  <1>1. op.kind \in {"step", "toggle"}
    BY DEF Launches, Begun, Operations, WriteKinds
  <1>2. CASE op.kind = "step"
    BY <1>2, Literals DEF Launches, Top
  <1>3. CASE op.kind = "toggle" /\ shown = Nothing
    BY <1>3, Literals DEF Launches, Top
  <1>4. CASE op.kind = "toggle" /\ shown # Nothing
    <2>1. shown \in Snapshots /\ op.requests = Toggling(shown) /\ meant' = ~shown.running
      BY <1>4, ShownTyped DEF Launches
    <2>2. Top(op) = Head(Toggling(shown))
      BY <2>1 DEF Top
    <2> QED BY <1>4, <2>1, <2>2, TogglingChain
  <1> QED BY <1>1, <1>2, <1>3, <1>4

LEMMA StepIntended == Typed /\ Alone /\ Shows /\ Intended /\ Shapes => Intended'
  <1> SUFFICES ASSUME Typed, Alone, Shows, Intended, Shapes, ~crossed', ~failed', NEW t \in Slots, Control(t)'
               PROVE  /\ ops'[t].kind = "step" \/ Top(ops'[t]) = "pause" => ~meant'
                      /\ Top(ops'[t]) \in {"start", "resume"} => meant'
    BY DEF Intended
  <1> DEFINE Goal == /\ ops'[t].kind = "step" \/ Top(ops'[t]) = "pause" => ~meant'
                     /\ Top(ops'[t]) \in {"start", "resume"} => meant'
  <1> HIDE DEF Goal
  <1>0. SUFFICES Goal
    BY DEF Goal
  <1>1. ASSUME NEW s \in Slots, NEW op \in Operations, Launches(s, op) PROVE Goal
    <2>1. /\ ops'[s] = op /\ op # Nothing /\ ops[s] = Nothing
          /\ \A u \in Slots : u # s => ops'[u] = ops[u]
          /\ failed' = failed /\ (~crossed' => ~crossed)
      BY <1>1 DEF Launches, Sets, Begun
    <2>2. CASE t = s
      BY <1>1, <2>1, <2>2, ControlLaunch DEF Goal, Control, Cmd
    <2>3. CASE t # s
      <3>1. Control(t) /\ ops'[t] = ops[t]
        BY <2>1, <2>3 DEF Control, Cmd
      <3>2. op.kind \in WriteKinds \cup {"poll"}
        BY <1>1, <3>1 DEF Launches, Control
      <3>3. meant' = meant
        BY <1>1, <3>2 DEF Launches
      <3> QED BY <2>1, <3>1, <3>3 DEF Intended, Goal
    <2> QED BY <2>2, <2>3
  <1>2. ASSUME NEW s \in Slots, NEW r \in Operations, Serves(s, r) PROVE Goal
    <2>1. /\ ops'[t].kind = ops[t].kind /\ Top(ops'[t]) = Top(ops[t]) /\ Control(t)
          /\ UNCHANGED <<crossed, failed, meant>>
      BY <1>2 DEF Serves, Sets, Top, Control, Cmd
    <2> QED BY <2>1 DEF Intended, Goal
  <1>3. ASSUME NEW s \in Slots, NEW r \in Operations, Refetches(s, r) PROVE Goal
    <2>1. /\ ops'[t].kind = ops[t].kind /\ (t # s => ops'[t] = ops[t]) /\ (t = s => Top(ops'[t]) = "full")
          /\ Control(t) /\ ops[s].kind # "step"
          /\ UNCHANGED <<crossed, failed, meant>>
      <3>1. Top(ops[s]) = "cells" /\ ops[s] # Nothing
        BY <1>3 DEF Refetches
      <3>2. ops[s].kind # "step"
        BY <3>1, OpTyped, ChainFacts DEF Top
      <3> QED BY <1>3, <3>2 DEF Refetches, Sets, Begun, Control, Cmd
    <2> QED BY <2>1 DEF Intended, Goal
  <1>4. ASSUME NEW s \in Slots, NEW r \in Operations \cup {Nothing}, Receives(s, r) PROVE Goal
    <2>1. /\ ops'[s] = r /\ (r # Nothing => r.kind = ops[s].kind) /\ ops[s] # Nothing
          /\ \A u \in Slots : u # s => ops'[u] = ops[u]
          /\ UNCHANGED <<crossed, failed, meant>>
      BY <1>4 DEF Receives, Sets
    <2>2. CASE t = s
      <3>1. r # Nothing /\ Cmd(s) /\ ops[s].kind \notin WriteKinds
        BY <2>1, <2>2 DEF Control, Cmd
      <3>2. Top(ops[s]) \notin {"state", "again"}
        BY <2>1, <3>1 DEF Shows
      <3>3. Tail(ops[s].requests) # <<>> /\ r.requests = Tail(ops[s].requests)
        BY <1>4, <3>1, <3>2 DEF Receives
      <3>4. ops[s].kind = "seed" /\ Head(Tail(ops[s].requests)) = "cells"
        BY <2>1, <3>1, <3>3, OpTyped, TailFacts
      <3>5. Top(r) = "cells" /\ r.kind = "seed"
        BY <2>1, <3>1, <3>3, <3>4 DEF Top
      <3> QED BY <2>1, <2>2, <3>5 DEF Goal
    <2>3. CASE t # s
      BY <2>1, <2>3 DEF Intended, Goal, Control, Cmd
    <2> QED BY <2>2, <2>3
  <1>5. ASSUME NEW s \in Slots, Ends(s) PROVE Goal
    BY <1>5 DEF Ends
  <1>6. CASE Ticks
    BY <1>6 DEF Ticks, Intended, Goal, Control, Cmd
  <1>7. CASE Rests
    BY <1>7 DEF Rests, Intended, Goal, Control, Cmd
  <1> QED BY <1>1, <1>2, <1>3, <1>4, <1>5, <1>6, <1>7 DEF Shapes

\* What Running says once the last control was served
Settled ==
    IF meant THEN server.running \/ \E s \in Slots : WillResume(s)
    ELSE /\ \A s \in Slots : ~Resumes(s)
         /\ \A x \in Snapshots : Known(x) /\ x.running => Overruled(x)

\* While no run is meant, the session does not run: nothing overrules its state.
LEMMA NotRunning ==
  ASSUME Typed, Distinct, Settled, ~meant
  PROVE  ~server.running
  <1>1. server \in Snapshots /\ Known(server)
    BY DEF Typed, TypeOK, Known
  <1> SUFFICES ASSUME server.running PROVE FALSE OBVIOUS
  <1>2. Overruled(server)
    BY <1>1 DEF Settled
  <1>3. /\ server.revision \in Nat
        /\ \A x \in Snapshots : x.revision \in Nat /\ (Known(x) => x.revision <= server.revision)
    BY <1>1 DEF Snapshots, Distinct
  <1>4. cache # Nothing => cache \in Snapshots /\ Known(cache)
    BY DEF Typed, TypeOK, Known
  <1>5. \A s \in Slots : ops[s] # Nothing /\ ~Sent(s) => AnswerOf(s) \in Snapshots /\ Known(AnswerOf(s))
    BY OpTyped DEF Known, InAnswer
  <1> QED BY <1>2, <1>3, <1>4, <1>5 DEF Overruled, Decides, Control, Cmd

LEMMA LaunchSettled ==
  ASSUME Typed, Typed', Alone, Shows, Distinct, Running, Shapes, NEW s \in Slots, NEW op \in Operations, Launches(s, op),
         ~crossed', ~failed', ~Undecided'
  PROVE  Settled'
  <1>1. /\ ops'[s] = op /\ op # Nothing /\ ops[s] = Nothing /\ op.phase = "sent"
        /\ \A u \in Slots : u # s => ops'[u] = ops[u]
        /\ UNCHANGED <<server, cache, shown, failed, disposed>> /\ ~disposed /\ (~crossed' => ~crossed)
    BY DEF Launches, Sets, Begun
  <1>2. op.kind \in WriteKinds \cup {"poll"}
    <2> SUFFICES ASSUME op.kind \notin WriteKinds, op.kind # "poll" PROVE FALSE OBVIOUS
    <2>1. Top(op) \notin {"cells", "full"}
      BY ControlLaunch
    <2>2. Undecided'
      BY <1>1, <2>1 DEF Undecided, Decides, Control, Cmd, Sent
    <2> QED BY <2>2
  <1>3. meant' = meant
    BY <1>2 DEF Launches
  <1>4. \A u \in Slots : u # s => (Decides(u)' <=> Decides(u)) /\ (Sent(u)' <=> Sent(u)) /\ AnswerOf(u)' = AnswerOf(u)
                                  /\ (Resumes(u)' <=> Resumes(u)) /\ (WillResume(u)' <=> WillResume(u))
    BY <1>1 DEF Decides, Control, Cmd, Sent, AnswerOf, Resumes, IsWrite, WillResume
  <1>5. ~Decides(s) /\ ~WillResume(s) /\ ~Decides(s)'
    BY <1>1, <1>2 DEF Decides, Control, Cmd, WillResume, Resumes, IsWrite
  <1>6. ~Undecided
    BY <1>4, <1>5 DEF Undecided
  <1>7. Settled
    BY <1>1, <1>6 DEF Running, Settled
  <1>8. CASE meant
    BY <1>1, <1>3, <1>4, <1>5, <1>7, <1>8 DEF Settled
  <1>9. CASE ~meant
    <2>1. ~Resumes(s)'
      <3>1. CASE op.kind = "poll"
        BY <1>1, <3>1 DEF Resumes, IsWrite, WriteKinds
      <3>2. CASE op.kind \in WriteKinds
        <4>1. \A u \in Slots : ~Control(u)
          BY <3>2 DEF Launches, Control, Cmd, WriteKinds
        <4>2. shown # Nothing
          BY <1>1, <4>1 DEF Shows, Control, Cmd, WriteKinds
        <4>3. op.requests = Writing(shown) /\ shown \in Snapshots
          BY <3>2, <4>2, ShownTyped DEF Launches
        <4>4. shown = cache /\ Known(shown)
          BY <1>1, <4>2 DEF Shows, Known
        <4>5. ~Overruled(shown)
          BY <4>1, <4>3, <4>4 DEF Overruled, Decides, Snapshots
        <4>6. ~shown.running
          BY <1>7, <1>9, <4>3, <4>4, <4>5 DEF Settled
        <4>7. Writing(shown) \notin Resuming
          BY <3>2, <4>3, <4>6, WritingChain
        <4> QED BY <1>1, <4>3, <4>7 DEF Resumes
      <3> QED BY <1>2, <3>1, <3>2
    <2>2. \A u \in Slots : ~Resumes(u)'
      BY <1>4, <1>7, <1>9, <2>1 DEF Settled
    <2>3. \A x \in Snapshots : Overruled(x) => Overruled(x)'
      BY <1>1, <1>4, <1>5 DEF Overruled
    <2>4. \A x \in Snapshots : Known(x)' => Known(x)
      BY <1>1, KnownStep DEF Known
    <2> QED BY <1>3, <1>7, <1>9, <2>2, <2>3, <2>4 DEF Settled
  <1> QED BY <1>8, <1>9

LEMMA ServeSettled ==
  ASSUME Typed, Typed', Alone, Shows, Intended, Distinct, Distinct', Running, Shapes,
         NEW s \in Slots, NEW r \in Operations, Serves(s, r),
         ~crossed', ~failed', ~Undecided'
  PROVE  Settled'
  <1>1. /\ ops'[s] = r /\ r # Nothing /\ ops[s] # Nothing /\ Sent(s) /\ ~Sent(s)' /\ AnswerOf(s)' = server'
        /\ r.kind = ops[s].kind /\ r.requests = ops[s].requests /\ Top(r) = Top(ops[s])
        /\ \A u \in Slots : u # s => ops'[u] = ops[u]
        /\ UNCHANGED <<cache, shown, failed, crossed, meant>> /\ ~crossed /\ ~failed
    BY DEF Serves, Sets, Sent, AnswerOf, Top
  <1>2. /\ \A u \in Slots : (Decides(u)' <=> Decides(u)) /\ (Resumes(u)' <=> Resumes(u))
        /\ \A u \in Slots : u # s => (Sent(u)' <=> Sent(u)) /\ AnswerOf(u)' = AnswerOf(u)
                                     /\ (WillResume(u)' <=> WillResume(u))
    BY <1>1 DEF Decides, Control, Cmd, Sent, AnswerOf, Resumes, IsWrite, WillResume
  <1>3. /\ ops[s].kind \in Kinds /\ Top(ops[s]) \in Requests /\ ops[s].requests \in Chains(ops[s].kind)
    BY <1>1, OpTyped
  <1>4. /\ Top(ops[s]) = "reset" <=> ops[s].kind = "seed" /\ Top(ops[s]) \notin {"cells", "full"}
        /\ Top(ops[s]) = "step" <=> ops[s].kind = "step"
        /\ ops[s].kind = "poll" => Top(ops[s]) = "state"
        /\ ops[s].kind = "toggle" => Top(ops[s]) \in {"state", "pause", "resume", "start"}
    BY <1>3, ChainFacts DEF Top
  <1>5. /\ server' \in Snapshots /\ Known(server)'
        /\ \A x \in Snapshots : x.revision \in Nat /\ (Known(x)' => x.revision <= server'.revision)
        /\ \A x \in Snapshots : Known(x)' /\ x # server' => x.revision < server'.revision
    <2>1. server' \in Snapshots /\ Known(server)' /\ \A x \in Snapshots : x.revision \in Nat
      BY DEF Typed, TypeOK, Known, Snapshots
    <2>2. \A x \in Snapshots : (Known(x)' => x.revision <= server'.revision)
                               /\ (Known(x)' /\ x # server' => x.revision # server'.revision)
      BY <2>1 DEF Distinct
    <2> QED BY <2>1, <2>2
  <1>6. CASE Decides(s)
    <2>1. \A u \in Slots : Cmd(u) => u = s
      BY <1>1, <1>6 DEF Alone, Decides
    <2>2. Top(ops[s]) \in {"reset", "step", "pause", "start", "resume"}
      <3>1. Top(ops[s]) \notin {"state", "again", "cells", "full"}
        BY <1>1, <1>6 DEF Decides, Control, Shows
      <3> QED BY <1>3, <3>1 DEF Requests
    <2>3. IF meant THEN Top(ops[s]) \in {"start", "resume"} ELSE Top(ops[s]) \in {"reset", "step", "pause"}
      <3>1. Top(ops[s]) = "reset" => ~meant
        BY <1>1, <1>4 DEF Alone
      <3>2. Top(ops[s]) \in {"step", "pause"} => ~meant
        BY <1>1, <1>4, <1>6 DEF Intended, Decides
      <3>3. Top(ops[s]) \in {"start", "resume"} => meant
        BY <1>1, <1>6 DEF Intended, Decides
      <3> QED BY <2>2, <3>1, <3>2, <3>3
    <2>4. CASE meant
      BY <1>1, <2>3, <2>4 DEF Settled, Serves
    <2>5. CASE ~meant
      <3>1. ~server'.running
        BY <2>3, <2>5 DEF Serves
      <3>2. \A u \in Slots : ~Resumes(u)'
        BY <1>2, <1>6, <2>1 DEF Resumes, IsWrite, Decides, Control, Cmd, WriteKinds
      <3>3. ASSUME NEW x \in Snapshots, Known(x)', x.running PROVE Overruled(x)'
        BY <1>1, <1>2, <1>5, <1>6, <3>1, <3>3 DEF Overruled
      <3> QED BY <1>1, <2>5, <3>2, <3>3 DEF Settled
    <2> QED BY <2>4, <2>5
  <1>7. CASE ~Decides(s)
    <2>1. ~Undecided
      BY <1>2, <1>7 DEF Undecided
    <2>2. Settled
      BY <1>1, <2>1 DEF Running, Settled
    <2>3. /\ Top(ops[s]) \in {"state", "again", "full", "cells", "pause", "resume"}
          /\ Top(ops[s]) \in {"pause", "resume"} => ops[s].kind \in WriteKinds
      <3>1. ops[s].kind \notin WriteKinds => Top(ops[s]) \in {"state", "cells", "full"}
        BY <1>1, <1>3, <1>4, <1>7 DEF Decides, Control, Cmd
      <3>2. ops[s].kind \in WriteKinds => Top(ops[s]) \in {"state", "again", "full", "cells", "pause", "resume"}
        <4>1. ASSUME ops[s].kind \in WriteKinds, Top(ops[s]) = "start" PROVE FALSE
          <5>1. ops[s].requests \notin Resuming
            BY <4>1, <1>3, ResumingFacts DEF Top
          <5>2. ops[s].requests \in {<<"state">>, <<"again">>, <<"cells">>, <<"full">>}
            BY <4>1, <5>1, <1>3 DEF Chains, WriteKinds
          <5> QED BY <4>1, <5>2, Literals DEF Top
        <4> QED BY <1>3, <1>4, <4>1 DEF Requests, WriteKinds
      <3> QED BY <3>1, <3>2
    <2>4. Top(ops[s]) \in {"pause", "resume"} => Resumes(s)
      BY <1>1, <1>3, <2>3, ResumingFacts DEF Resumes, IsWrite, Top
    <2>5. Top(ops[s]) \in {"state", "again", "full", "cells"} => server'.running = server.running
      BY DEF Serves, Reads
    <2>6. CASE meant
      <3>1. server.running => server'.running \/ WillResume(s)'
        <4>1. Top(ops[s]) = "pause" => WillResume(s)'
          BY <1>1, <1>2, <2>4 DEF WillResume
        <4>2. Top(ops[s]) = "resume" => server'.running
          BY DEF Serves
        <4> QED BY <2>3, <2>5, <4>1, <4>2
      <3>2. WillResume(s) => server'.running \/ WillResume(s)'
        BY <1>1, <1>2 DEF WillResume, Serves
      <3> QED BY <1>1, <1>2, <2>2, <2>6, <3>1, <3>2 DEF Settled
    <2>7. CASE ~meant
      <3>1. ~server.running /\ \A u \in Slots : ~Resumes(u)'
        BY <1>2, <2>2, <2>7, NotRunning DEF Settled
      <3>2. ~server'.running
        BY <1>2, <2>3, <2>4, <2>5, <3>1
      <3>3. ASSUME NEW x \in Snapshots, Known(x)', x.running PROVE Overruled(x)'
        <4>1. Known(x)
          BY <3>2, <3>3, KnownStep
        <4>2. Overruled(x)
          BY <2>2, <2>7, <3>3, <4>1 DEF Settled
        <4> QED BY <1>1, <1>2, <4>2 DEF Overruled
      <3> QED BY <1>1, <2>7, <3>1, <3>3 DEF Settled
    <2> QED BY <2>6, <2>7
  <1> QED BY <1>6, <1>7

LEMMA RefetchSettled ==
  ASSUME Typed, Running, Shapes, NEW s \in Slots, NEW r \in Operations, Refetches(s, r),
         ~crossed', ~failed', ~Undecided'
  PROVE  Settled'
  <1>1. /\ ops'[s] = r /\ r # Nothing /\ ops[s] # Nothing /\ Top(ops[s]) = "cells" /\ Top(r) = "full"
        /\ r.kind = ops[s].kind /\ r.requests = <<"full">> \o Tail(ops[s].requests) /\ Sent(s)'
        /\ \A u \in Slots : u # s => ops'[u] = ops[u]
        /\ UNCHANGED <<server, cache, shown, failed, crossed, meant>> /\ ~crossed /\ ~failed
    BY DEF Refetches, Begun, Sets, Sent
  <1>2. \A u \in Slots : u # s => (Decides(u)' <=> Decides(u)) /\ (Sent(u)' <=> Sent(u)) /\ AnswerOf(u)' = AnswerOf(u)
                                  /\ (Resumes(u)' <=> Resumes(u)) /\ (WillResume(u)' <=> WillResume(u))
    BY <1>1 DEF Decides, Control, Cmd, Sent, AnswerOf, Resumes, IsWrite, WillResume
  <1>3. ~Decides(s) /\ ~Decides(s)'
    BY <1>1 DEF Decides
  <1>4. Resumes(s)' <=> Resumes(s)
    <2>1. CASE ops[s].kind \in WriteKinds
      <3>1. <<"full">> \o Tail(ops[s].requests) \in Resuming <=> ops[s].requests \in Resuming
        BY <1>1, <2>1, OpTyped, ResumingFacts DEF Top
      <3> QED BY <1>1, <3>1 DEF Resumes, IsWrite
    <2>2. CASE ops[s].kind \notin WriteKinds
      BY <1>1, <2>2 DEF Resumes, IsWrite
    <2> QED BY <2>1, <2>2
  <1>5. WillResume(s) => WillResume(s)'
    BY <1>1, <1>4 DEF WillResume
  <1>6. Settled
    BY <1>1, <1>2, <1>3 DEF Running, Undecided, Settled
  <1>7. \A x \in Snapshots : Overruled(x) => Overruled(x)'
    BY <1>1, <1>2, <1>3 DEF Overruled
  <1>8. \A x \in Snapshots : Known(x)' => Known(x)
    BY <1>1, KnownStep DEF Known
  <1>9. \A u \in Slots : (Resumes(u)' => Resumes(u)) /\ (WillResume(u) => WillResume(u)')
    BY <1>2, <1>4, <1>5
  <1> QED BY <1>1, <1>6, <1>7, <1>8, <1>9 DEF Settled

LEMMA ReceiveSettled ==
  ASSUME Typed, Typed', Shows, Running, Shapes,
         NEW s \in Slots, NEW r \in Operations \cup {Nothing}, Receives(s, r),
         ~crossed', ~failed', ~Undecided'
  PROVE  Settled'
  <1>1. /\ ops'[s] = r /\ ops[s] # Nothing /\ ~Sent(s) /\ (r # Nothing => r.phase = "sent" /\ r.kind = ops[s].kind)
        /\ \A u \in Slots : u # s => ops'[u] = ops[u]
        /\ UNCHANGED <<server, failed, crossed, meant>> /\ ~crossed /\ ~failed
    BY DEF Receives, Begun, Sets, Sent
  <1>2. \A u \in Slots : u # s => (Decides(u)' <=> Decides(u)) /\ (Sent(u)' <=> Sent(u)) /\ AnswerOf(u)' = AnswerOf(u)
                                  /\ (Resumes(u)' <=> Resumes(u)) /\ (WillResume(u)' <=> WillResume(u))
    BY <1>1 DEF Decides, Control, Cmd, Sent, AnswerOf, Resumes, IsWrite, WillResume
  <1>3. Settled
    BY <1>1, <1>2 DEF Running, Undecided, Settled
  <1>4. ops[s].kind \in WriteKinds =>
          /\ ops[s].requests \in Chains(ops[s].kind)
          /\ IF Tail(ops[s].requests) = <<>> THEN r = Nothing
             ELSE r # Nothing /\ r.requests = Tail(ops[s].requests)
    <2> SUFFICES ASSUME ops[s].kind \in WriteKinds
                 PROVE  /\ ops[s].requests \in Chains(ops[s].kind)
                        /\ IF Tail(ops[s].requests) = <<>> THEN r = Nothing
                           ELSE r # Nothing /\ r.requests = Tail(ops[s].requests)
      OBVIOUS
    <2>1. Top(ops[s]) \notin {"state", "again"}
      BY <1>1 DEF Shows, Cmd, WriteKinds
    <2> QED BY <1>1, <2>1, OpTyped DEF Receives
  <1>5. Resumes(s)' => Resumes(s)
    BY <1>1, <1>4, ResumingFacts DEF Resumes, IsWrite
  <1>6. WillResume(s) => WillResume(s)'
    <2> SUFFICES ASSUME WillResume(s) PROVE WillResume(s)' OBVIOUS
    <2>1. ops[s].kind \in WriteKinds /\ ops[s].requests \in Resuming /\ Head(ops[s].requests) # "resume"
      BY <1>1 DEF WillResume, Resumes, IsWrite, Top
    <2>2. Tail(ops[s].requests) # <<>> /\ Tail(ops[s].requests) \in Resuming
      BY <1>4, <2>1, ResumingFacts
    <2> QED BY <1>1, <1>4, <2>1, <2>2 DEF WillResume, Resumes, IsWrite, Sent
  <1>7. ASSUME NEW x \in Snapshots, Overruled(x) PROVE Overruled(x)'
    <2>1. /\ cache' \in Snapshots /\ cache' # Nothing /\ AnswerOf(s).revision <= cache'.revision
          /\ cache # Nothing => cache.revision <= cache'.revision
      BY PaneAssumption DEF Receives
    <2>2. /\ x.revision \in Nat /\ AnswerOf(s).revision \in Nat /\ cache'.revision \in Nat
          /\ cache # Nothing => cache.revision \in Nat
      BY <1>1, <2>1, OpTyped DEF Typed, TypeOK, Snapshots
    <2> QED BY <1>2, <1>7, <2>1, <2>2 DEF Overruled
  <1>8. \A x \in Snapshots : Known(x)' => Known(x)
    BY <1>1, KnownStep DEF Known
  <1>9. \A u \in Slots : (Resumes(u)' => Resumes(u)) /\ (WillResume(u) => WillResume(u)')
    BY <1>2, <1>5, <1>6
  <1> QED BY <1>1, <1>3, <1>7, <1>8, <1>9 DEF Settled

LEMMA StepRunning ==
  Typed /\ Typed' /\ Distinct /\ Distinct' /\ Alone /\ Shows /\ Intended /\ Running /\ Shapes => Running'
  <1> SUFFICES ASSUME Typed, Typed', Distinct, Distinct', Alone, Shows, Intended, Running, Shapes,
                      ~crossed', ~failed', ~Undecided'
               PROVE  Settled'
    BY DEF Running, Settled
  <1>1. ASSUME NEW s \in Slots, Ends(s) PROVE FALSE
    BY <1>1 DEF Ends
  <1>2. CASE Ticks
    <2>1. ~crossed /\ ~failed /\ ~Undecided
      BY <1>2 DEF Ticks, Undecided, Decides, Control, Cmd, Sent
    <2>2. Settled
      BY <2>1 DEF Running, Settled
    <2>3. meant
      BY <1>2, <2>2, NotRunning DEF Ticks
    <2> QED BY <1>2, <2>3 DEF Ticks, Settled
  <1>3. CASE Rests
    BY <1>3 DEF Rests, Running, Settled, Undecided, Decides, Control, Cmd, Sent, AnswerOf, Resumes, IsWrite,
                WillResume, Known, InAnswer, Overruled
  <1> QED BY <1>1, <1>2, <1>3, LaunchSettled, ServeSettled, RefetchSettled, ReceiveSettled DEF Shapes

(***************************************************************************)
(* Whether what the pane knows is the board.                               *)
(***************************************************************************)

LEMMA StepFresh ==
  Typed /\ Typed' /\ Distinct /\ Distinct' /\ Alone /\ Shows /\ Fresh /\ Shapes => Fresh'
  <1> DEFINE Asking == \E s \in Slots : Cmd(s) /\ Top(ops[s]) = "full" /\ Sent(s)
             Unshown == shown = Nothing /\ \A s \in Slots : Cmd(s) => Sent(s)
             Current == \A x \in Snapshots : Known(x) /\ x.cells # server.cells => Overtaken(x)
  <1> SUFFICES ASSUME Typed, Typed', Distinct, Distinct', Alone, Shows, Fresh, Shapes, apart', ~strayed'
               PROVE  Asking' \/ Unshown' \/ Current'
    BY DEF Fresh
  <1>0. /\ server' \in Snapshots /\ Known(server)'
        /\ \A x \in Snapshots : x.revision \in Nat
        /\ \A x \in Snapshots : Known(x)' /\ x # server' => x.revision < server'.revision
    <2>1. server' \in Snapshots /\ Known(server)' /\ \A x \in Snapshots : x.revision \in Nat
      BY DEF Typed, TypeOK, Known, Snapshots
    <2>2. \A x \in Snapshots : (Known(x)' => x.revision <= server'.revision)
                               /\ (Known(x)' /\ x # server' => x.revision # server'.revision)
      BY <2>1 DEF Distinct
    <2> QED BY <2>1, <2>2
  <1>1. ASSUME apart, ~strayed PROVE Asking \/ Unshown \/ Current
    BY <1>1 DEF Fresh
  <1>2. ASSUME apart PROVE ~crossed /\ \A t, u \in Slots : Cmd(t) /\ Cmd(u) => t = u
    BY <1>2 DEF Alone
  <1>3. ASSUME NEW s \in Slots, NEW op \in Operations, Launches(s, op) PROVE Asking' \/ Unshown' \/ Current'
    <2>1. /\ ops'[s] = op /\ op # Nothing /\ ops[s] = Nothing /\ op.phase = "sent"
          /\ \A u \in Slots : u # s => ops'[u] = ops[u]
          /\ UNCHANGED <<server, cache, shown, strayed>> /\ apart /\ ~strayed
      BY <1>3 DEF Launches, Sets, Begun
    <2>2. CASE Asking
      BY <2>1, <2>2 DEF Cmd, Sent
    <2>3. CASE Unshown
      BY <2>1, <2>3 DEF Cmd, Sent
    <2>4. CASE Current
      <3>1. \A x \in Snapshots : Overtaken(x) => Overtaken(x)'
        BY <2>1 DEF Overtaken, Cmd, Bringing, Sent, AnswerOf
      <3>2. \A x \in Snapshots : Known(x)' => Known(x)
        BY <2>1, KnownStep DEF Known
      <3> QED BY <2>1, <2>4, <3>1, <3>2
    <2> QED BY <1>1, <2>1, <2>2, <2>3, <2>4
  <1>4. ASSUME NEW s \in Slots, NEW r \in Operations, Serves(s, r) PROVE Asking' \/ Unshown' \/ Current'
    <2>1. /\ ops'[s] = r /\ r # Nothing /\ ops[s] # Nothing /\ Sent(s) /\ ~Sent(s)' /\ AnswerOf(s)' = server'
          /\ r.kind = ops[s].kind /\ Top(r) = Top(ops[s])
          /\ \A u \in Slots : u # s => ops'[u] = ops[u]
          /\ UNCHANGED <<cache, shown, apart>> /\ apart /\ ~strayed
      BY <1>4 DEF Serves, Sets, Sent, AnswerOf, Top
    <2>2. CASE Cmd(s) /\ (shown = Nothing \/ Top(ops[s]) \in {"cells", "full"})
      <3>1. Cmd(s)' /\ Bringing(s)'
        BY <2>1, <2>2 DEF Cmd, Bringing
      <3> QED BY <1>0, <2>1, <3>1 DEF Overtaken
    <2>3. ASSUME server'.cells = server.cells, Current PROVE Current'
      <3>1. \A x \in Snapshots : Overtaken(x) => Overtaken(x)'
        BY <2>1 DEF Overtaken, Cmd, Bringing, Sent, AnswerOf
      <3> QED BY <2>3, <3>1, KnownStep
    <2>4. CASE Cmd(s) /\ shown # Nothing /\ Top(ops[s]) \notin {"cells", "full"}
      <3>1. server'.cells = server.cells
        <4>1. Top(ops[s]) # "reset"
          <5> SUFFICES ASSUME Top(ops[s]) = "reset" PROVE FALSE OBVIOUS
          <5>1. ops[s].kind = "seed"
            BY <2>1, OpTyped, ChainFacts DEF Top
          <5> QED BY <1>2, <2>1, <2>4, <5>1 DEF Alone
        <4>2. Top(ops[s]) = "step" => ops[s].kind = "step"
          BY <2>1, OpTyped, ChainFacts DEF Top
        <4>3. Top(ops[s]) \in Requests
          BY <2>1, OpTyped
        <4> QED BY <1>4, <2>4, <4>1, <4>2, <4>3 DEF Serves, Requests, Reads
      <3>2. ~Asking /\ ~Unshown
        BY <1>2, <2>1, <2>4
      <3> QED BY <1>1, <2>1, <2>3, <3>1, <3>2
    <2>5. CASE ~Cmd(s)
      <3>1. ops[s].kind = "poll" /\ Top(ops[s]) = "state"
        BY <2>1, <2>5, OpTyped, ChainFacts DEF Cmd, Top
      <3>2. server' = server /\ shown # Nothing
        BY <1>4, <2>1, <3>1 DEF Serves, Reads, Shows
      <3>3. Asking => Asking'
        BY <2>1, <2>5 DEF Cmd, Sent
      <3> QED BY <1>1, <2>1, <2>3, <3>2, <3>3
    <2> QED BY <2>2, <2>4, <2>5
  <1>5. ASSUME NEW s \in Slots, NEW r \in Operations, Refetches(s, r) PROVE Asking' \/ Unshown' \/ Current'
    <2>1. ops[s].kind # "poll"
      BY <1>5, OpTyped, ChainFacts DEF Refetches, Top
    <2>2. Cmd(s)' /\ Top(ops'[s]) = "full" /\ Sent(s)'
      BY <1>5, <2>1 DEF Refetches, Begun, Sets, Cmd, Sent
    <2> QED BY <2>2
  <1>6. ASSUME NEW s \in Slots, NEW r \in Operations \cup {Nothing}, Receives(s, r)
        PROVE  Asking' \/ Unshown' \/ Current'
    <2>1. /\ ops'[s] = r /\ ops[s] # Nothing /\ ~Sent(s)
          /\ \A u \in Slots : u # s => ops'[u] = ops[u]
          /\ UNCHANGED <<server, apart, strayed>> /\ apart /\ ~strayed
          /\ cache' \in Snapshots /\ cache' # Nothing /\ AnswerOf(s).revision <= cache'.revision
          /\ cache # Nothing => cache.revision <= cache'.revision
      BY <1>6, PaneAssumption DEF Receives, Sets
    <2>2. /\ AnswerOf(s).revision \in Nat /\ cache'.revision \in Nat
          /\ cache # Nothing => cache.revision \in Nat
      BY <2>1, OpTyped DEF Typed, TypeOK, Snapshots
    <2>3. \A x \in Snapshots : Known(x)' => Known(x)
      BY <2>1, KnownStep DEF Known
    <2>4. CASE Cmd(s)
      <3>1. Current
        BY <1>1, <1>2, <2>1, <2>4
      <3>2. \A x \in Snapshots : Overtaken(x) => x.revision < cache'.revision
        BY <1>0, <1>2, <2>1, <2>2, <2>4 DEF Overtaken
      <3> QED BY <2>1, <2>3, <3>1, <3>2 DEF Overtaken
    <2>5. CASE ~Cmd(s)
      <3>1. ops[s].kind = "poll" /\ shown # Nothing /\ r = Nothing
        <4>1. ops[s].kind = "poll" /\ Top(ops[s]) = "state"
          BY <2>1, <2>5, OpTyped, ChainFacts DEF Cmd, Top
        <4> QED BY <1>6, <2>1, <4>1 DEF Shows, Receives
      <3>2. Asking => Asking'
        BY <2>1, <2>5 DEF Cmd, Sent
      <3>3. \A x \in Snapshots : Overtaken(x) => Overtaken(x)'
        BY <1>0, <2>1, <2>2, <2>5, <3>1 DEF Overtaken, Cmd, Bringing, Sent, AnswerOf
      <3> QED BY <1>1, <2>1, <2>3, <3>1, <3>2, <3>3
    <2> QED BY <2>4, <2>5
  <1>7. ASSUME NEW s \in Slots, Ends(s) PROVE Asking' \/ Unshown' \/ Current'
    <2>1. /\ ops'[s] = Nothing /\ ops[s] # Nothing
          /\ \A u \in Slots : u # s => ops'[u] = ops[u]
          /\ UNCHANGED <<server, cache, shown, apart>> /\ apart /\ ~strayed /\ ~Overwrites(s)
      BY <1>7 DEF Ends, Sets
    <2>2. \A x \in Snapshots : Known(x)' => Known(x)
      BY <2>1, KnownStep DEF Known
    <2>3. CASE Cmd(s) /\ shown = Nothing
      BY <1>2, <2>1, <2>3 DEF Cmd
    <2>4. CASE Cmd(s) /\ shown # Nothing
      <3>1. ops[s].kind # "seed"
        BY <1>2, <2>1, <2>4 DEF Alone
      <3>2. Top(ops[s]) \in {"cells", "full"} => IsWrite(s)
        BY <2>1, <3>1, OpTyped, ChainFacts DEF Top, IsWrite, WriteKinds
      <3>3. Top(ops[s]) # "full" /\ ~Bringing(s)
        BY <2>1, <2>4, <3>2 DEF Overwrites, Bringing
      <3>4. Current
        BY <1>1, <1>2, <2>1, <2>4, <3>3
      <3>5. \A x \in Snapshots : Overtaken(x) => Overtaken(x)'
        BY <1>2, <2>1, <2>4, <3>3 DEF Overtaken
      <3> QED BY <2>1, <2>2, <3>4, <3>5
    <2>5. CASE ~Cmd(s)
      <3>1. shown # Nothing
        BY <2>1, <2>5 DEF Shows, Cmd
      <3>2. Asking => Asking'
        BY <2>1, <2>5 DEF Cmd, Sent
      <3>3. \A x \in Snapshots : Overtaken(x) => Overtaken(x)'
        BY <2>1, <2>5 DEF Overtaken, Cmd, Bringing, Sent, AnswerOf
      <3> QED BY <1>1, <2>1, <2>2, <3>1, <3>2, <3>3
    <2> QED BY <2>3, <2>4, <2>5
  <1>8. CASE Ticks
    <2>1. /\ UNCHANGED <<ops, cache, shown>> /\ apart /\ ~strayed /\ server'.cells = server.cells
      BY <1>8 DEF Ticks
    <2>2. (Asking => Asking') /\ (Unshown => Unshown')
      BY <2>1 DEF Cmd, Sent
    <2>3. Current => Current'
      <3>1. \A x \in Snapshots : Overtaken(x) => Overtaken(x)'
        BY <2>1 DEF Overtaken, Cmd, Bringing, Sent, AnswerOf
      <3> QED BY <2>1, <3>1, KnownStep
    <2> QED BY <1>1, <2>1, <2>2, <2>3
  <1>9. CASE Rests
    <2>1. UNCHANGED <<server, ops, cache, shown>> /\ apart /\ ~strayed
      BY <1>9 DEF Rests
    <2>2. (Asking => Asking') /\ (Unshown => Unshown') /\ (Current => Current')
      BY <2>1 DEF Cmd, Sent, Known, InAnswer, AnswerOf, Overtaken, Bringing
    <2> QED BY <1>1, <2>1, <2>2
  <1> QED BY <1>3, <1>4, <1>5, <1>6, <1>7, <1>8, <1>9 DEF Shapes

\* Of what is known nothing is newer than x, no command brings something newer,
\* and none is asking for the whole state: then x has the board's cells.
LEMMA FreshBoard ==
  ASSUME Typed, Fresh, apart, ~strayed, NEW x \in Snapshots, Known(x),
         cache # Nothing => cache.revision <= x.revision,
         \A s \in Slots : Cmd(s) => ~Sent(s) /\ AnswerOf(s).revision <= x.revision,
         shown # Nothing \/ \E s \in Slots : Cmd(s)
  PROVE  x.cells = server.cells
  <1> SUFFICES ASSUME x.cells # server.cells PROVE FALSE OBVIOUS
  <1>1. Overtaken(x)
    BY DEF Fresh
  <1>2. /\ x.revision \in Nat /\ (cache # Nothing => cache.revision \in Nat)
        /\ \A s \in Slots : Cmd(s) => AnswerOf(s).revision \in Nat
    BY OpTyped DEF Typed, TypeOK, Snapshots, Cmd
  <1> QED BY <1>1, <1>2 DEF Overtaken

(***************************************************************************)
(* Whether the stacks fit the board.                                       *)
(***************************************************************************)

\* What a write may have at the head of its chain.
LEMMA WriteTop ==
  ASSUME NEW kind \in WriteKinds, NEW c \in Chains(kind)
  PROVE  Head(c) \in {"state", "again", "full", "cells", "pause", "resume"}
  <1>1. c \in {<<"pause", "cells", "resume">>, <<"cells", "resume">>, <<"full", "resume">>,
               <<"resume">>, <<"cells">>, <<"full">>, <<"state">>, <<"again">>}
    BY DEF Chains, Resuming, WriteKinds
  <1> QED BY <1>1, Longest, Literals

\* A stroke on a board that the stacks fit is on the undo stack, and can be
\* taken off it again.
LEMMA PushFits ==
  ASSUME NEW undos \in Seq(Entries), NEW redos \in Seq(Entries), NEW painted \in Paints,
         NEW snapshot \in Snapshots, Fit(undos, redos, snapshot.cells),
         NEW op, op.kind = "commit", op.entry = Diffs(painted, snapshot)
  PROVE  FitsLater(op, Append(undos, op.entry), <<>>, snapshot.cells)
  <1> DEFINE e == op.entry
             board == snapshot.cells
             onto == Overlaid(e.after, board)
  <1>1. /\ e \in Entries /\ board \in Boards /\ onto \in Boards
        /\ Overlaid(e.after, onto) = onto /\ Overlaid(e.before, onto) = board
    BY DiffsFit DEF Snapshots
  <1>2. Leads(undos, board, "after", "before")
    BY DEF Fit
  <1>3. Leads(Append(undos, e), onto, "after", "before")
    BY <1>1, <1>2, LeadsPush
  <1>4. Leads(<<>>, onto, "before", "after") /\ Leads(<<>>, board, "before", "after")
    BY <1>1, LeadsEmpty
  <1>5. Append(undos, e) # <<>> /\ Popped(Append(undos, e)) = undos
    BY <1>1, StackTyped
  <1>6. Updates(op) = e.after
    BY DEF Updates
  <1> QED BY <1>2, <1>3, <1>4, <1>5, <1>6 DEF Fit, FitsLater

LEMMA UndoFits ==
  ASSUME NEW undos \in Seq(Entries), NEW redos \in Seq(Entries), undos # <<>>,
         NEW board \in Boards, Fit(undos, redos, board),
         NEW op, op.kind = "undo", op.entry = Newest(undos)
  PROVE  FitsLater(op, Popped(undos), Append(redos, op.entry), board)
  <1> DEFINE e == op.entry
             onto == Overlaid(e.before, board)
  <1>1. Leads(undos, board, "after", "before") /\ Leads(redos, board, "before", "after")
    BY DEF Fit
  <1>2. /\ e \in Entries /\ Overlaid(e.after, board) = board /\ onto \in Boards
        /\ Leads(Popped(undos), onto, "after", "before")
        /\ Append(Popped(undos), e) = undos
    BY <1>1, LeadsPop
  <1>3. Overlaid(e.before, onto) = onto /\ Overlaid(e.after, onto) = board
    BY <1>2, Reversal
  <1>4. Leads(Append(redos, e), onto, "before", "after")
    BY <1>1, <1>2, <1>3, LeadsPush
  <1>5. Append(redos, e) # <<>> /\ Popped(Append(redos, e)) = redos
    BY <1>2, StackTyped
  <1>6. Updates(op) = e.before
    BY DEF Updates
  <1> QED BY <1>1, <1>2, <1>4, <1>5, <1>6 DEF Fit, FitsLater

LEMMA RedoFits ==
  ASSUME NEW undos \in Seq(Entries), NEW redos \in Seq(Entries), redos # <<>>,
         NEW board \in Boards, Fit(undos, redos, board),
         NEW op, op.kind = "redo", op.entry = Newest(redos)
  PROVE  FitsLater(op, Append(undos, op.entry), Popped(redos), board)
  <1> DEFINE e == op.entry
             onto == Overlaid(e.after, board)
  <1>1. Leads(undos, board, "after", "before") /\ Leads(redos, board, "before", "after")
    BY DEF Fit
  <1>2. /\ e \in Entries /\ Overlaid(e.before, board) = board /\ onto \in Boards
        /\ Leads(Popped(redos), onto, "before", "after")
        /\ Append(Popped(redos), e) = redos
    BY <1>1, LeadsPop
  <1>3. Overlaid(e.after, onto) = onto /\ Overlaid(e.before, onto) = board
    BY <1>2, Reversal
  <1>4. Leads(Append(undos, e), onto, "after", "before")
    BY <1>1, <1>2, <1>3, LeadsPush
  <1>5. Append(undos, e) # <<>> /\ Popped(Append(undos, e)) = undos
    BY <1>2, StackTyped
  <1>6. Updates(op) = e.after
    BY DEF Updates
  <1> QED BY <1>1, <1>2, <1>4, <1>5, <1>6 DEF Fit, FitsLater

\* The stacks fit the board, now or once the write under way is on it.
InStep ==
    /\ (\A s \in Slots : ~Moving(s)) => Fit(undo, redo, server.cells)
    /\ \A s \in Slots : Moving(s) => FitsLater(ops[s], undo, redo, server.cells)

LEMMA MovingFacts ==
  ASSUME NEW s \in Slots
  PROVE  /\ Moving(s) => Cmd(s) /\ IsWrite(s)
         /\ Moving(s)' => Cmd(s)' /\ IsWrite(s)'
  BY DEF Moving, IsWrite, Cmd, WriteKinds

\* A step that leaves stacks, cells and the write under way alone
LEMMA Undisturbed ==
  ASSUME InStep, UNCHANGED <<undo, redo>>, server'.cells = server.cells,
         \A t \in Slots : Moving(t)' <=> Moving(t),
         \A t \in Slots : Moving(t) => ops'[t].kind = ops[t].kind /\ ops'[t].entry = ops[t].entry
  PROVE  InStep'
  <1>1. ASSUME NEW t \in Slots, Moving(t)'
        PROVE  FitsLater(ops'[t], undo', redo', server'.cells)
    <2>1. FitsLater(ops[t], undo, redo, server.cells) /\ Updates(ops'[t]) = Updates(ops[t])
      BY <1>1 DEF InStep, Updates
    <2> QED BY <1>1, <2>1 DEF FitsLater
  <1> QED BY <1>1 DEF InStep

\* Of a step on a slot whose command was alone, only that slot counts.
LEMMA OneMoves ==
  ASSUME NEW s \in Slots, NEW r, Sets(s, r), \A t \in Slots : t # s => ~Cmd(t)
  PROVE  /\ \A t \in Slots : t # s => ~Moving(t) /\ ~Moving(t)'
         /\ r = Nothing => ~Moving(s)'
         /\ r # Nothing => (Moving(s)' <=>
               /\ r.kind \in WriteKinds
               /\ Top(r) \in {"pause", "again"} \/ (Top(r) = "cells" /\ r.phase = "sent"))
  <1>1. ops'[s] = r /\ \A t \in Slots : t # s => ops'[t] = ops[t]
    BY DEF Sets
  <1>2. ASSUME NEW t \in Slots, t # s PROVE ~Moving(t) /\ ~Moving(t)'
    <2>1. ~Cmd(t) /\ ~Cmd(t)'
      BY <1>1, <1>2 DEF Cmd
    <2> QED BY <2>1, MovingFacts
  <1> QED BY <1>1, <1>2 DEF Moving, IsWrite, Sent

LEMMA LaunchFits ==
  ASSUME Typed, Typed', Alone, Shows, Fresh, InStep, apart, ~strayed, apart',
         NEW s \in Slots, NEW op \in Operations, Launches(s, op)
  PROVE  InStep'
  <1>1. /\ ops'[s] = op /\ op # Nothing /\ ops[s] = Nothing /\ op.phase = "sent" /\ Begun(op)
        /\ \A u \in Slots : u # s => ops'[u] = ops[u]
        /\ server' = server /\ Sets(s, op) /\ ~disposed /\ op.kind # "seed" /\ op.kind \in Kinds
    BY DEF Launches, Sets, Begun, Operations, Kinds
  <1>2. CASE op.kind = "poll"
    <2>1. UNCHANGED <<undo, redo>>
      BY <1>2 DEF Launches, stacks
    <2>2. \A t \in Slots : (Moving(t)' <=> Moving(t)) /\ (Moving(t) => ops'[t] = ops[t])
      BY <1>1, <1>2 DEF Moving, IsWrite, Sent, WriteKinds
    <2> QED BY <1>1, <2>1, <2>2, Undisturbed
  <1>3. CASE op.kind # "poll"
    <2>1. \A t \in Slots : ~Cmd(t)
      BY <1>3 DEF Launches
    <2>2. /\ Fit(undo, redo, server.cells)
          /\ \A t \in Slots : t # s => ~Moving(t)'
          /\ Moving(s)' <=> /\ op.kind \in WriteKinds
                            /\ Top(op) \in {"pause", "again", "cells"}
      BY <1>1, <2>1, MovingFacts, OneMoves DEF InStep
    <2>3. undo \in Seq(Entries) /\ redo \in Seq(Entries) /\ server.cells \in Boards
      BY DEF Typed, TypeOK, Snapshots
    <2>4. CASE op.kind \in {"step", "toggle"}
      <3>1. UNCHANGED <<undo, redo>> /\ ~Moving(s)'
        BY <2>2, <2>4 DEF Launches, stacks, WriteKinds
      <3> QED BY <1>1, <2>2, <3>1 DEF InStep
    <2>5. CASE op.kind \in WriteKinds /\ shown = Nothing
      <3>1. op.kind = "commit" /\ op.requests = <<"state">>
        BY <2>5 DEF Launches
      <3>2. UNCHANGED <<undo, redo>> /\ ~Moving(s)'
        BY <2>2, <2>5, <3>1, Literals DEF Launches, stacks, Top
      <3> QED BY <1>1, <2>2, <3>2 DEF InStep
    <2>6. CASE op.kind \in WriteKinds /\ shown # Nothing
      <3>1. shown \in Snapshots /\ shown.cells \in Boards
        BY <2>6, ShownTyped
      <3>2. Moving(s)'
        <4>1. op.requests = Writing(shown)
          BY <2>6 DEF Launches
        <4> QED BY <2>2, <2>6, <3>1, <4>1, WritingChain DEF Top
      <3>3. SUFFICES FitsLater(op, undo', redo', server.cells)
        BY <1>1, <2>2, <3>2 DEF InStep
      <3>4. CASE op.kind = "commit"
        <4>1. shown = cache /\ shown.revision \in Nat /\ Known(shown)
          BY <1>1, <2>6, <3>1 DEF Shows, Alone, Known, Snapshots
        <4>2. shown.cells = server.cells
          BY <2>1, <2>6, <3>1, <4>1, FreshBoard
        <4>3. undo' = Append(undo, op.entry) /\ redo' = <<>>
          BY <2>6, <3>4 DEF Launches
        <4>4. PICK painted \in Paints : op.entry = Diffs(painted, shown)
          BY <2>6, <3>4 DEF Launches
        <4> QED BY <2>2, <2>3, <3>1, <3>4, <4>2, <4>3, <4>4, PushFits
      <3>5. CASE op.kind = "undo"
        BY <2>2, <2>3, <3>5, UndoFits DEF Launches
      <3>6. CASE op.kind = "redo"
        BY <2>2, <2>3, <3>6, RedoFits DEF Launches
      <3> QED BY <2>6, <3>4, <3>5, <3>6 DEF WriteKinds
    <2> QED BY <1>1, <1>3, <2>4, <2>5, <2>6 DEF Kinds, WriteKinds
  <1> QED BY <1>2, <1>3

LEMMA ServeFits ==
  ASSUME Typed, Typed', Alone, Shows, InStep, apart, ~strayed, ~strayed',
         NEW s \in Slots, NEW r \in Operations, Serves(s, r)
  PROVE  InStep'
  <1>1. /\ ops'[s] = r /\ r # Nothing /\ ops[s] # Nothing /\ Sent(s) /\ ~Sent(s)' /\ Sets(s, r)
        /\ r.kind = ops[s].kind /\ r.requests = ops[s].requests /\ r.entry = ops[s].entry
        /\ Top(r) = Top(ops[s]) /\ r.phase # "sent"
        /\ \A u \in Slots : u # s => ops'[u] = ops[u]
        /\ UNCHANGED <<undo, redo>>
    BY DEF Serves, Sets, Sent, Top
  <1>2. /\ ops[s].kind \in Kinds /\ Top(ops[s]) \in Requests /\ ops[s].requests \in Chains(ops[s].kind)
    BY <1>1, OpTyped
  <1>3. /\ Top(ops[s]) = "reset" => ops[s].kind = "seed"
        /\ Top(ops[s]) = "step" <=> ops[s].kind = "step"
        /\ Top(ops[s]) = "cells" => ops[s].kind \in WriteKinds \cup {"seed"}
        /\ ops[s].kind = "poll" => Top(ops[s]) = "state"
    BY <1>2, ChainFacts DEF Top, WriteKinds
  <1>4. CASE Top(ops[s]) \notin {"cells", "reset"}
    <2>1. server'.cells = server.cells
      BY <1>2, <1>3, <1>4 DEF Serves, Requests, Reads
    <2>2. \A t \in Slots : (Moving(t)' <=> Moving(t))
                           /\ (Moving(t) => ops'[t].kind = ops[t].kind /\ ops'[t].entry = ops[t].entry)
      BY <1>1, <1>4 DEF Moving, IsWrite, Sent
    <2> QED BY <1>1, <2>1, <2>2, Undisturbed
  <1>5. CASE Top(ops[s]) \in {"cells", "reset"}
    <2>1. Cmd(s)
      BY <1>1, <1>3, <1>5 DEF Cmd
    <2>2. \A t \in Slots : t # s => ~Cmd(t)
      BY <2>1 DEF Alone
    <2>3. \A t \in Slots : ~Moving(t)'
      <3>1. Top(r) \notin {"pause", "again"} /\ r.phase # "sent"
        BY <1>1, <1>5
      <3> QED BY <1>1, <2>2, <3>1, OneMoves
    <2>4. CASE ops[s].kind = "seed"
      <3>1. undo = <<>> /\ redo = <<>>
        BY <1>1, <2>4 DEF Alone
      <3>2. server'.cells \in Boards
        BY DEF Serves, Snapshots
      <3> QED BY <1>1, <2>3, <3>1, <3>2, LeadsEmpty DEF InStep, Fit
    <2>5. CASE ops[s].kind \in WriteKinds
      <3>1. Top(ops[s]) = "cells"
        BY <1>3, <1>5, <2>5 DEF WriteKinds
      <3>2. Moving(s)
        BY <1>1, <2>5, <3>1 DEF Moving, IsWrite
      <3>3. FitsLater(ops[s], undo, redo, server.cells)
        BY <3>2 DEF InStep
      <3>4. server'.cells = Overlaid(Updates(ops[s]), server.cells)
        BY <3>1 DEF Serves
      <3>5. Fit(undo', redo', server'.cells)
        BY <1>1, <3>3, <3>4 DEF FitsLater
      <3> QED BY <2>3, <3>5 DEF InStep
    <2> QED BY <1>3, <1>5, <2>4, <2>5
  <1> QED BY <1>4, <1>5

LEMMA RefetchFits ==
  ASSUME Typed, InStep, NEW s \in Slots, NEW r \in Operations, Refetches(s, r)
  PROVE  InStep'
  <1>1. /\ ops'[s] = r /\ ~Sent(s) /\ Top(ops[s]) = "cells" /\ Top(r) = "full"
        /\ \A u \in Slots : u # s => ops'[u] = ops[u]
        /\ UNCHANGED <<undo, redo, server>>
    BY DEF Refetches, Sets
  <1>2. \A t \in Slots : (Moving(t)' <=> Moving(t)) /\ (Moving(t) => ops'[t] = ops[t])
    BY <1>1 DEF Moving, IsWrite, Sent
  <1> QED BY <1>1, <1>2, Undisturbed

LEMMA ReceiveFits ==
  ASSUME Typed, Typed', Alone, Shows, Fresh, InStep, apart, ~strayed,
         NEW s \in Slots, NEW r \in Operations \cup {Nothing}, Receives(s, r)
  PROVE  InStep'
  <1>1. /\ ops'[s] = r /\ ops[s] # Nothing /\ ~Sent(s) /\ Sets(s, r)
        /\ r # Nothing => Begun(r) /\ r.kind = ops[s].kind /\ r.phase = "sent"
        /\ \A u \in Slots : u # s => ops'[u] = ops[u]
        /\ server' = server
    BY DEF Receives, Sets, Begun
  <1>2. /\ ops[s].kind \in Kinds /\ Top(ops[s]) \in Requests /\ ops[s].requests \in Chains(ops[s].kind)
    BY <1>1, OpTyped
  <1>3. /\ Top(ops[s]) = "state" => ops[s].kind \in {"commit", "toggle", "poll"}
        /\ ops[s].kind = "poll" => Top(ops[s]) = "state"
        /\ Top(ops[s]) = "reset" => ops[s].kind = "seed"
    BY <1>2, ChainFacts DEF Top
  <1>4. Top(ops[s]) \notin {"reset", "state"} => UNCHANGED <<undo, redo>>
    BY DEF Receives, stacks
  <1>5. undo \in Seq(Entries) /\ redo \in Seq(Entries) /\ server.cells \in Boards
    BY DEF Typed, TypeOK, Snapshots
  <1>6. CASE ops[s].kind \notin WriteKinds
    <2>1. \A t \in Slots : (Moving(t)' <=> Moving(t)) /\ (Moving(t) => ops'[t] = ops[t])
      BY <1>1, <1>6 DEF Moving, IsWrite, Sent
    <2>2. CASE Top(ops[s]) = "reset"
      <3>1. undo' = <<>> /\ redo' = <<>>
        BY <2>2 DEF Receives
      <3>2. \A t \in Slots : ~Moving(t)
        <4>1. Cmd(s)
          BY <1>1, <1>3, <2>2 DEF Cmd
        <4>2. \A t \in Slots : t # s => ~Cmd(t)
          BY <4>1 DEF Alone
        <4>3. ~Moving(s)
          BY <1>6 DEF Moving, IsWrite
        <4> QED BY <4>2, <4>3, MovingFacts
      <3> QED BY <1>1, <1>5, <2>1, <3>1, <3>2, LeadsEmpty DEF InStep, Fit
    <2>3. CASE Top(ops[s]) # "reset"
      <3>1. UNCHANGED <<undo, redo>>
        BY <1>6, <2>3 DEF Receives, stacks, WriteKinds
      <3> QED BY <1>1, <2>1, <3>1, Undisturbed
    <2> QED BY <2>2, <2>3
  <1>7. CASE ops[s].kind \in WriteKinds
    <2>1. Cmd(s)
      BY <1>1, <1>7 DEF Cmd, WriteKinds
    <2>2. \A t \in Slots : t # s => ~Cmd(t)
      BY <2>1 DEF Alone
    <2>3. /\ \A t \in Slots : t # s => ~Moving(t) /\ ~Moving(t)'
          /\ r = Nothing => ~Moving(s)'
          /\ r # Nothing => (Moving(s)' <=> Top(r) \in {"pause", "again", "cells"})
          /\ Moving(s) <=> Top(ops[s]) \in {"pause", "again"}
      BY <1>1, <1>7, <2>2, OneMoves DEF Moving, IsWrite
    <2>4. Top(ops[s]) \in {"state", "again", "full", "cells", "pause", "resume"}
      BY <1>2, <1>7, WriteTop DEF Top
    <2>5. CASE Top(ops[s]) = "state"
      <3>1. ops[s].kind = "commit" /\ Fit(undo, redo, server.cells)
        BY <1>3, <1>7, <2>3, <2>5 DEF WriteKinds, InStep
      <3>2. CASE r = Nothing
        <4>1. UNCHANGED <<undo, redo>>
          BY <2>5, <3>1, <3>2 DEF Receives, stacks
        <4> QED BY <1>1, <2>3, <3>1, <3>2, <4>1 DEF InStep
      <3>3. CASE r # Nothing
        <4>1. /\ undo' = Append(undo, r.entry) /\ redo' = <<>>
              /\ Top(r) \in {"again", "pause", "cells"}
              /\ \E painted \in Paints : r.entry = Diffs(painted, cache')
          BY <2>5, <3>1, <3>3 DEF Receives
        <4>2. PICK painted \in Paints : r.entry = Diffs(painted, cache')
          BY <4>1
        <4>3. /\ cache' \in Snapshots /\ AnswerOf(s).revision <= cache'.revision
              /\ cache # Nothing => cache.revision <= cache'.revision
              /\ cache' = AnswerOf(s) \/ (cache' = cache /\ cache # Nothing)
          BY DEF Receives
        <4>4. Known(cache')
          BY <1>1, <4>3 DEF Known, InAnswer
        <4>5. \A t \in Slots : Cmd(t) => ~Sent(t) /\ AnswerOf(t).revision <= cache'.revision
          BY <1>1, <2>2, <4>3
        <4>6. cache'.cells = server.cells
          <5> DEFINE x == cache'
          <5>1. /\ x \in Snapshots /\ Known(x) /\ (cache # Nothing => cache.revision <= x.revision)
                /\ \A t \in Slots : Cmd(t) => ~Sent(t) /\ AnswerOf(t).revision <= x.revision
            BY <4>3, <4>4, <4>5
          <5> HIDE DEF x
          <5>2. x.cells = server.cells
            BY <2>1, <5>1, FreshBoard
          <5> QED BY <5>2 DEF x
        <4>7. FitsLater(r, undo', redo', server.cells)
          BY <1>1, <1>5, <3>1, <3>3, <4>1, <4>2, <4>3, <4>6, PushFits
        <4> QED BY <1>1, <2>3, <3>3, <4>1, <4>7 DEF InStep
      <3> QED BY <3>2, <3>3
    <2>6. CASE Top(ops[s]) \in {"again", "pause"}
      <3>1. r # Nothing /\ r.entry = ops[s].entry /\ Top(r) \in {"pause", "cells"}
        <4>1. CASE Top(ops[s]) = "again"
          BY <4>1, <1>7, WritingChain DEF Receives, Top
        <4>2. CASE Top(ops[s]) = "pause"
          <5>1. Tail(ops[s].requests) # <<>> /\ Head(Tail(ops[s].requests)) = "cells"
            BY <1>2, <1>7, <4>2, TailFacts DEF Top
          <5> QED BY <4>2, <5>1 DEF Receives, Top
        <4> QED BY <2>6, <4>1, <4>2
      <3> QED BY <1>1, <1>4, <2>3, <2>6, <3>1, Undisturbed
    <2>7. CASE Top(ops[s]) \in {"full", "cells", "resume"}
      <3>1. r # Nothing => Top(r) = "resume"
        <4>1. Tail(ops[s].requests) # <<>> => Head(Tail(ops[s].requests)) = "resume"
          BY <1>2, <1>7, <2>7, TailFacts DEF Top
        <4> QED BY <2>7, <4>1 DEF Receives, Top
      <3> QED BY <1>1, <1>4, <2>3, <2>7, <3>1, Undisturbed
    <2> QED BY <2>4, <2>5, <2>6, <2>7
  <1> QED BY <1>6, <1>7

LEMMA EndFits ==
  ASSUME Typed, Alone, InStep, apart, ~strayed', NEW s \in Slots, Ends(s)
  PROVE  InStep'
  <1>1. /\ ops'[s] = Nothing /\ ops[s] # Nothing /\ Sets(s, Nothing)
        /\ \A u \in Slots : u # s => ops'[u] = ops[u]
        /\ server' = server /\ ~Overwrites(s)
    BY DEF Ends, Sets
  <1>2. ~Moving(s)'
    BY <1>1 DEF Moving, IsWrite
  <1>3. CASE ops[s].kind \notin WriteKinds \/ (ops[s].kind = "commit" /\ Top(ops[s]) = "state")
    <2>1. UNCHANGED <<undo, redo>>
      BY <1>3 DEF Ends, stacks
    <2>2. \A t \in Slots : (Moving(t)' <=> Moving(t)) /\ (Moving(t) => ops'[t] = ops[t])
      BY <1>1, <1>2, <1>3 DEF Moving, IsWrite, Sent
    <2> QED BY <1>1, <2>1, <2>2, Undisturbed
  <1>4. CASE ops[s].kind \in WriteKinds /\ ~(ops[s].kind = "commit" /\ Top(ops[s]) = "state")
    <2>1. \A t \in Slots : t # s => ~Cmd(t)
      BY <1>1, <1>4 DEF Alone, Cmd, WriteKinds
    <2>2. \A t \in Slots : ~Moving(t)'
      BY <1>1, <1>2, <2>1, OneMoves
    <2>3. ops[s].kind \in Kinds /\ ops[s].requests \in Chains(ops[s].kind)
      BY <1>1, OpTyped
    <2>4. Moving(s)
      <3>1. Top(ops[s]) \in {"state", "again", "full", "cells", "pause", "resume"}
        BY <1>4, <2>3, WriteTop DEF Top
      <3>2. Top(ops[s]) # "state"
        BY <1>4, <2>3, ChainFacts DEF Top, WriteKinds
      <3> QED BY <1>1, <1>4, <3>1, <3>2 DEF Moving, IsWrite, Overwrites
    <2>5. FitsLater(ops[s], undo, redo, server.cells)
      BY <2>4 DEF InStep
    <2>6. Fit(undo', redo', server'.cells)
      <3>1. CASE ops[s].kind = "commit"
        BY <1>1, <1>4, <2>5, <3>1 DEF Ends, FitsLater
      <3>2. CASE ops[s].kind = "undo"
        BY <1>1, <1>4, <2>5, <3>2 DEF Ends, FitsLater
      <3>3. CASE ops[s].kind = "redo"
        BY <1>1, <1>4, <2>5, <3>3 DEF Ends, FitsLater
      <3> QED BY <1>4, <3>1, <3>2, <3>3 DEF WriteKinds
    <2> QED BY <2>2, <2>6 DEF InStep
  <1> QED BY <1>3, <1>4

LEMMA StepFitting ==
  Typed /\ Typed' /\ Alone /\ Shows /\ Fresh /\ Fitting /\ Shapes => Fitting'
  <1> SUFFICES ASSUME Typed, Typed', Alone, Shows, Fresh, Fitting, Shapes, apart', ~strayed'
               PROVE  InStep'
    BY DEF Fitting, InStep
  <1>1. apart /\ ~strayed
    <2>1. ASSUME NEW s \in Slots, NEW op \in Operations, Launches(s, op) PROVE apart /\ ~strayed
      BY <2>1 DEF Launches
    <2>2. ASSUME NEW s \in Slots, NEW r \in Operations, Serves(s, r) PROVE apart /\ ~strayed
      BY <2>2 DEF Serves
    <2>3. ASSUME NEW s \in Slots, NEW r \in Operations, Refetches(s, r) PROVE apart /\ ~strayed
      BY <2>3 DEF Refetches
    <2>4. ASSUME NEW s \in Slots, NEW r \in Operations \cup {Nothing}, Receives(s, r) PROVE apart /\ ~strayed
      BY <2>4 DEF Receives
    <2>5. ASSUME NEW s \in Slots, Ends(s) PROVE apart /\ ~strayed
      BY <2>5 DEF Ends
    <2>6. CASE Ticks
      BY <2>6 DEF Ticks
    <2>7. CASE Rests
      BY <2>7 DEF Rests
    <2> QED BY <2>1, <2>2, <2>3, <2>4, <2>5, <2>6, <2>7 DEF Shapes
  <1>2. InStep
    BY <1>1 DEF Fitting, InStep
  <1>3. ASSUME NEW s \in Slots, NEW op \in Operations, Launches(s, op) PROVE InStep'
    BY <1>1, <1>2, <1>3, LaunchFits
  <1>4. ASSUME NEW s \in Slots, NEW r \in Operations, Serves(s, r) PROVE InStep'
    BY <1>1, <1>2, <1>4, ServeFits
  <1>5. ASSUME NEW s \in Slots, NEW r \in Operations, Refetches(s, r) PROVE InStep'
    BY <1>2, <1>5, RefetchFits
  <1>6. ASSUME NEW s \in Slots, NEW r \in Operations \cup {Nothing}, Receives(s, r) PROVE InStep'
    BY <1>1, <1>2, <1>6, ReceiveFits
  <1>7. ASSUME NEW s \in Slots, Ends(s) PROVE InStep'
    BY <1>1, <1>2, <1>7, EndFits
  <1>8. CASE Ticks
    <2>1. UNCHANGED <<ops, undo, redo>> /\ server'.cells = server.cells
      BY <1>1, <1>8 DEF Ticks
    <2>2. \A t \in Slots : (Moving(t)' <=> Moving(t)) /\ (Moving(t) => ops'[t] = ops[t])
      BY <2>1 DEF Moving, IsWrite, Sent
    <2> QED BY <1>2, <2>1, <2>2, Undisturbed
  <1>9. CASE Rests
    <2>1. UNCHANGED <<ops, undo, redo, server>>
      BY <1>9 DEF Rests
    <2>2. \A t \in Slots : (Moving(t)' <=> Moving(t)) /\ (Moving(t) => ops'[t] = ops[t])
      BY <2>1 DEF Moving, IsWrite, Sent
    <2> QED BY <1>2, <2>1, <2>2, Undisturbed
  <1> QED BY <1>3, <1>4, <1>5, <1>6, <1>7, <1>8, <1>9 DEF Shapes

(***************************************************************************)
(* The invariant.                                                          *)
(***************************************************************************)

PaneInv ==
    /\ Typed /\ Distinct /\ Alone /\ Shows /\ Intended
    /\ Running /\ Told /\ Fresh /\ Fitting

\* At first the reset is to be sent, and nothing is known of the session.
LEMMA InitFacts ==
  ASSUME Init
  PROVE  /\ cache = Nothing /\ shown = Nothing /\ undo = <<>> /\ redo = <<>>
         /\ buttons = [undo |-> FALSE, redo |-> FALSE]
         /\ ~meant /\ apart /\ ~crossed /\ ~strayed /\ ~failed
         /\ \E s \in Slots :
              /\ \A t \in Slots : t # s => ops[t] = Nothing
              /\ ops[s] # Nothing /\ Sent(s) /\ ops[s].kind = "seed" /\ Top(ops[s]) = "reset"
  <1>1. /\ cache = Nothing /\ shown = Nothing /\ undo = <<>> /\ redo = <<>>
        /\ buttons = [undo |-> FALSE, redo |-> FALSE]
        /\ ~meant /\ apart /\ ~crossed /\ ~strayed /\ ~failed
    BY DEF Init
  <1>2. PICK slot : slot = CHOOSE s \in Slots : TRUE
    OBVIOUS
  <1>3. slot \in Slots
    BY <1>2, PaneAssumption
  <1>4. PICK pattern \in Patterns : ops = [s \in Slots |-> IF s = slot THEN Seeding(pattern) ELSE Nothing]
    BY <1>2 DEF Init
  <1>5. ops[slot] = Seeding(pattern) /\ \A t \in Slots : t # slot => ops[t] = Nothing
    BY <1>3, <1>4
  <1>6. Seeding(pattern).kind = "seed" /\ Seeding(pattern).phase = "sent" /\ Top(Seeding(pattern)) = "reset"
    BY Literals DEF Seeding, Operation, Top
  <1>7. ops[slot] # Nothing
    <2>1. Typed
      BY InitTyped
    <2>2. Seeding(pattern) \in Operations \cup {Nothing}
      BY <1>3, <1>5, <2>1 DEF Typed, TypeOK
    <2>3. Seeding(pattern) \in Operations
      <3>1. pattern \in Paints
        BY DEF Patterns, Paints
      <3>2. Entry(pattern, pattern) \in Changes
        BY <3>1 DEF Entry, Changes
      <3>3. PICK requests : requests = IF pattern = <<>> THEN <<"reset">> ELSE <<"reset", "cells">>
        OBVIOUS
      <3>4. "seed" \in Kinds /\ "seed" \notin WriteKinds /\ requests \in Chains("seed")
        BY <3>3 DEF Kinds, WriteKinds, Chains
      <3>5. Seeding(pattern) = Operation("seed", requests, Entry(pattern, pattern))
        BY <3>3 DEF Seeding
      <3> QED BY <3>2, <3>4, <3>5, OperationBegun DEF Begun
    <2> QED BY <1>5, <2>3, PaneAssumption
  <1> QED BY <1>1, <1>3, <1>5, <1>6, <1>7 DEF Sent

LEMMA InitPane == Init => PaneInv
  <1> SUFFICES ASSUME Init PROVE PaneInv OBVIOUS
  <1>1. /\ cache = Nothing /\ shown = Nothing /\ undo = <<>> /\ redo = <<>>
        /\ buttons = [undo |-> FALSE, redo |-> FALSE]
        /\ ~meant /\ apart /\ ~crossed /\ ~strayed /\ ~failed
    BY InitFacts
  <1>2. PICK s \in Slots :
          /\ \A t \in Slots : t # s => ops[t] = Nothing
          /\ ops[s] # Nothing /\ Sent(s) /\ ops[s].kind = "seed" /\ Top(ops[s]) = "reset"
    BY InitFacts
  <1>3. Typed
    BY InitTyped
  <1>4. Distinct
    <2>1. \A x \in Snapshots : Known(x) => x = server
      BY <1>1, <1>2 DEF Known, InAnswer
    <2>2. server.revision \in Nat
      BY <1>3 DEF Typed, TypeOK, Snapshots
    <2> QED BY <2>1, <2>2 DEF Distinct
  <1>5. Alone
    BY <1>1, <1>2 DEF Alone, Cmd, Control
  <1>6. Shows
    BY <1>1, <1>2 DEF Shows, Cmd
  <1>7. Intended
    BY <1>1, <1>2 DEF Intended, Control, Cmd
  <1>8. Decides(s) /\ Undecided
    BY <1>2 DEF Undecided, Decides, Control, Cmd, WriteKinds
  <1>9. Running
    BY <1>8 DEF Running
  <1>10. Told
    BY <1>2 DEF Told, Cmd
  <1>11. Fresh
    BY <1>1, <1>2 DEF Fresh, Cmd
  <1>12. Fitting
    <2>1. \A t \in Slots : ~Moving(t)
      BY <1>2 DEF Moving, IsWrite, WriteKinds
    <2>2. server.cells \in Boards
      BY <1>3 DEF Typed, TypeOK, Snapshots
    <2> QED BY <1>1, <2>1, <2>2, LeadsEmpty DEF Fitting, Fit
  <1> QED BY <1>3, <1>4, <1>5, <1>6, <1>7, <1>9, <1>10, <1>11, <1>12 DEF PaneInv

LEMMA StepPane == PaneInv /\ [Next]_vars => PaneInv'
  <1> SUFFICES ASSUME PaneInv, [Next]_vars PROVE PaneInv' OBVIOUS
  <1>1. Typed /\ Distinct /\ Alone /\ Shows /\ Intended /\ Running /\ Told /\ Fresh /\ Fitting
    BY DEF PaneInv
  <1>2. Shapes
    BY <1>1, StepShapes
  <1>3. Typed'
    BY <1>1, <1>2, StepTyped
  <1>4. Distinct'
    BY <1>1, <1>2, <1>3, StepDistinct
  <1>5. Alone' /\ Shows'
    BY <1>1, <1>2, StepAlone, StepShows
  <1>6. Intended'
    BY <1>1, <1>2, <1>3, <1>4, <1>5, StepIntended
  <1>7. Running'
    BY <1>1, <1>2, <1>3, <1>4, <1>5, <1>6, StepRunning
  <1>8. Told' /\ Fresh' /\ Fitting'
    BY <1>1, <1>2, <1>3, <1>4, <1>5, StepTold, StepFresh, StepFitting
  <1> QED BY <1>3, <1>4, <1>5, <1>6, <1>7, <1>8 DEF PaneInv

LEMMA PaneInvariant == Spec => []PaneInv
  BY InitPane, StepPane, PTL DEF Spec

(***************************************************************************)
(* At rest, the buttons tell whether there is something to undo and redo,  *)
(* unless a request failed, and both stacks describe the session's board,  *)
(* if it changed by this pane's writes only and no two commands were under *)
(* way together, whichever requests failed: commit, undoLast, redoLast and *)
(* their catch blocks (pane-edit-history.ts) and applySnapshot             *)
(* (compare-focus-pane.ts).                                                *)
(***************************************************************************)
THEOREM PaneIsConsistent == Spec => []PaneConsistent
  <1>1. PaneInv => PaneConsistent
    <2> SUFFICES ASSUME PaneInv PROVE PaneConsistent OBVIOUS
    <2>1. TypeOK
      BY DEF PaneInv, Typed
    <2>2. AtRest => \A s \in Slots : ops[s] = Nothing
      BY DEF AtRest, Busy
    <2>3. ButtonsTellHistory
      BY <2>2 DEF ButtonsTellHistory, PaneInv, Told, Cmd
    <2>4. HistoryFits
      BY <2>2 DEF HistoryFits, PaneInv, Fitting, Fit, Moving, IsWrite
    <2> QED BY <2>1, <2>3, <2>4 DEF PaneConsistent
  <1> QED BY <1>1, PaneInvariant, PTL

(***************************************************************************)
(* However many writes and polls overlap, once they are answered the       *)
(* session runs exactly if the run button or a step last left it running,  *)
(* as long as no request failed and none of those overlapped with another  *)
(* command: writeCells pauses a run and resumes it (compare-focus-pane.ts).*)
(***************************************************************************)
THEOREM WritesLeaveTheRun == Spec => []WritesKeepRunState
  <1>1. PaneInv => WritesKeepRunState
    <2> SUFFICES ASSUME PaneInv, AtRest, ~crossed, ~failed PROVE server.running = meant
      BY DEF WritesKeepRunState
    <2>1. \A s \in Slots : ops[s] = Nothing
      BY DEF AtRest, Busy
    <2>2. ~Undecided /\ \A s \in Slots : ~WillResume(s)
      BY <2>1 DEF Undecided, Decides, Control, Cmd, WillResume, Resumes, IsWrite
    <2>3. /\ server \in Snapshots /\ server.running \in BOOLEAN /\ server.revision \in Nat
          /\ cache # Nothing => cache \in Snapshots /\ cache.revision \in Nat
          /\ meant \in BOOLEAN
      BY DEF PaneInv, Typed, TypeOK, Snapshots
    <2>4. cache # Nothing => cache.revision <= server.revision
      BY <2>3 DEF PaneInv, Distinct, Known
    <2>5. ~Overruled(server)
      BY <2>1, <2>3, <2>4 DEF Overruled, Decides, Control, Cmd
    <2>6. IF meant THEN server.running ELSE ~server.running
      BY <2>2, <2>3, <2>5 DEF PaneInv, Running, Known
    <2> QED BY <2>3, <2>6
  <1> QED BY <1>1, PaneInvariant, PTL
==========================================================================
