--------------------------- MODULE SiteCache_proofs ---------------------------
(***************************************************************************)
(* Proofs about SiteCache, for any number of goroutines, whatever they     *)
(* do, and any number of changes.                                          *)
(*                                                                         *)
(* The steps a goroutine has left are a sequence; most arguments need only *)
(* the set of them (Left), and that the steps a view puts in for a missing *)
(* toggle or entry come first (Ordered).  The first part has the lemmas    *)
(* about such sequences, the second the inductive invariant, the third one *)
(* lemma for each action.                                                  *)
(***************************************************************************)
EXTENDS SiteCache, SequenceTheorems, TLAPS

USE CacheDoesAssumption, CacheBoundsAssumption

----------------------------------------------------------------------------
\* Part 1: the steps left

Left(t) == {t[i] : i \in 1 .. Len(t)}

LEMMA LeftTail ==
  ASSUME NEW t \in Seq(Label), t # <<>>
  PROVE  /\ Head(t) = t[1] /\ Len(t) \in Nat \ {0}
         /\ Tail(t) \in Seq(Label) /\ Len(Tail(t)) = Len(t) - 1
         /\ \A i \in 1 .. Len(t) - 1 : Tail(t)[i] = t[i + 1]
         /\ Left(t) = {Head(t)} \cup Left(Tail(t))
         /\ Len(t) = 1 <=> Tail(t) = <<>>
<1>1. /\ Head(t) = t[1] /\ Len(t) \in Nat \ {0}
      /\ Tail(t) \in Seq(Label) /\ Len(Tail(t)) = Len(t) - 1
      /\ \A i \in 1 .. Len(t) - 1 : Tail(t)[i] = t[i + 1]
  OBVIOUS
<1>2. ASSUME NEW i \in 1 .. Len(t) PROVE t[i] \in {Head(t)} \cup Left(Tail(t))
  <2>1. CASE i = 1
    BY <1>1, <2>1
  <2>2. CASE i # 1
    <3>1. i - 1 \in 1 .. Len(Tail(t)) /\ Tail(t)[i - 1] = t[i]
      BY <1>1, <2>2
    <3>. QED
      BY <3>1 DEF Left
  <2>. QED
    BY <2>1, <2>2
<1>3. ASSUME NEW i \in 1 .. Len(Tail(t)) PROVE Tail(t)[i] \in Left(t)
  <2>1. i + 1 \in 1 .. Len(t) /\ Tail(t)[i] = t[i + 1]
    BY <1>1
  <2>. QED
    BY <2>1 DEF Left
<1>4. Head(t) \in Left(t)
  BY <1>1 DEF Left
<1>5. Len(t) = 1 <=> Tail(t) = <<>>
  <2>1. ASSUME NEW u \in Seq(Label) PROVE u = <<>> <=> Len(u) = 0
    BY EmptySeq
  <2>2. Tail(t) = <<>> <=> Len(Tail(t)) = 0
    BY <1>1, <2>1
  <2>. QED
    BY <1>1, <2>2
<1>. QED
  BY <1>1, <1>2, <1>3, <1>4, <1>5 DEF Left

LEMMA LeftJoin ==
  ASSUME NEW s \in Seq(Label), NEW t \in Seq(Label)
  PROVE  /\ s \o t \in Seq(Label) /\ Len(s \o t) = Len(s) + Len(t)
         /\ \A i \in 1 .. Len(s) : (s \o t)[i] = s[i]
         /\ \A i \in 1 .. Len(t) : (s \o t)[Len(s) + i] = t[i]
         /\ Left(s \o t) = Left(s) \cup Left(t)
<1>1. /\ s \o t \in Seq(Label) /\ Len(s \o t) = Len(s) + Len(t)
      /\ \A i \in 1 .. Len(s) : (s \o t)[i] = s[i]
      /\ Len(s) \in Nat /\ Len(t) \in Nat
  OBVIOUS
<1>2. ASSUME NEW i \in 1 .. Len(t) PROVE (s \o t)[Len(s) + i] = t[i]
  BY <1>1
<1>3. ASSUME NEW i \in 1 .. Len(s \o t) PROVE (s \o t)[i] \in Left(s) \cup Left(t)
  <2>1. CASE i \in 1 .. Len(s)
    BY <1>1, <2>1 DEF Left
  <2>2. CASE i \notin 1 .. Len(s)
    <3>1. i - Len(s) \in 1 .. Len(t) /\ (s \o t)[i] = t[i - Len(s)]
      BY <1>1, <2>2
    <3>. QED
      BY <3>1 DEF Left
  <2>. QED
    BY <2>1, <2>2
<1>4. ASSUME NEW i \in 1 .. Len(s) PROVE s[i] \in Left(s \o t)
  <2>1. i \in 1 .. Len(s \o t) /\ (s \o t)[i] = s[i]
    BY <1>1
  <2>. QED
    BY <2>1 DEF Left
<1>5. ASSUME NEW i \in 1 .. Len(t) PROVE t[i] \in Left(s \o t)
  <2>1. Len(s) + i \in 1 .. Len(s \o t) /\ (s \o t)[Len(s) + i] = t[i]
    BY <1>1, <1>2
  <2>. QED
    BY <2>1 DEF Left
<1>. QED
  BY <1>1, <1>2, <1>3, <1>4, <1>5 DEF Left

\* The steps that are put in, and which of them may stand before which; a page is kept
\* by the last step.
Detour == {"toggleRead", "toggleSet", "generalRead", "generalFill", "itemRead", "blockRead"}
Ordered(t) ==
  \A i \in 1 .. Len(t) :
    /\ t[i] \in {"toggleRead", "generalRead", "itemRead", "blockRead"} => i = 1
    /\ t[i] = "toggleRead" => Len(t) > 1 /\ t[2] = "toggleSet"
    /\ t[i] = "toggleSet" => i = 1 \/ (i = 2 /\ t[1] = "toggleRead")
    /\ t[i] = "generalFill" => \/ i = 1
                               \/ i = 2 /\ t[1] \in {"toggleSet", "generalRead"}
                               \/ i = 3 /\ t[1] = "toggleRead"
    /\ t[i] = "keep" => i = Len(t)

LEMMA OrderedPlain ==
  ASSUME NEW t \in Seq(Label), Left(t) \cap (Detour \cup {"keep"}) = {}
  PROVE  Ordered(t)
  BY DEF Left, Ordered, Detour

LEMMA OrderedTail ==
  ASSUME NEW t \in Seq(Label), t # <<>>, Ordered(t)
  PROVE  Ordered(Tail(t))
<1>1. SUFFICES ASSUME NEW i \in 1 .. Len(Tail(t))
      PROVE  /\ Tail(t)[i] \in {"toggleRead", "generalRead", "itemRead", "blockRead"} => i = 1
             /\ Tail(t)[i] = "toggleRead" => Len(Tail(t)) > 1 /\ Tail(t)[2] = "toggleSet"
             /\ Tail(t)[i] = "toggleSet" => i = 1 \/ (i = 2 /\ Tail(t)[1] = "toggleRead")
             /\ Tail(t)[i] = "generalFill" => \/ i = 1
                                              \/ i = 2 /\ Tail(t)[1] \in {"toggleSet", "generalRead"}
                                              \/ i = 3 /\ Tail(t)[1] = "toggleRead"
             /\ Tail(t)[i] = "keep" => i = Len(Tail(t))
  BY DEF Ordered
<1>2. /\ Len(Tail(t)) = Len(t) - 1 /\ Tail(t)[i] = t[i + 1] /\ i + 1 \in 1 .. Len(t) /\ Tail(t)[1] = t[2]
      /\ Len(t) \in Nat /\ i + 1 # 1
  BY LeftTail
<1>3. t[i + 1] \notin {"toggleRead", "generalRead", "itemRead", "blockRead"}
  BY <1>2 DEF Ordered
<1>4. /\ t[i + 1] = "toggleSet" => i + 1 = 2
      /\ t[i + 1] = "keep" => i + 1 = Len(t)
  BY <1>2 DEF Ordered
<1>5. t[i + 1] = "generalFill" => i + 1 = 2 \/ (i + 1 = 3 /\ t[2] = "toggleSet")
  <2>1. 1 \in 1 .. Len(t)
    BY <1>2
  <2>2. t[1] = "toggleRead" => t[2] = "toggleSet"
    BY <2>1 DEF Ordered
  <2>. QED
    BY <1>2, <2>2 DEF Ordered
<1>6. /\ i + 1 = 2 <=> i = 1
      /\ i + 1 = 3 <=> i = 2
      /\ i + 1 = Len(t) <=> i = Len(Tail(t))
  BY <1>2
<1>7. Tail(t)[i] \notin {"toggleRead", "generalRead", "itemRead", "blockRead"}
  BY <1>2, <1>3
<1>. QED
  BY <1>2, <1>4, <1>5, <1>6, <1>7

\* Where the first step is none that another is put before, none is put in behind it.
LEMMA OrderedRest ==
  ASSUME NEW t \in Seq(Label), t # <<>>, Ordered(t),
         Head(t) \notin {"toggleRead", "toggleSet", "generalRead"}
  PROVE  Left(Tail(t)) \cap Detour = {}
<1>1. SUFFICES ASSUME NEW i \in 1 .. Len(Tail(t)) PROVE Tail(t)[i] \notin Detour
  BY DEF Left
<1>2. /\ Tail(t)[i] = t[i + 1] /\ i + 1 \in 1 .. Len(t) /\ i + 1 # 1 /\ Head(t) = t[1]
  BY LeftTail
<1>. QED
  BY <1>2 DEF Ordered, Detour

\* What is put in before steps that are as they were planned.
LEMMA OrderedPut ==
  ASSUME NEW s \in Seq(Label), NEW t \in Seq(Label), t = <<>> \/ Ordered(t),
         Left(t) \cap Detour = {}, Ordered(s), "keep" \notin Left(s) \/ t = <<>>
  PROVE  Ordered(s \o t)
<1>1. /\ Len(s \o t) = Len(s) + Len(t) /\ Len(s) \in Nat /\ Len(t) \in Nat
      /\ \A i \in 1 .. Len(s) : (s \o t)[i] = s[i]
      /\ \A i \in 1 .. Len(t) : (s \o t)[Len(s) + i] = t[i]
  BY LeftJoin
<1>. DEFINE r == s \o t
<1>2. SUFFICES ASSUME NEW i \in 1 .. Len(r)
      PROVE  /\ r[i] \in {"toggleRead", "generalRead", "itemRead", "blockRead"} => i = 1
             /\ r[i] = "toggleRead" => Len(r) > 1 /\ r[2] = "toggleSet"
             /\ r[i] = "toggleSet" => i = 1 \/ (i = 2 /\ r[1] = "toggleRead")
             /\ r[i] = "generalFill" => \/ i = 1
                                        \/ i = 2 /\ r[1] \in {"toggleSet", "generalRead"}
                                        \/ i = 3 /\ r[1] = "toggleRead"
             /\ r[i] = "keep" => i = Len(r)
  BY DEF Ordered
<1>3. CASE i \in 1 .. Len(s)
  <2>1. r[i] = s[i] /\ r[1] = s[1] /\ (Len(s) > 1 => r[2] = s[2])
    BY <1>1, <1>3
  <2>2. s[i] = "keep" => Len(t) = 0
    BY <1>3 DEF Left
  <2>. QED
    BY <1>1, <1>3, <2>1, <2>2 DEF Ordered
<1>4. CASE i \notin 1 .. Len(s)
  <2>1. PICK j \in 1 .. Len(t) : i = Len(s) + j
    <3>1. i - Len(s) \in 1 .. Len(t) /\ i = Len(s) + (i - Len(s))
      BY <1>1, <1>4
    <3>. QED
      BY <3>1
  <2>2. r[i] = t[j] /\ t[j] \notin Detour
    BY <1>1, <2>1 DEF Left
  <2>3. t[j] = "keep" => j = Len(t)
    BY <2>1 DEF Ordered
  <2>. QED
    BY <1>1, <2>1, <2>2, <2>3 DEF Detour
<1>. QED
  BY <1>3, <1>4

\* The sequences that are put in, and Lookup's.
LEMMA PutIn ==
  ASSUME NEW s, \/ s = <<"generalRead", "generalFill">>
                \/ s = <<"itemRead", "itemFill">>
                \/ s = <<"blockRead", "blockFill">>
                \/ s = <<"blockRead">>
                \/ s = <<"item", "comment", "block">>
                \/ \E l \in {"general", "generalFill", "block"} : s = <<"toggleRead", "toggleSet", l>>
  PROVE  s \in Seq(Label) /\ Ordered(s) /\ "keep" \notin Left(s) /\ s # <<>>
<1>1. CASE s = <<"generalRead", "generalFill">>
  BY <1>1 DEF Label, Ordered, Left
<1>2. CASE s = <<"itemRead", "itemFill">>
  BY <1>2 DEF Label, Ordered, Left
<1>3. CASE s = <<"blockRead", "blockFill">>
  BY <1>3 DEF Label, Ordered, Left
<1>4. CASE s = <<"blockRead">>
  BY <1>4 DEF Label, Ordered, Left
<1>5. CASE s = <<"item", "comment", "block">>
  BY <1>5 DEF Label, Ordered, Left
<1>6. ASSUME NEW l \in {"general", "generalFill", "block"}, s = <<"toggleRead", "toggleSet", l>>
      PROVE  s \in Seq(Label) /\ Ordered(s) /\ "keep" \notin Left(s) /\ s # <<>>
  BY <1>6 DEF Label, Ordered, Left
<1>. QED
  BY <1>1, <1>2, <1>3, <1>4, <1>5, <1>6

LEMMA PutInLeft ==
  /\ Left(<<"generalRead", "generalFill">>) = {"generalRead", "generalFill"}
  /\ Left(<<"itemRead", "itemFill">>) = {"itemRead", "itemFill"}
  /\ Left(<<"blockRead", "blockFill">>) = {"blockRead", "blockFill"}
  /\ Left(<<"blockRead">>) = {"blockRead"}
  /\ Left(<<"item", "comment", "block">>) = {"item", "comment", "block"}
  /\ \A l \in Label : Left(<<"toggleRead", "toggleSet", l>>) = {"toggleRead", "toggleSet", l}
  BY DEF Left, Label

\* What stands first, and what then stands nowhere else.
LEMMA OrderedHead ==
  ASSUME NEW t \in Seq(Label), t # <<>>, Ordered(t)
  PROVE  /\ Left(Tail(t)) \cap {"toggleRead", "generalRead", "itemRead", "blockRead"} = {}
         /\ Head(t) = "toggleSet" => "toggleSet" \notin Left(Tail(t))
         /\ Head(t) = "keep" => Tail(t) = <<>>
<1>1. ASSUME NEW i \in 1 .. Len(Tail(t))
      PROVE  /\ Tail(t)[i] \notin {"toggleRead", "generalRead", "itemRead", "blockRead"}
             /\ Tail(t)[i] = "toggleSet" => Head(t) = "toggleRead"
  <2>1. /\ Tail(t)[i] = t[i + 1] /\ i + 1 \in 1 .. Len(t) /\ i + 1 # 1 /\ Head(t) = t[1]
    BY LeftTail
  <2>. QED
    BY <2>1 DEF Ordered
<1>2. Head(t) = "keep" => Tail(t) = <<>>
  <2>1. 1 \in 1 .. Len(t) /\ Head(t) = t[1]
    BY LeftTail
  <2>. QED
    BY <2>1, LeftTail DEF Ordered
<1>. QED
  BY <1>1, <1>2 DEF Left

----------------------------------------------------------------------------
\* Part 2: the inductive invariant

\* What an operation is made of.
ViewSteps == {"general", "generalRead", "generalFill", "toggleRead", "toggleSet", "page",
              "item", "itemRead", "itemFill", "comment", "block", "blockRead", "blockFill",
              "keep"}
MadeOf(op, L) ==
  /\ L \cap ViewSteps # {} => op = View
  /\ L \ ViewSteps # {} => op \in Change
  /\ "writeItem" \in L => op \in {"edit", "restore"}
  /\ "writeComment" \in L => op \in {"comment", "moderate"}
  /\ "writeBlock" \in L => op = "block"
  /\ L \cap {"writeGeneral", "setToggle"} # {} => op = "general"
Formed(g) ==
  /\ g.op = "none" <=> g.todo = <<>>
  /\ g.op \notin Change => ~g.calm
  /\ Ordered(g.todo)
  /\ MadeOf(g.op, Left(g.todo))

\* What a view has read of rows it must show as the database has them is as the
\* database has it, from when it is read until it is in the cache or on the page.
ReadsCurrent(g) ==
  /\ "item" \in shown /\ "itemRead" \notin Left(g.todo)
       /\ ("itemFill" \in Left(g.todo) \/ "item" \notin Left(g.todo))
     => g.draft.item = db.content.item
  /\ "comment" \in shown /\ "comment" \notin Left(g.todo)
     => g.draft.comment = db.content.comment
  /\ "block" \in shown /\ "blockRead" \notin Left(g.todo)
       /\ ("blockFill" \in Left(g.todo) \/ "block" \notin Left(g.todo))
     => g.draft.block = db.content.block
  /\ "general" \in shown /\ "generalRead" \notin Left(g.todo) /\ "generalFill" \in Left(g.todo)
     => g.conf = db.general
  /\ "general" \in shown /\ "toggleRead" \notin Left(g.todo) /\ "toggleSet" \in Left(g.todo)
     => g.on = db.general.memory

\* What a calm change with the steps L left has achieved.
Saves == {"edit", "restore", "comment", "block", "general"}
Switch(g) == IF g.memory THEN "on" ELSE "off"
Achieved(op, conf, L) ==
  /\ op \in Saves => /\ "flushPages" \notin L => page = None
                     /\ "flushObjects" \notin L => object = None
  /\ op = "block" /\ "dropBlocks" \notin L => blocks = None
  /\ op = "general" => /\ "writeGeneral" \notin L => db.general = conf
                       /\ "dropSettings" \notin L => settings = None
                       /\ "setToggle" \notin L => toggle \in {"unknown", Switch(conf)}

\* While a change is calm, nobody views and nobody else changes the same rows.
Alone(w) ==
  /\ \A u \in Worker : ~Viewing(u)
  /\ \A u \in Worker \ {w} : Touches(worker[u].op) \cap Touches(worker[w].op) = {}

Goroutines ==
  \A w \in Worker :
    /\ worker[w].op \in Does[w] \cup {"none"}
    /\ Formed(worker[w])
    /\ Touches(worker[w].op) \cap shown = {}
    /\ Viewing(w) => ReadsCurrent(worker[w])
    /\ worker[w].calm => Alone(w)
    /\ worker[w].calm => Achieved(worker[w].op, worker[w].conf, Left(worker[w].todo))

ItemShows == /\ object \in {None, db.content.item}
             /\ page # None => page.shows.item = db.content.item
CommentShows == page # None => page.shows.comment = db.content.comment
BlockShows == /\ blocks \in {None, db.content.block}
              /\ page # None => page.shows.block = db.content.block
GeneralShows == /\ settings \in {None, db.general}
                /\ toggle \in {"unknown", Switch(db.general)}
Shows ==
  /\ "item" \in shown => ItemShows
  /\ "comment" \in shown => CommentShows
  /\ "block" \in shown => BlockShows
  /\ "general" \in shown => GeneralShows

IInv == TypeOK /\ Goroutines /\ Shows

----------------------------------------------------------------------------
\* Part 3: what a step does to the steps left

LEMMA LeftNone == Left(<<>>) = {}
  BY DEF Left

\* The rows an operation changes.
LEMMA TouchesIs ==
  /\ Touches("edit") = {"item"} /\ Touches("restore") = {"item"}
  /\ Touches("comment") = {"comment"} /\ Touches("moderate") = {"comment"}
  /\ Touches("block") = {"block"} /\ Touches("general") = {"general"}
  /\ Touches("reload") = {} /\ Touches(View) = {} /\ Touches("none") = {}
  /\ \A op : SeesTo(op) \subseteq Touches(op) /\ (op = "moderate" => "comment" \notin SeesTo(op))
<1>1. Touches("edit") = {"item"} /\ Touches("restore") = {"item"}
  BY Zenon DEF Touches
<1>2. Touches("comment") = {"comment"} /\ Touches("moderate") = {"comment"}
  BY Zenon DEF Touches
<1>3. Touches("block") = {"block"}
  BY Zenon DEF Touches
<1>4. Touches("general") = {"general"}
  BY Zenon DEF Touches
<1>5. Touches("reload") = {}
  BY Zenon DEF Touches
<1>6. Touches("view") = {}
  BY Zenon DEF Touches
<1>7. Touches("none") = {}
  BY Zenon DEF Touches
<1>8. \A op : SeesTo(op) \subseteq Touches(op) /\ (op = "moderate" => "comment" \notin SeesTo(op))
  BY DEF SeesTo
<1>. QED
  BY <1>1, <1>2, <1>3, <1>4, <1>5, <1>6, <1>7, <1>8 DEF View

\* A goroutine at one of its steps.
LEMMA AtStep ==
  ASSUME IInv, NEW w \in Worker, Busy(w)
  PROVE  /\ worker[w] \in Goroutine
         /\ worker[w].todo \in Seq(Label) /\ Rest(w) \in Seq(Label)
         /\ Head(worker[w].todo) \in Label
         /\ Left(worker[w].todo) = {Head(worker[w].todo)} \cup Left(Rest(w))
         /\ Len(worker[w].todo) = 1 <=> Rest(w) = <<>>
         /\ Ordered(worker[w].todo) /\ Ordered(Rest(w))
         /\ MadeOf(worker[w].op, Left(worker[w].todo))
         /\ MadeOf(worker[w].op, Left(Rest(w)))
         /\ Head(worker[w].todo) \in ViewSteps => worker[w].op = View
         /\ Head(worker[w].todo) \notin ViewSteps => worker[w].op \in Change
<1>1. worker[w] \in Goroutine /\ worker[w].todo \in Seq(Label) /\ worker[w].todo # <<>>
  BY DEF IInv, TypeOK, Goroutine, Busy
<1>2. Ordered(worker[w].todo) /\ MadeOf(worker[w].op, Left(worker[w].todo))
  BY DEF IInv, Goroutines, Formed
<1>3. /\ Rest(w) \in Seq(Label)
      /\ Left(worker[w].todo) = {Head(worker[w].todo)} \cup Left(Rest(w))
      /\ Len(worker[w].todo) = 1 <=> Rest(w) = <<>>
  BY <1>1, LeftTail DEF Rest
<1>4. Head(worker[w].todo) \in Label
  BY <1>1
<1>5. Ordered(Rest(w))
  BY <1>1, <1>2, OrderedTail DEF Rest
<1>6. MadeOf(worker[w].op, Left(Rest(w)))
  BY <1>2, <1>3 DEF MadeOf
<1>7. /\ Head(worker[w].todo) \in ViewSteps => worker[w].op = View
      /\ Head(worker[w].todo) \notin ViewSteps => worker[w].op \in Change
  BY <1>2, <1>3 DEF MadeOf
<1>. QED
  BY <1>1, <1>2, <1>3, <1>4, <1>5, <1>6, <1>7

LEMMA IdleIs ==
  /\ Idle \in Goroutine /\ Formed(Idle)
  /\ Idle.todo = <<>> /\ Idle.op = "none" /\ Idle.conf \in General
  /\ ~Idle.calm
<1>1. /\ Idle \in Goroutine /\ Idle.todo = <<>> /\ Idle.op = "none" /\ Idle.conf \in General
  BY DEF Idle, Goroutine, Blank, Content, Edition, General
<1>2. ~Idle.calm
  BY DEF Idle
<1>3. Ordered(<<>>) /\ MadeOf("none", {})
  BY DEF Ordered, MadeOf
<1>. QED
  BY <1>1, <1>2, <1>3, LeftNone DEF Formed

\* A goroutine that has taken its step.
LEMMA PastIs ==
  ASSUME IInv, NEW w \in Worker, Busy(w)
  PROVE  /\ Past(w) \in Goroutine
         /\ Past(w).todo = Rest(w)
         /\ Formed(Past(w))
         /\ Past(w).op \in {worker[w].op, "none"}
         /\ Rest(w) # <<>> => /\ Past(w).op = worker[w].op
                              /\ Past(w).calm = worker[w].calm
                              /\ Past(w).conf = worker[w].conf
                              /\ Past(w).draft = worker[w].draft
                              /\ Past(w).on = worker[w].on
         /\ Rest(w) = <<>> => Past(w).op = "none" /\ ~Past(w).calm
<1>1. CASE Rest(w) = <<>>
  <2>1. Past(w) = Idle
    BY <1>1, AtStep DEF Past
  <2>. QED
    BY <1>1, <2>1, IdleIs
<1>2. CASE Rest(w) # <<>>
  <2>1. Past(w) = [worker[w] EXCEPT !.todo = Rest(w)]
    BY <1>2, AtStep DEF Past
  <2>2. /\ Past(w) \in Goroutine /\ Past(w).todo = Rest(w) /\ Past(w).op = worker[w].op
        /\ Past(w).calm = worker[w].calm /\ Past(w).conf = worker[w].conf
        /\ Past(w).draft = worker[w].draft /\ Past(w).on = worker[w].on
    BY <2>1, AtStep DEF Goroutine
  <2>3. worker[w].op # "none" /\ (worker[w].op \notin Change => ~worker[w].calm)
    BY DEF IInv, Goroutines, Formed, Busy
  <2>4. Formed(Past(w))
    BY <1>2, <2>2, <2>3, AtStep DEF Formed
  <2>. QED
    BY <1>2, <2>2, <2>4
<1>. QED
  BY <1>1, <1>2

\* A view whose step is replaced by others.
LEMMA InsteadIs ==
  ASSUME IInv, NEW w \in Worker, Busy(w), Viewing(w), NEW steps \in Seq(Label),
         Head(worker[w].todo) \notin {"toggleRead", "toggleSet", "generalRead"},
         Left(steps) \subseteq ViewSteps \ {"keep"}, Ordered(steps), steps # <<>>,
         NEW g, g = [worker[w] EXCEPT !.todo = steps \o Rest(w)]
  PROVE  /\ g \in Goroutine /\ Formed(g) /\ g.op = View
         /\ Left(g.todo) = Left(steps) \cup Left(Rest(w))
         /\ g.draft = worker[w].draft /\ g.conf = worker[w].conf /\ g.on = worker[w].on
<1>1. /\ steps \o Rest(w) \in Seq(Label)
      /\ Left(steps \o Rest(w)) = Left(steps) \cup Left(Rest(w))
  BY AtStep, LeftJoin
<1>2. Ordered(steps \o Rest(w))
  <2>1. Left(Rest(w)) \cap Detour = {}
    BY AtStep, OrderedRest DEF Rest, Busy
  <2>. QED
    BY <2>1, AtStep, OrderedPut
<1>3. /\ g \in Goroutine /\ g.todo = steps \o Rest(w) /\ g.op = worker[w].op
      /\ g.draft = worker[w].draft /\ g.conf = worker[w].conf /\ g.on = worker[w].on
      /\ g.calm = worker[w].calm
  BY <1>1, AtStep DEF Goroutine
<1>4. g.op = View /\ ~g.calm
  BY <1>3 DEF IInv, Goroutines, Formed, Viewing, View, Change
<1>5. g.todo # <<>>
  <2>1. steps[1] \in Left(steps)
    BY LeftTail DEF Left
  <2>2. Left(g.todo) # {}
    BY <1>1, <1>3, <2>1
  <2>. QED
    BY <2>2, LeftNone
<1>6. MadeOf(View, Left(g.todo))
  <2>1. MadeOf(View, Left(Rest(w)))
    BY <1>4, <1>3, AtStep
  <2>. QED
    BY <1>1, <1>3, <2>1 DEF MadeOf, ViewSteps, View, Change
<1>7. View # "none"
  BY DEF View
<1>. QED
  BY <1>1, <1>2, <1>3, <1>4, <1>5, <1>6, <1>7 DEF Formed

----------------------------------------------------------------------------
\* Part 4: one lemma for each action

\* A view at any of its steps: nobody is calm.
LEMMA NobodyCalm ==
  ASSUME IInv, NEW w \in Worker, Viewing(w), NEW u \in Worker
  PROVE  ~worker[u].calm
  BY DEF IInv, Goroutines, Alone

LEMMA ViewStep ==
  ASSUME IInv, NEW w \in Worker, Viewing(w),
         NEW g \in Goroutine, worker' = [worker EXCEPT ![w] = g],
         Formed(g), g.op \in {View, "none"}, g.op = View => ReadsCurrent(g),
         UNCHANGED <<db, edits, shown>>,
         toggle' \in {"on", "off", "unknown"}, settings' \in General \cup {None},
         blocks' \in Edition \cup {None}, object' \in Edition \cup {None},
         page' \in [shows : Content, age : 0 .. PageTTL] \cup {None},
         Shows'
  PROVE  IInv'
<1>1. worker \in [Worker -> Goroutine]
  BY DEF IInv, TypeOK
<1>2. /\ worker' \in [Worker -> Goroutine] /\ worker'[w] = g
      /\ \A u \in Worker \ {w} : worker'[u] = worker[u]
  BY <1>1
<1>3. TypeOK'
  BY <1>2 DEF IInv, TypeOK
<1>4. ASSUME NEW u \in Worker PROVE ~worker'[u].calm
  <2>1. ~g.calm
    BY DEF Formed, View, Change
  <2>. QED
    BY <1>2, <2>1, NobodyCalm
<1>5. ASSUME NEW u \in Worker
      PROVE  /\ worker'[u].op \in Does[u] \cup {"none"}
             /\ Formed(worker'[u])
             /\ Touches(worker'[u].op) \cap shown' = {}
             /\ Viewing(u)' => ReadsCurrent(worker[u])'
  <2>1. CASE u = w
    <3>1. g.op \in Does[u] \cup {"none"}
      BY <2>1 DEF IInv, Goroutines, Viewing
    <3>2. Touches(g.op) = {}
      BY TouchesIs
    <3>3. Viewing(u)' => ReadsCurrent(worker[u])'
      BY <1>2, <2>1 DEF Viewing, ReadsCurrent
    <3>. QED
      BY <1>2, <2>1, <3>1, <3>2, <3>3
  <2>2. CASE u # w
    <3>1. worker'[u] = worker[u]
      BY <1>2, <2>2
    <3>2. Viewing(u)' => ReadsCurrent(worker[u])'
      BY <3>1 DEF IInv, Goroutines, Viewing, ReadsCurrent
    <3>. QED
      BY <3>1, <3>2 DEF IInv, Goroutines
  <2>. QED
    BY <2>1, <2>2
<1>6. Goroutines'
  BY <1>4, <1>5 DEF Goroutines
<1>. QED
  BY <1>3, <1>6 DEF IInv

\* A view that has taken its step has read, or is done.
LEMMA ViewPast ==
  ASSUME IInv, NEW w \in Worker, Busy(w), Head(worker[w].todo) \in ViewSteps
  PROVE  /\ Viewing(w) /\ ReadsCurrent(worker[w])
         /\ Past(w).op = View => /\ Rest(w) # <<>>
                                 /\ Past(w).conf = worker[w].conf
                                 /\ Past(w).draft = worker[w].draft
                                 /\ Past(w).on = worker[w].on
         /\ \A g \in Goroutine :
              g.todo = Rest(w) /\ g.op = Past(w).op /\ g.calm = Past(w).calm
                => Formed(g) /\ g.op \in {View, "none"}
<1>1. Viewing(w)
  BY AtStep DEF Viewing
<1>2. ReadsCurrent(worker[w])
  BY <1>1 DEF IInv, Goroutines
<1>3. Past(w).op = View => Rest(w) # <<>>
  BY PastIs DEF View
<1>4. ASSUME NEW g \in Goroutine, g.todo = Rest(w), g.op = Past(w).op, g.calm = Past(w).calm
      PROVE  Formed(g) /\ g.op \in {View, "none"}
  BY <1>1, <1>4, PastIs DEF Formed, Viewing
<1>. QED
  BY <1>1, <1>2, <1>3, <1>4, PastIs

\* The shared state of a view's step that fills no cache.
LEMMA NothingFilled ==
  ASSUME IInv, UNCHANGED <<db, Cached, edits, shown>>
  PROVE  /\ toggle' \in {"on", "off", "unknown"} /\ settings' \in General \cup {None}
         /\ blocks' \in Edition \cup {None} /\ object' \in Edition \cup {None}
         /\ page' \in [shows : Content, age : 0 .. PageTTL] \cup {None}
         /\ UNCHANGED <<db, edits, shown>>
         /\ Shows'
  BY DEF Cached, IInv, TypeOK, Shows, ItemShows, CommentShows, BlockShows, GeneralShows

\* A step of a view that fills no cache.
LEMMA ReadStep ==
  ASSUME IInv, NEW w \in Worker, Viewing(w),
         NEW g \in Goroutine, worker' = [worker EXCEPT ![w] = g],
         Formed(g), g.op \in {View, "none"}, g.op = View => ReadsCurrent(g),
         UNCHANGED <<db, Cached, edits, shown>>
  PROVE  IInv'
  BY NothingFilled, ViewStep

\* What a view has read stays read; its step may have read one thing more.
LEMMA ReadsPast ==
  ASSUME NEW h \in Goroutine, NEW g \in Goroutine, NEW l, ReadsCurrent(h),
         Left(h.todo) = {l} \cup Left(g.todo),
         \/ g.draft.item = h.draft.item /\ l \notin {"item", "itemRead"}
         \/ "item" \in shown => g.draft.item = db.content.item,
         \/ g.draft.comment = h.draft.comment /\ l # "comment"
         \/ "comment" \in shown => g.draft.comment = db.content.comment,
         \/ g.draft.block = h.draft.block /\ l \notin {"block", "blockRead"}
         \/ "block" \in shown => g.draft.block = db.content.block,
         \/ g.conf = h.conf /\ l # "generalRead"
         \/ "general" \in shown => g.conf = db.general
         \/ "generalFill" \notin Left(g.todo),
         \/ g.on = h.on /\ l # "toggleRead"
         \/ "general" \in shown => g.on = db.general.memory
         \/ "toggleSet" \notin Left(g.todo)
  PROVE  ReadsCurrent(g)
<1>1. "item" \in shown /\ "itemRead" \notin Left(g.todo)
        /\ ("itemFill" \in Left(g.todo) \/ "item" \notin Left(g.todo))
      => g.draft.item = db.content.item
  BY DEF ReadsCurrent
<1>2. "comment" \in shown /\ "comment" \notin Left(g.todo)
      => g.draft.comment = db.content.comment
  BY DEF ReadsCurrent
<1>3. "block" \in shown /\ "blockRead" \notin Left(g.todo)
        /\ ("blockFill" \in Left(g.todo) \/ "block" \notin Left(g.todo))
      => g.draft.block = db.content.block
  BY DEF ReadsCurrent
<1>4. "general" \in shown /\ "generalRead" \notin Left(g.todo) /\ "generalFill" \in Left(g.todo)
      => g.conf = db.general
  BY DEF ReadsCurrent
<1>5. "general" \in shown /\ "toggleRead" \notin Left(g.todo) /\ "toggleSet" \in Left(g.todo)
      => g.on = db.general.memory
  BY DEF ReadsCurrent
<1>. QED
  BY <1>1, <1>2, <1>3, <1>4, <1>5 DEF ReadsCurrent

LEMMA ToggleReadHolds ==
  ASSUME IInv, NEW w \in Worker, ToggleRead(w)
  PROVE  IInv'
<1>1. Busy(w) /\ Head(worker[w].todo) = "toggleRead"
  BY DEF ToggleRead, At
<1>2. Viewing(w) /\ ReadsCurrent(worker[w])
  BY <1>1, ViewPast DEF ViewSteps
<1>3. PICK g : g = [Past(w) EXCEPT !.on = db.general.memory]
  OBVIOUS
<1>4. /\ g \in Goroutine /\ g.todo = Past(w).todo /\ g.op = Past(w).op /\ g.calm = Past(w).calm
      /\ g.conf = Past(w).conf /\ g.draft = Past(w).draft /\ g.on = db.general.memory
  <2>1. db.general.memory \in BOOLEAN
    BY DEF IInv, TypeOK, General
  <2>. QED
    BY <1>1, <1>3, <2>1, PastIs DEF Goroutine
<1>5. Formed(g) /\ g.op \in {View, "none"}
  BY <1>1, <1>4, PastIs, ViewPast DEF ViewSteps
<1>6. ASSUME g.op = View PROVE ReadsCurrent(g)
  <2>1. /\ worker[w] \in Goroutine
       /\ Left(worker[w].todo) = {Head(worker[w].todo)} \cup Left(g.todo)
    BY <1>1, <1>4, PastIs, AtStep
  <2>2. g.draft = worker[w].draft /\ g.conf = worker[w].conf
    BY <1>1, <1>4, <1>6, ViewPast DEF ViewSteps
  <2>. QED
    BY <1>1, <1>2, <1>4, <2>1, <2>2, ReadsPast
<1>7. worker' = [worker EXCEPT ![w] = g]
  BY <1>3 DEF ToggleRead, Then
<1>. QED
  BY <1>2, <1>4, <1>5, <1>6, <1>7, ReadStep DEF ToggleRead

LEMMA ReadGeneralHolds ==
  ASSUME IInv, NEW w \in Worker, ReadGeneral(w)
  PROVE  IInv'
<1>1. Busy(w) /\ Head(worker[w].todo) = "generalRead"
  BY DEF ReadGeneral, At
<1>2. Viewing(w) /\ ReadsCurrent(worker[w])
  BY <1>1, ViewPast DEF ViewSteps
<1>3. PICK g : g = [Past(w) EXCEPT !.conf = db.general]
  OBVIOUS
<1>4. /\ g \in Goroutine /\ g.todo = Past(w).todo /\ g.op = Past(w).op /\ g.calm = Past(w).calm
      /\ g.conf = db.general /\ g.draft = Past(w).draft /\ g.on = Past(w).on
  <2>1. db.general \in General
    BY DEF IInv, TypeOK
  <2>. QED
    BY <1>1, <1>3, <2>1, PastIs DEF Goroutine
<1>5. Formed(g) /\ g.op \in {View, "none"}
  BY <1>1, <1>4, PastIs, ViewPast DEF ViewSteps
<1>6. ASSUME g.op = View PROVE ReadsCurrent(g)
  <2>1. /\ worker[w] \in Goroutine
       /\ Left(worker[w].todo) = {Head(worker[w].todo)} \cup Left(g.todo)
    BY <1>1, <1>4, PastIs, AtStep
  <2>2. g.draft = worker[w].draft /\ g.on = worker[w].on
    BY <1>1, <1>4, <1>6, ViewPast DEF ViewSteps
  <2>. QED
    BY <1>1, <1>2, <1>4, <2>1, <2>2, ReadsPast
<1>7. worker' = [worker EXCEPT ![w] = g]
  BY <1>3 DEF ReadGeneral, Then
<1>. QED
  BY <1>2, <1>4, <1>5, <1>6, <1>7, ReadStep DEF ReadGeneral

\* A part of the page is read, or found in its cache.
LEMMA DraftStep ==
  ASSUME IInv, NEW w \in Worker, Busy(w),
         \/ Head(worker[w].todo) \in {"item", "itemRead"} /\ \E v \in Edition :
              /\ "item" \in shown => v = db.content.item
              /\ Then(w, [Past(w) EXCEPT !.draft.item = v])
         \/ Head(worker[w].todo) = "comment" /\ \E v \in Edition :
              /\ v = db.content.comment
              /\ Then(w, [Past(w) EXCEPT !.draft.comment = v])
         \/ Head(worker[w].todo) \in {"block", "blockRead"} /\ \E v \in Edition :
              /\ "block" \in shown => v = db.content.block
              /\ Then(w, [Past(w) EXCEPT !.draft.block = v]),
         UNCHANGED <<db, Cached, edits, shown>>
  PROVE  IInv'
<1>1. Head(worker[w].todo) \in ViewSteps
  BY DEF ViewSteps
<1>2. Viewing(w) /\ ReadsCurrent(worker[w])
  BY <1>1, ViewPast
<1>3. Past(w) \in Goroutine /\ Past(w).draft \in Content
  BY PastIs DEF Goroutine
<1>4. CASE Head(worker[w].todo) \in {"item", "itemRead"}
  <2>1. PICK v \in Edition : /\ "item" \in shown => v = db.content.item
                             /\ Then(w, [Past(w) EXCEPT !.draft.item = v])
    BY <1>4
  <2>2. PICK g : g = [Past(w) EXCEPT !.draft.item = v]
    OBVIOUS
  <2>3. /\ g \in Goroutine /\ g.todo = Past(w).todo /\ g.op = Past(w).op
        /\ g.calm = Past(w).calm /\ g.conf = Past(w).conf /\ g.on = Past(w).on
        /\ g.draft.item = v /\ g.draft.comment = Past(w).draft.comment
        /\ g.draft.block = Past(w).draft.block
    BY <2>2, <1>3 DEF Goroutine, Content
  <2>4. Formed(g) /\ g.op \in {View, "none"}
    BY <1>1, <2>3, PastIs, ViewPast
  <2>5. ASSUME g.op = View PROVE ReadsCurrent(g)
    <3>1. /\ worker[w] \in Goroutine
         /\ Left(worker[w].todo) = {Head(worker[w].todo)} \cup Left(g.todo)
      BY <1>1, <2>3, PastIs, AtStep
    <3>2. g.draft.comment = worker[w].draft.comment /\ g.draft.block = worker[w].draft.block /\ g.conf = worker[w].conf /\ g.on = worker[w].on
      BY <1>1, <2>3, <2>5, ViewPast
    <3>. QED
      BY <1>2, <1>4, <2>1, <2>3, <3>1, <3>2, ReadsPast
  <2>. QED
    BY <1>2, <2>1, <2>2, <2>3, <2>4, <2>5, ReadStep DEF Then
<1>5. CASE Head(worker[w].todo) = "comment"
  <2>1. PICK v \in Edition : /\ v = db.content.comment
                             /\ Then(w, [Past(w) EXCEPT !.draft.comment = v])
    BY <1>5
  <2>2. PICK g : g = [Past(w) EXCEPT !.draft.comment = v]
    OBVIOUS
  <2>3. /\ g \in Goroutine /\ g.todo = Past(w).todo /\ g.op = Past(w).op
        /\ g.calm = Past(w).calm /\ g.conf = Past(w).conf /\ g.on = Past(w).on
        /\ g.draft.comment = v /\ g.draft.item = Past(w).draft.item
        /\ g.draft.block = Past(w).draft.block
    BY <2>2, <1>3 DEF Goroutine, Content
  <2>4. Formed(g) /\ g.op \in {View, "none"}
    BY <1>1, <2>3, PastIs, ViewPast
  <2>5. ASSUME g.op = View PROVE ReadsCurrent(g)
    <3>1. /\ worker[w] \in Goroutine
         /\ Left(worker[w].todo) = {Head(worker[w].todo)} \cup Left(g.todo)
      BY <1>1, <2>3, PastIs, AtStep
    <3>2. g.draft.item = worker[w].draft.item /\ g.draft.block = worker[w].draft.block /\ g.conf = worker[w].conf /\ g.on = worker[w].on
      BY <1>1, <2>3, <2>5, ViewPast
    <3>. QED
      BY <1>2, <1>5, <2>1, <2>3, <3>1, <3>2, ReadsPast
  <2>. QED
    BY <1>2, <2>1, <2>2, <2>3, <2>4, <2>5, ReadStep DEF Then
<1>6. CASE Head(worker[w].todo) \in {"block", "blockRead"}
  <2>1. PICK v \in Edition : /\ "block" \in shown => v = db.content.block
                             /\ Then(w, [Past(w) EXCEPT !.draft.block = v])
    BY <1>6
  <2>2. PICK g : g = [Past(w) EXCEPT !.draft.block = v]
    OBVIOUS
  <2>3. /\ g \in Goroutine /\ g.todo = Past(w).todo /\ g.op = Past(w).op
        /\ g.calm = Past(w).calm /\ g.conf = Past(w).conf /\ g.on = Past(w).on
        /\ g.draft.block = v /\ g.draft.comment = Past(w).draft.comment
        /\ g.draft.item = Past(w).draft.item
    BY <2>2, <1>3 DEF Goroutine, Content
  <2>4. Formed(g) /\ g.op \in {View, "none"}
    BY <1>1, <2>3, PastIs, ViewPast
  <2>5. ASSUME g.op = View PROVE ReadsCurrent(g)
    <3>1. /\ worker[w] \in Goroutine
         /\ Left(worker[w].todo) = {Head(worker[w].todo)} \cup Left(g.todo)
      BY <1>1, <2>3, PastIs, AtStep
    <3>2. g.draft.comment = worker[w].draft.comment /\ g.draft.item = worker[w].draft.item /\ g.conf = worker[w].conf /\ g.on = worker[w].on
      BY <1>1, <2>3, <2>5, ViewPast
    <3>. QED
      BY <1>2, <1>6, <2>1, <2>3, <3>1, <3>2, ReadsPast
  <2>. QED
    BY <1>2, <2>1, <2>2, <2>3, <2>4, <2>5, ReadStep DEF Then
<1>. QED
  BY <1>4, <1>5, <1>6

LEMMA ReadsHold ==
  ASSUME IInv, NEW w \in Worker, ReadItem(w) \/ ReadComments(w) \/ ReadBlocks(w)
  PROVE  IInv'
<1>1. /\ db.content.item \in Edition /\ db.content.comment \in Edition
      /\ db.content.block \in Edition
  BY DEF IInv, TypeOK, Content
<1>2. CASE ReadItem(w)
  BY <1>1, <1>2, DraftStep DEF ReadItem, At
<1>3. CASE ReadComments(w)
  BY <1>1, <1>3, DraftStep DEF ReadComments, At
<1>4. CASE ReadBlocks(w)
  BY <1>1, <1>4, DraftStep DEF ReadBlocks, At
<1>. QED
  BY <1>2, <1>3, <1>4

\* Steps are put in before what is left: what has been read stays read.
LEMMA ReadsPut ==
  ASSUME NEW h \in Goroutine, NEW g \in Goroutine, NEW l, NEW S, NEW R, ReadsCurrent(h),
         Left(h.todo) = {l} \cup R, Left(g.todo) = S \cup R,
         g.draft = h.draft, g.conf = h.conf, g.on = h.on,
         \/ S = {"toggleRead", "toggleSet", l}
         \/ S = {"generalRead", "generalFill"} /\ l = "general"
         \/ S = {"itemRead", "itemFill"} /\ l = "item"
         \/ S \in {{"blockRead", "blockFill"}, {"blockRead"}} /\ l = "block"
  PROVE  ReadsCurrent(g)
<1>1. CASE S = {"toggleRead", "toggleSet", l}
  BY <1>1 DEF ReadsCurrent
<1>2. CASE S = {"generalRead", "generalFill"} /\ l = "general"
  BY <1>2 DEF ReadsCurrent
<1>3. CASE S = {"itemRead", "itemFill"} /\ l = "item"
  BY <1>3 DEF ReadsCurrent
<1>4. CASE S \in {{"blockRead", "blockFill"}, {"blockRead"}} /\ l = "block"
  BY <1>4 DEF ReadsCurrent
<1>. QED
  BY <1>1, <1>2, <1>3, <1>4

\* A step that is replaced by others.
LEMMA PutStep ==
  ASSUME IInv, NEW w \in Worker, Busy(w), NEW steps \in Seq(Label), Instead(w, steps),
         Ordered(steps), "keep" \notin Left(steps), steps # <<>>,
         \/ Head(worker[w].todo) \in {"general", "generalFill", "block"}
              /\ Left(steps) = {"toggleRead", "toggleSet", Head(worker[w].todo)}
         \/ Left(steps) = {"generalRead", "generalFill"} /\ Head(worker[w].todo) = "general"
         \/ Left(steps) = {"itemRead", "itemFill"} /\ Head(worker[w].todo) = "item"
         \/ Left(steps) \in {{"blockRead", "blockFill"}, {"blockRead"}}
              /\ Head(worker[w].todo) = "block",
         UNCHANGED <<db, Cached, edits, shown>>
  PROVE  IInv'
<1>1. /\ Head(worker[w].todo) \in ViewSteps
      /\ Head(worker[w].todo) \notin {"toggleRead", "toggleSet", "generalRead"}
      /\ Left(steps) \subseteq ViewSteps \ {"keep"}
  BY DEF ViewSteps
<1>2. Viewing(w) /\ ReadsCurrent(worker[w])
  BY <1>1, ViewPast
<1>3. PICK g : g = [worker[w] EXCEPT !.todo = steps \o Rest(w)]
  OBVIOUS
<1>4. /\ g \in Goroutine /\ Formed(g) /\ g.op = View
      /\ Left(g.todo) = Left(steps) \cup Left(Rest(w))
      /\ g.draft = worker[w].draft /\ g.conf = worker[w].conf /\ g.on = worker[w].on
  BY <1>1, <1>2, <1>3, InsteadIs
<1>5. ReadsCurrent(g)
  <2>1. /\ worker[w] \in Goroutine
        /\ Left(worker[w].todo) = {Head(worker[w].todo)} \cup Left(Rest(w))
    BY AtStep
  <2>. QED
    BY <1>2, <1>4, <2>1, ReadsPut
<1>6. worker' = [worker EXCEPT ![w] = g]
  BY <1>3 DEF Instead, Then
<1>. QED
  BY <1>2, <1>4, <1>5, <1>6, ReadStep

LEMMA NeedsToggleHolds ==
  ASSUME IInv, NEW w \in Worker, Busy(w), NeedsToggle(w),
         Head(worker[w].todo) \in {"general", "generalFill", "block"}
  PROVE  IInv'
<1>1. PICK l \in Label : l = Head(worker[w].todo)
  BY AtStep
<1>2. PICK s : s = <<"toggleRead", "toggleSet", l>>
  OBVIOUS
<1>3. s \in Seq(Label) /\ Ordered(s) /\ "keep" \notin Left(s) /\ s # <<>>
  BY <1>1, <1>2, PutIn
<1>4. Left(s) = {"toggleRead", "toggleSet", Head(worker[w].todo)}
  BY <1>1, <1>2, PutInLeft
<1>5. Instead(w, s) /\ UNCHANGED <<db, Cached, edits, shown>>
  BY <1>1, <1>2 DEF NeedsToggle
<1>. QED
  BY <1>3, <1>4, <1>5, PutStep

\* A step that has filled its cache, or found there what it needs.
LEMMA PastStep ==
  ASSUME IInv, NEW w \in Worker, Busy(w), Head(worker[w].todo) \in ViewSteps,
         Head(worker[w].todo) \notin {"item", "itemRead", "comment", "block", "blockRead",
                                      "generalRead", "toggleRead"},
         Proceed(w), UNCHANGED <<db, edits, shown>>,
         toggle' \in {"on", "off", "unknown"}, settings' \in General \cup {None},
         blocks' \in Edition \cup {None}, object' \in Edition \cup {None},
         page' \in [shows : Content, age : 0 .. PageTTL] \cup {None},
         Shows'
  PROVE  IInv'
<1>1. PICK g : g = Past(w)
  OBVIOUS
<1>2. /\ g \in Goroutine /\ g.todo = Rest(w) /\ Formed(g) /\ g.op \in {View, "none"}
      /\ worker' = [worker EXCEPT ![w] = g] /\ Viewing(w)
  BY <1>1, PastIs, ViewPast DEF Proceed, Then, Viewing
<1>3. ASSUME g.op = View PROVE ReadsCurrent(g)
  <2>1. /\ worker[w] \in Goroutine /\ ReadsCurrent(worker[w])
        /\ Left(worker[w].todo) = {Head(worker[w].todo)} \cup Left(g.todo)
    BY <1>2, AtStep, ViewPast
  <2>2. g.draft = worker[w].draft /\ g.conf = worker[w].conf /\ g.on = worker[w].on
    BY <1>1, <1>3, ViewPast
  <2>. QED
    BY <1>2, <2>1, <2>2, ReadsPast
<1>. QED
  BY <1>2, <1>3, ViewStep

LEMMA ToggleSetHolds ==
  ASSUME IInv, NEW w \in Worker, ToggleSet(w)
  PROVE  IInv'
<1>1. Busy(w) /\ Head(worker[w].todo) = "toggleSet"
  BY DEF ToggleSet, At
<1>2. Viewing(w) /\ ReadsCurrent(worker[w])
  BY <1>1, ViewPast DEF ViewSteps
<1>3. /\ Left(Rest(w)) \cap {"toggleRead", "toggleSet"} = {}
      /\ Left(worker[w].todo) = {"toggleSet"} \cup Left(Rest(w))
      /\ worker[w] \in Goroutine
  BY <1>1, AtStep, OrderedHead DEF Rest, Busy
<1>4. PICK g : g = [Past(w) EXCEPT !.on = Idle.on]
  OBVIOUS
<1>5. /\ g \in Goroutine /\ g.todo = Rest(w) /\ g.op = Past(w).op /\ g.calm = Past(w).calm
      /\ g.conf = Past(w).conf /\ g.draft = Past(w).draft
  BY <1>1, <1>4, PastIs DEF Goroutine, Idle
<1>6. Formed(g) /\ g.op \in {View, "none"}
  BY <1>1, <1>5, ViewPast DEF ViewSteps
<1>7. ASSUME g.op = View PROVE ReadsCurrent(g)
  <2>1. g.draft = worker[w].draft /\ g.conf = worker[w].conf
    BY <1>1, <1>5, <1>7, ViewPast DEF ViewSteps
  <2>. QED
    BY <1>2, <1>3, <1>5, <2>1, ReadsPast
<1>8. worker' = [worker EXCEPT ![w] = g]
  BY <1>4 DEF ToggleSet, Then
<1>9. "general" \in shown => worker[w].on = db.general.memory
  BY <1>2, <1>3 DEF ReadsCurrent
<1>10. toggle' \in {"on", "off", "unknown"} /\ toggle' = IF worker[w].on THEN "on" ELSE "off"
  BY DEF ToggleSet
<1>11. UNCHANGED <<db, settings, blocks, object, page, edits, shown>>
  BY DEF ToggleSet
<1>12. Shows'
  <2>1. "general" \in shown => toggle' \in {"unknown", Switch(db.general)}
    BY <1>9, <1>10 DEF Switch
  <2>. QED
    BY <1>11, <2>1 DEF IInv, Shows, ItemShows, CommentShows, BlockShows, GeneralShows, Switch
<1>. QED
  BY <1>2, <1>5, <1>6, <1>7, <1>8, <1>10, <1>11, <1>12, ViewStep DEF IInv, TypeOK

LEMMA LoadGeneralHolds ==
  ASSUME IInv, NEW w \in Worker, LoadGeneral(w)
  PROVE  IInv'
<1>1. Busy(w) /\ Head(worker[w].todo) = "general"
  BY DEF LoadGeneral, At
<1>2. CASE NeedsToggle(w)
  BY <1>1, <1>2, NeedsToggleHolds
<1>3. CASE toggle = "on" /\ settings # None /\ ~NeedsToggle(w)
  <2>1. Viewing(w) /\ ReadsCurrent(worker[w])
    BY <1>1, ViewPast DEF ViewSteps
  <2>2. PICK g : g = [Past(w) EXCEPT !.conf = settings]
    OBVIOUS
  <2>3. worker' = [worker EXCEPT ![w] = g] /\ UNCHANGED <<db, Cached, edits, shown>>
    BY <1>3, <2>2 DEF LoadGeneral, Then
  <2>4. settings \in General /\ ("general" \in shown => settings = db.general)
    BY <1>3 DEF IInv, TypeOK, Shows, GeneralShows
  <2>5. /\ g \in Goroutine /\ g.todo = Rest(w) /\ g.op = Past(w).op
        /\ g.calm = Past(w).calm /\ g.conf = settings /\ g.draft = Past(w).draft
        /\ g.on = Past(w).on
    BY <1>1, <2>2, <2>4, PastIs DEF Goroutine
  <2>6. Formed(g) /\ g.op \in {View, "none"}
    BY <1>1, <2>5, ViewPast DEF ViewSteps
  <2>7. ASSUME g.op = View PROVE ReadsCurrent(g)
    <3>1. /\ worker[w] \in Goroutine
          /\ Left(worker[w].todo) = {"general"} \cup Left(g.todo)
      BY <1>1, <2>5, AtStep
    <3>2. g.draft = worker[w].draft /\ g.on = worker[w].on
      BY <1>1, <2>5, <2>7, ViewPast DEF ViewSteps
    <3>. QED
      BY <2>1, <2>4, <2>5, <3>1, <3>2, ReadsPast
  <2>. QED
    BY <2>1, <2>3, <2>5, <2>6, <2>7, ReadStep
<1>4. CASE ~(toggle = "on" /\ settings # None) /\ ~NeedsToggle(w)
  <2>1. PICK s : s = <<"generalRead", "generalFill">>
    OBVIOUS
  <2>2. /\ s \in Seq(Label) /\ Ordered(s) /\ "keep" \notin Left(s) /\ s # <<>>
        /\ Left(s) = {"generalRead", "generalFill"}
    BY <2>1, PutIn, PutInLeft
  <2>3. Instead(w, s) /\ UNCHANGED <<db, Cached, edits, shown>>
    BY <1>4, <2>1 DEF LoadGeneral
  <2>. QED
    BY <1>1, <2>2, <2>3, PutStep
<1>. QED
  BY <1>2, <1>3, <1>4

LEMMA FillGeneralHolds ==
  ASSUME IInv, NEW w \in Worker, FillGeneral(w)
  PROVE  IInv'
<1>1. Busy(w) /\ Head(worker[w].todo) = "generalFill"
  BY DEF FillGeneral, At
<1>2. CASE NeedsToggle(w)
  BY <1>1, <1>2, NeedsToggleHolds
<1>3. CASE ~NeedsToggle(w)
  <2>1. /\ settings' \in {settings, worker[w].conf} /\ Proceed(w)
        /\ UNCHANGED <<db, toggle, blocks, object, page, edits, shown>>
    BY <1>3 DEF FillGeneral
  <2>2. worker[w].conf \in General
    BY <1>1, AtStep DEF Goroutine
  <2>3. "general" \in shown => worker[w].conf = db.general
    <3>1. ReadsCurrent(worker[w])
      BY <1>1, ViewPast DEF ViewSteps
    <3>2. /\ Left(worker[w].todo) = {"generalFill"} \cup Left(Rest(w))
          /\ "generalRead" \notin Left(Rest(w))
      BY <1>1, AtStep, OrderedHead DEF Rest, Busy
    <3>. QED
      BY <3>1, <3>2 DEF ReadsCurrent
  <2>4. Shows'
    BY <2>1, <2>3 DEF IInv, Shows, ItemShows, CommentShows, BlockShows, GeneralShows, Switch
  <2>5. settings' \in General \cup {None}
    BY <2>1, <2>2 DEF IInv, TypeOK
  <2>. QED
    BY <1>1, <2>1, <2>4, <2>5, PastStep DEF ViewSteps, IInv, TypeOK
<1>. QED
  BY <1>2, <1>3

\* A view's page drops out of the cache, or stays.
LEMMA PageOrNone ==
  ASSUME IInv, page' \in {page, None},
         UNCHANGED <<db, toggle, settings, blocks, object, edits, shown>>
  PROVE  /\ Shows'
         /\ toggle' \in {"on", "off", "unknown"} /\ settings' \in General \cup {None}
         /\ blocks' \in Edition \cup {None} /\ object' \in Edition \cup {None}
         /\ page' \in [shows : Content, age : 0 .. PageTTL] \cup {None}
         /\ UNCHANGED <<db, edits, shown>>
  BY DEF IInv, TypeOK, Shows, ItemShows, CommentShows, BlockShows, GeneralShows, Switch

LEMMA LookupHolds ==
  ASSUME IInv, NEW w \in Worker, Lookup(w)
  PROVE  IInv'
<1>1. Busy(w) /\ Head(worker[w].todo) = "page"
  BY DEF Lookup, At
<1>2. Viewing(w) /\ ReadsCurrent(worker[w])
  BY <1>1, ViewPast DEF ViewSteps
<1>3. UNCHANGED <<db, toggle, settings, blocks, object, edits, shown>>
  BY DEF Lookup
<1>4. ASSUME Then(w, [worker[w] EXCEPT !.todo = <<"item", "comment", "block">>, !.conf = Idle.conf]),
             UNCHANGED page
      PROVE  IInv'
  <2>1. PICK s : s = <<"item", "comment", "block">>
    OBVIOUS
  <2>2. /\ s \in Seq(Label) /\ Ordered(s) /\ s # <<>> /\ Left(s) = {"item", "comment", "block"}
    BY <2>1, PutIn, PutInLeft
  <2>3. PICK g : g = [worker[w] EXCEPT !.todo = s, !.conf = Idle.conf]
    OBVIOUS
  <2>4. /\ g \in Goroutine /\ g.todo = s /\ g.op = View /\ g.calm = worker[w].calm
    BY <1>1, <1>2, <2>2, <2>3, AtStep, IdleIs DEF Goroutine, Viewing
  <2>5. Formed(g)
    BY <1>2, <2>2, <2>4, NobodyCalm DEF Formed, MadeOf, ViewSteps, View
  <2>6. ReadsCurrent(g)
    BY <2>2, <2>4 DEF ReadsCurrent
  <2>7. worker' = [worker EXCEPT ![w] = g]
    BY <1>4, <2>1, <2>3 DEF Then
  <2>. QED
    BY <1>2, <1>3, <1>4, <2>4, <2>5, <2>6, <2>7, PageOrNone, ViewStep
<1>5. ASSUME Then(w, Idle), UNCHANGED page PROVE IInv'
  <2>1. worker' = [worker EXCEPT ![w] = Idle] /\ Idle.op # View
    BY <1>5, IdleIs DEF Then, View
  <2>. QED
    BY <1>2, <1>3, <1>5, <2>1, IdleIs, PageOrNone, ViewStep
<1>6. ASSUME Then(w, [Past(w) EXCEPT !.conf = Idle.conf]), page' = None PROVE IInv'
  <2>1. PICK g : g = [Past(w) EXCEPT !.conf = Idle.conf]
    OBVIOUS
  <2>2. /\ g \in Goroutine /\ g.todo = Rest(w) /\ g.op = Past(w).op /\ g.calm = Past(w).calm
        /\ g.draft = Past(w).draft /\ g.on = Past(w).on
    BY <1>1, <2>1, PastIs, IdleIs DEF Goroutine
  <2>3. Formed(g) /\ g.op \in {View, "none"}
    BY <1>1, <2>2, ViewPast DEF ViewSteps
  <2>4. ASSUME g.op = View PROVE ReadsCurrent(g)
    <3>1. /\ worker[w] \in Goroutine
          /\ Left(worker[w].todo) = {"page"} \cup Left(g.todo)
          /\ "generalFill" \notin Left(g.todo)
      BY <1>1, <2>2, AtStep, OrderedRest DEF Rest, Busy, Detour
    <3>2. g.draft = worker[w].draft /\ g.on = worker[w].on
      BY <1>1, <2>2, <2>4, ViewPast DEF ViewSteps
    <3>. QED
      BY <1>2, <2>2, <3>1, <3>2, ReadsPast
  <2>5. worker' = [worker EXCEPT ![w] = g]
    BY <1>6, <2>1 DEF Then
  <2>. QED
    BY <1>2, <1>3, <1>6, <2>2, <2>3, <2>4, <2>5, PageOrNone, ViewStep
<1>. QED
  BY <1>4, <1>5, <1>6 DEF Lookup

LEMMA LoadItemHolds ==
  ASSUME IInv, NEW w \in Worker, LoadItem(w)
  PROVE  IInv'
<1>1. Busy(w) /\ Head(worker[w].todo) = "item" /\ UNCHANGED <<db, Cached, edits, shown>>
  BY DEF LoadItem, At
<1>2. CASE object # None
  <2>1. object \in Edition /\ ("item" \in shown => object = db.content.item)
    BY <1>2 DEF IInv, TypeOK, Shows, ItemShows
  <2>2. Then(w, [Past(w) EXCEPT !.draft.item = object])
    BY <1>2 DEF LoadItem
  <2>. QED
    BY <1>1, <2>1, <2>2, DraftStep
<1>3. CASE object = None
  <2>1. PICK s : s = <<"itemRead", "itemFill">>
    OBVIOUS
  <2>2. /\ s \in Seq(Label) /\ Ordered(s) /\ "keep" \notin Left(s) /\ s # <<>>
        /\ Left(s) = {"itemRead", "itemFill"}
    BY <2>1, PutIn, PutInLeft
  <2>3. Instead(w, s)
    BY <1>3, <2>1 DEF LoadItem
  <2>. QED
    BY <1>1, <2>2, <2>3, PutStep
<1>. QED
  BY <1>2, <1>3

LEMMA FillItemHolds ==
  ASSUME IInv, NEW w \in Worker, FillItem(w)
  PROVE  IInv'
<1>1. Busy(w) /\ Head(worker[w].todo) = "itemFill"
  BY DEF FillItem, At
<1>2. /\ object' = worker[w].draft.item /\ Proceed(w)
      /\ UNCHANGED <<db, toggle, settings, blocks, page, edits, shown>>
  BY DEF FillItem
<1>3. object' \in Edition
  BY <1>1, <1>2, AtStep DEF Goroutine, Content
<1>4. "item" \in shown => object' = db.content.item
  <2>1. ReadsCurrent(worker[w])
    BY <1>1, ViewPast DEF ViewSteps
  <2>2. /\ Left(worker[w].todo) = {"itemFill"} \cup Left(Rest(w))
        /\ "itemRead" \notin Left(Rest(w))
    BY <1>1, AtStep, OrderedHead DEF Rest, Busy
  <2>. QED
    BY <1>2, <2>1, <2>2 DEF ReadsCurrent
<1>5. Shows'
  BY <1>2, <1>4 DEF IInv, Shows, ItemShows, CommentShows, BlockShows, GeneralShows, Switch
<1>. QED
  BY <1>1, <1>2, <1>3, <1>5, PastStep DEF ViewSteps, IInv, TypeOK

LEMMA LoadBlocksHolds ==
  ASSUME IInv, NEW w \in Worker, LoadBlocks(w)
  PROVE  IInv'
<1>1. Busy(w) /\ Head(worker[w].todo) = "block"
  BY DEF LoadBlocks, At
<1>2. CASE NeedsToggle(w)
  BY <1>1, <1>2, NeedsToggleHolds
<1>3. ASSUME blocks # None, Then(w, [Past(w) EXCEPT !.draft.block = blocks]),
             UNCHANGED <<db, Cached, edits, shown>>
      PROVE  IInv'
  <2>1. blocks \in Edition /\ ("block" \in shown => blocks = db.content.block)
    BY <1>3 DEF IInv, TypeOK, Shows, BlockShows
  <2>. QED
    BY <1>1, <1>3, <2>1, DraftStep
<1>4. ASSUME Instead(w, <<"blockRead", "blockFill">>), UNCHANGED <<db, Cached, edits, shown>>
      PROVE  IInv'
  <2>1. PICK s : s = <<"blockRead", "blockFill">>
    OBVIOUS
  <2>2. /\ s \in Seq(Label) /\ Ordered(s) /\ "keep" \notin Left(s) /\ s # <<>>
        /\ Left(s) = {"blockRead", "blockFill"}
    BY <2>1, PutIn, PutInLeft
  <2>. QED
    BY <1>1, <1>4, <2>1, <2>2, PutStep
<1>5. ASSUME Instead(w, <<"blockRead">>), UNCHANGED <<db, Cached, edits, shown>>
      PROVE  IInv'
  <2>1. PICK s : s = <<"blockRead">>
    OBVIOUS
  <2>2. /\ s \in Seq(Label) /\ Ordered(s) /\ "keep" \notin Left(s) /\ s # <<>>
        /\ Left(s) = {"blockRead"}
    BY <2>1, PutIn, PutInLeft
  <2>. QED
    BY <1>1, <1>5, <2>1, <2>2, PutStep
<1>. QED
  BY <1>2, <1>3, <1>4, <1>5 DEF LoadBlocks

LEMMA FillBlocksHolds ==
  ASSUME IInv, NEW w \in Worker, FillBlocks(w)
  PROVE  IInv'
<1>1. Busy(w) /\ Head(worker[w].todo) = "blockFill"
  BY DEF FillBlocks, At
<1>2. /\ blocks' = worker[w].draft.block /\ Proceed(w)
      /\ UNCHANGED <<db, toggle, settings, object, page, edits, shown>>
  BY DEF FillBlocks
<1>3. blocks' \in Edition
  BY <1>1, <1>2, AtStep DEF Goroutine, Content
<1>4. "block" \in shown => blocks' = db.content.block
  <2>1. ReadsCurrent(worker[w])
    BY <1>1, ViewPast DEF ViewSteps
  <2>2. /\ Left(worker[w].todo) = {"blockFill"} \cup Left(Rest(w))
        /\ "blockRead" \notin Left(Rest(w))
    BY <1>1, AtStep, OrderedHead DEF Rest, Busy
  <2>. QED
    BY <1>2, <2>1, <2>2 DEF ReadsCurrent
<1>5. Shows'
  BY <1>2, <1>4 DEF IInv, Shows, ItemShows, CommentShows, BlockShows, GeneralShows, Switch
<1>. QED
  BY <1>1, <1>2, <1>3, <1>5, PastStep DEF ViewSteps, IInv, TypeOK

LEMMA KeepHolds ==
  ASSUME IInv, NEW w \in Worker, Keep(w)
  PROVE  IInv'
<1>1. Busy(w) /\ Head(worker[w].todo) = "keep"
  BY DEF Keep, At
<1>2. /\ page' \in {page, [shows |-> worker[w].draft, age |-> 0]} /\ Proceed(w)
      /\ UNCHANGED <<db, toggle, settings, blocks, object, edits, shown>>
  BY DEF Keep
<1>3. worker[w].draft \in Content
  BY <1>1, AtStep DEF Goroutine
<1>4. page' \in [shows : Content, age : 0 .. PageTTL] \cup {None}
  BY <1>2, <1>3 DEF IInv, TypeOK
<1>5. /\ "item" \in shown => worker[w].draft.item = db.content.item
      /\ "comment" \in shown => worker[w].draft.comment = db.content.comment
      /\ "block" \in shown => worker[w].draft.block = db.content.block
  <2>1. ReadsCurrent(worker[w])
    BY <1>1, ViewPast DEF ViewSteps
  <2>2. Left(worker[w].todo) = {"keep"}
    BY <1>1, AtStep, OrderedHead, LeftNone DEF Rest, Busy
  <2>. QED
    BY <2>1, <2>2 DEF ReadsCurrent
<1>6. page' = page \/ page'.shows = worker[w].draft
  BY <1>2
<1>7. Shows'
  BY <1>2, <1>5, <1>6
     DEF IInv, Shows, ItemShows, CommentShows, BlockShows, GeneralShows, Switch
<1>. QED
  BY <1>1, <1>2, <1>4, <1>7, PastStep DEF ViewSteps, IInv, TypeOK

\* A change at one of its steps: it writes or drops something, and shows once it was its
\* last one, if it was calm.
LEMMA ChangeStep ==
  ASSUME IInv, NEW w \in Worker, Busy(w), Head(worker[w].todo) \notin ViewSteps,
         Proceed(w), Settle(w), edits' = edits,
         db' \in [content : Content, general : General],
         toggle' \in {"on", "off", "unknown"}, settings' \in General \cup {None},
         blocks' \in Edition \cup {None}, object' \in Edition \cup {None},
         page' \in [shows : Content, age : 0 .. PageTTL] \cup {None},
         "item" \in shown => db'.content.item = db.content.item /\ ItemShows',
         "comment" \in shown => db'.content.comment = db.content.comment,
         "comment" \in shown => CommentShows',
         "block" \in shown => db'.content.block = db.content.block /\ BlockShows',
         "general" \in shown => db'.general = db.general /\ GeneralShows',
         \A u \in Worker \ {w} : worker[u].calm =>
           Achieved(worker[u].op, worker[u].conf, Left(worker[u].todo))',
         NEW op, op = worker[w].op, NEW conf, conf = worker[w].conf,
         NEW L, L = Left(Rest(w)),
         worker[w].calm => Achieved(op, conf, L)'
  PROVE  IInv'
<1>1. op \in Change /\ op \in Does[w]
  BY AtStep DEF IInv, Goroutines, Change
<1>2. PICK g : g = Past(w)
  OBVIOUS
<1>3. /\ worker' \in [Worker -> Goroutine] /\ worker'[w] = g
      /\ \A u \in Worker \ {w} : worker'[u] = worker[u]
  <2>1. worker \in [Worker -> Goroutine] /\ worker' = [worker EXCEPT ![w] = g] /\ g \in Goroutine
    BY <1>2, PastIs DEF IInv, TypeOK, Proceed, Then
  <2>. QED
    BY <2>1
<1>4. /\ g.todo = Rest(w) /\ Formed(g) /\ g.op \in {op, "none"}
      /\ Rest(w) # <<>> => g.op = op /\ g.calm = worker[w].calm /\ g.conf = conf
      /\ Rest(w) = <<>> => g.op = "none" /\ ~g.calm
  BY <1>2, PastIs
<1>5. \/ shown' = shown
      \/ shown' = shown \cup SeesTo(op) /\ Rest(w) = <<>> /\ worker[w].calm
  BY AtStep DEF Settle
<1>6. worker[w].calm => Alone(w)
  BY DEF IInv, Goroutines
<1>7. TypeOK'
  <2>1. SeesTo(op) \subseteq Source
    BY <1>1, TouchesIs DEF Change, Source
  <2>2. shown' \subseteq Source
    BY <1>5, <2>1 DEF IInv, TypeOK
  <2>. QED
    BY <1>3, <2>2 DEF IInv, TypeOK
<1>8. ASSUME NEW u \in Worker
      PROVE  /\ worker'[u].op \in Does[u] \cup {"none"}
             /\ Formed(worker'[u])
             /\ worker'[u].op \in {worker[u].op, "none"}
             /\ worker'[u].calm => worker[u].calm
  <2>1. CASE u = w
    BY <1>1, <1>3, <1>4, <2>1
  <2>2. CASE u # w
    BY <1>3, <2>2 DEF IInv, Goroutines
  <2>. QED
    BY <2>1, <2>2
<1>9. ASSUME NEW u \in Worker PROVE Touches(worker'[u].op) \cap shown' = {}
  <2>1. Touches(worker'[u].op) \cap shown = {}
    BY <1>8, TouchesIs DEF IInv, Goroutines
  <2>2. ASSUME shown' # shown PROVE Touches(worker'[u].op) \cap Touches(op) = {}
    <3>1. CASE u = w
      BY <1>3, <1>4, <1>5, <2>2, <3>1, TouchesIs
    <3>2. CASE u # w
      BY <1>3, <1>5, <1>6, <2>2, <3>2 DEF Alone
    <3>. QED
      BY <3>1, <3>2
  <2>. QED
    BY <1>5, <2>1, <2>2, TouchesIs
<1>10. ASSUME NEW u \in Worker, Viewing(u)' PROVE ReadsCurrent(worker[u])'
  <2>1. u # w /\ Viewing(u) /\ worker'[u] = worker[u]
    BY <1>1, <1>3, <1>4, <1>10 DEF Viewing, View, Change
  <2>2. shown' = shown
    BY <1>5, <1>6, <2>1 DEF Alone
  <2>3. ReadsCurrent(worker[u])
    BY <2>1 DEF IInv, Goroutines
  <2>. QED
    BY <2>1, <2>2, <2>3 DEF ReadsCurrent
<1>11. ASSUME NEW u \in Worker, worker'[u].calm PROVE Alone(u)'
  <2>1. worker[u].calm /\ Alone(u)
    BY <1>8, <1>11 DEF IInv, Goroutines
  <2>2. \A x \in Worker : ~Viewing(x)'
    BY <1>8, <2>1 DEF Alone, Viewing, View
  <2>3. ASSUME NEW x \in Worker \ {u}
        PROVE  Touches(worker'[x].op) \cap Touches(worker'[u].op) = {}
    <3>1. Touches(worker[x].op) \cap Touches(worker[u].op) = {}
      BY <2>1 DEF Alone
    <3>. QED
      BY <1>8, <3>1, TouchesIs
  <2>. QED
    BY <2>2, <2>3 DEF Alone
<1>12. ASSUME NEW u \in Worker, worker'[u].calm
       PROVE  Achieved(worker[u].op, worker[u].conf, Left(worker[u].todo))'
  <2>1. CASE u = w
    <3>1. /\ worker'[u].op = op /\ worker'[u].conf = conf /\ Left(worker'[u].todo) = L
          /\ worker[w].calm
      BY <1>3, <1>4, <1>12, <2>1
    <3>. QED
      BY <3>1 DEF Achieved
  <2>2. CASE u # w
    BY <1>8, <1>12, <2>2
  <2>. QED
    BY <2>1, <2>2
<1>13. Goroutines'
  BY <1>8, <1>9, <1>10, <1>11, <1>12 DEF Goroutines
<1>14. ASSUME shown' # shown
       PROVE  /\ Achieved(op, conf, {})' /\ worker[w].calm
              /\ shown' = shown \cup SeesTo(op) /\ SeesTo(op) \subseteq Touches(op)
  BY <1>5, <1>14, LeftNone, TouchesIs
<1>15. Shows'
  <2>1. ASSUME "item" \in shown', "item" \notin shown PROVE ItemShows'
    <3>1. op \in {"edit", "restore"}
      BY <1>1, <1>14, <2>1, TouchesIs DEF Change
    <3>. QED
      BY <1>14, <2>1, <3>1 DEF Achieved, Saves, ItemShows
  <2>2. ASSUME "comment" \in shown', "comment" \notin shown PROVE CommentShows'
    <3>1. op = "comment"
      BY <1>1, <1>14, <2>2, TouchesIs DEF Change
    <3>. QED
      BY <1>14, <2>2, <3>1 DEF Achieved, Saves, CommentShows
  <2>3. ASSUME "block" \in shown', "block" \notin shown PROVE BlockShows'
    <3>1. op = "block"
      BY <1>1, <1>14, <2>3, TouchesIs DEF Change
    <3>. QED
      BY <1>14, <2>3, <3>1 DEF Achieved, Saves, BlockShows
  <2>4. ASSUME "general" \in shown', "general" \notin shown PROVE GeneralShows'
    <3>1. op = "general"
      BY <1>1, <1>14, <2>4, TouchesIs DEF Change
    <3>. QED
      BY <1>14, <2>4, <3>1 DEF Achieved, GeneralShows
  <2>. QED
    BY <2>1, <2>2, <2>3, <2>4 DEF Shows
<1>. QED
  BY <1>7, <1>13, <1>15 DEF IInv

LEMMA WriteHolds ==
  ASSUME IInv, NEW w \in Worker, Write(w)
  PROVE  IInv'
<1>1. /\ Busy(w) /\ Proceed(w) /\ Settle(w) /\ UNCHANGED <<Cached, edits>>
      /\ Head(worker[w].todo) \in {"writeItem", "writeComment", "writeBlock", "writeGeneral"}
  BY DEF Write, At
<1>2. Head(worker[w].todo) \notin ViewSteps
  BY <1>1 DEF ViewSteps
<1>3. /\ db \in [content : Content, general : General] /\ worker[w].conf \in General
      /\ Touches(worker[w].op) \cap shown = {}
  BY <1>1, AtStep DEF IInv, TypeOK, Goroutines, Goroutine
<1>4. MadeOf(worker[w].op, {Head(worker[w].todo)})
  BY <1>1, AtStep DEF MadeOf
<1>5. PICK op : op = worker[w].op
  OBVIOUS
<1>6. PICK conf : conf = worker[w].conf
  OBVIOUS
<1>7. PICK L : L = Left(Rest(w))
  OBVIOUS
<1>8. /\ db' \in [content : Content, general : General]
      /\ "item" \in shown => db'.content.item = db.content.item
      /\ "comment" \in shown => db'.content.comment = db.content.comment
      /\ "block" \in shown => db'.content.block = db.content.block
      /\ "general" \in shown => db'.general = db.general
      /\ op # "general" => db'.general = db.general
      /\ op = "general" => db'.general = conf
  <2>1. CASE At(w, "writeItem")
    <3>1. db' = [db EXCEPT !.content.item = @ + 1]
      BY <2>1 DEF Write, At
    <3>2. /\ db' \in [content : Content, general : General] /\ db'.general = db.general
          /\ db'.content.comment = db.content.comment /\ db'.content.block = db.content.block
      BY <1>3, <3>1 DEF Content, Edition
    <3>3. op \in {"edit", "restore"}
      BY <1>4, <1>5, <2>1 DEF At, MadeOf
    <3>. QED
      BY <1>3, <1>5, <3>2, <3>3, TouchesIs
  <2>2. CASE At(w, "writeComment")
    <3>1. db' = [db EXCEPT !.content.comment = @ + 1]
      BY <2>2 DEF Write, At
    <3>2. /\ db' \in [content : Content, general : General] /\ db'.general = db.general
          /\ db'.content.item = db.content.item /\ db'.content.block = db.content.block
      BY <1>3, <3>1 DEF Content, Edition
    <3>3. op \in {"comment", "moderate"}
      BY <1>4, <1>5, <2>2 DEF At, MadeOf
    <3>. QED
      BY <1>3, <1>5, <3>2, <3>3, TouchesIs
  <2>3. CASE At(w, "writeBlock")
    <3>1. db' = [db EXCEPT !.content.block = @ + 1]
      BY <2>3 DEF Write, At
    <3>2. /\ db' \in [content : Content, general : General] /\ db'.general = db.general
          /\ db'.content.item = db.content.item /\ db'.content.comment = db.content.comment
      BY <1>3, <3>1 DEF Content, Edition
    <3>3. op = "block"
      BY <1>4, <1>5, <2>3 DEF At, MadeOf
    <3>. QED
      BY <1>3, <1>5, <3>2, <3>3, TouchesIs
  <2>4. CASE At(w, "writeGeneral")
    <3>1. db' = [db EXCEPT !.general = worker[w].conf]
      BY <2>4 DEF Write, At
    <3>2. /\ db' \in [content : Content, general : General] /\ db'.general = conf
          /\ db'.content = db.content
      BY <1>3, <1>6, <3>1
    <3>3. op = "general"
      BY <1>4, <1>5, <2>4 DEF At, MadeOf
    <3>. QED
      BY <1>3, <1>5, <3>2, <3>3, TouchesIs
  <2>. QED
    BY <2>1, <2>2, <2>3, <2>4 DEF Write
<1>9. /\ UNCHANGED <<toggle, settings, blocks, object, page, edits>>
  BY <1>1 DEF Cached
<1>10. /\ "item" \in shown => ItemShows'
       /\ "comment" \in shown => CommentShows'
       /\ "block" \in shown => BlockShows'
       /\ "general" \in shown => GeneralShows'
  BY <1>8, <1>9 DEF IInv, Shows, ItemShows, CommentShows, BlockShows, GeneralShows
<1>11. ASSUME NEW u \in Worker \ {w}, worker[u].calm
       PROVE  Achieved(worker[u].op, worker[u].conf, Left(worker[u].todo))'
  <2>1. /\ Achieved(worker[u].op, worker[u].conf, Left(worker[u].todo))
        /\ Touches(worker[w].op) \cap Touches(worker[u].op) = {}
    BY <1>11 DEF IInv, Goroutines, Alone
  <2>2. worker[u].op = "general" => db'.general = db.general
    BY <1>5, <1>8, <2>1, TouchesIs
  <2>3. worker'[u] = worker[u]
    BY <1>1, <1>11 DEF Proceed, Then, IInv, TypeOK
  <2>. QED
    BY <1>9, <2>1, <2>2, <2>3 DEF Achieved
<1>12. worker[w].calm => Achieved(op, conf, L)'
  <2>1. worker[w].calm => Achieved(op, conf, {Head(worker[w].todo)} \cup L)
    BY <1>1, <1>5, <1>6, <1>7, AtStep DEF IInv, Goroutines
  <2>. QED
    BY <1>1, <1>8, <1>9, <2>1 DEF Achieved
<1>. QED
  BY <1>1, <1>2, <1>5, <1>6, <1>7, <1>8, <1>9, <1>10, <1>11, <1>12, ChangeStep DEF IInv, TypeOK

LEMMA DropHolds ==
  ASSUME IInv, NEW w \in Worker, Drop(w) \/ Flushes(w)
  PROVE  IInv'
<1>1. /\ Busy(w) /\ Proceed(w) /\ Settle(w) /\ UNCHANGED <<db, edits>>
      /\ Head(worker[w].todo) \in {"dropSettings", "dropBlocks", "dropToggle", "setToggle",
                                   "flushPages", "flushObjects"}
  BY DEF Drop, Flushes, At
<1>2. Head(worker[w].todo) \notin ViewSteps
  BY <1>1 DEF ViewSteps
<1>3. PICK op : op = worker[w].op
  OBVIOUS
<1>4. PICK conf : conf = worker[w].conf
  OBVIOUS
<1>5. PICK L : L = Left(Rest(w))
  OBVIOUS
<1>6. /\ settings' \in {settings, None} /\ blocks' \in {blocks, None}
      /\ object' \in {object, None} /\ page' \in {page, None}
      /\ toggle' \in {toggle, "unknown", Switch(conf)}
      /\ toggle' # toggle => toggle' = "unknown" \/ Head(worker[w].todo) = "setToggle"
      /\ Head(worker[w].todo) = "dropSettings" => settings' = None
      /\ Head(worker[w].todo) = "dropBlocks" => blocks' = None
      /\ Head(worker[w].todo) = "flushPages" => page' = None
      /\ Head(worker[w].todo) = "flushObjects" => object' = None
      /\ Head(worker[w].todo) = "setToggle" => toggle' = Switch(conf)
  BY <1>4 DEF Drop, Flushes, At, Switch
<1>7. /\ Head(worker[w].todo) = "setToggle" => op = "general"
      /\ Touches(op) \cap shown = {}
  BY <1>1, <1>3, AtStep DEF MadeOf, IInv, Goroutines
<1>8. /\ toggle' \in {"on", "off", "unknown"} /\ settings' \in General \cup {None}
      /\ blocks' \in Edition \cup {None} /\ object' \in Edition \cup {None}
      /\ page' \in [shows : Content, age : 0 .. PageTTL] \cup {None}
      /\ db \in [content : Content, general : General]
  BY <1>6 DEF IInv, TypeOK, Switch
<1>9. "general" \in shown => toggle' \in {toggle, "unknown"}
  BY <1>6, <1>7, TouchesIs
<1>10. /\ "item" \in shown => ItemShows'
       /\ "comment" \in shown => CommentShows'
       /\ "block" \in shown => BlockShows'
       /\ "general" \in shown => GeneralShows'
  BY <1>1, <1>6, <1>9 DEF IInv, Shows, ItemShows, CommentShows, BlockShows, GeneralShows
<1>11. ASSUME NEW u \in Worker \ {w}, worker[u].calm
       PROVE  Achieved(worker[u].op, worker[u].conf, Left(worker[u].todo))'
  <2>1. /\ Achieved(worker[u].op, worker[u].conf, Left(worker[u].todo))
        /\ Touches(op) \cap Touches(worker[u].op) = {}
    BY <1>3, <1>11 DEF IInv, Goroutines, Alone
  <2>2. worker[u].op = "general" => toggle' \in {toggle, "unknown"}
    BY <1>6, <1>7, <2>1, TouchesIs
  <2>3. worker'[u] = worker[u]
    BY <1>1, <1>11 DEF Proceed, Then, IInv, TypeOK
  <2>. QED
    BY <1>1, <1>6, <2>1, <2>2, <2>3 DEF Achieved
<1>12. worker[w].calm => Achieved(op, conf, L)'
  <2>1. worker[w].calm => Achieved(op, conf, {Head(worker[w].todo)} \cup L)
    BY <1>1, <1>3, <1>4, <1>5, AtStep DEF IInv, Goroutines
  <2>. QED
    BY <1>1, <1>6, <2>1 DEF Achieved
<1>. QED
  BY <1>1, <1>2, <1>3, <1>4, <1>5, <1>8, <1>10, <1>11, <1>12, ChangeStep

\* Operations that begin, and one that is given up.
LEMMA FailHolds ==
  ASSUME IInv, NEW w \in Worker, Fail(w)
  PROVE  IInv'
<1>1. /\ worker' = [worker EXCEPT ![w] = Idle] /\ UNCHANGED <<db, Cached, edits, shown>>
  BY DEF Fail, Then
<1>2. /\ worker' \in [Worker -> Goroutine] /\ worker'[w] = Idle
      /\ \A u \in Worker \ {w} : worker'[u] = worker[u]
  BY <1>1, IdleIs DEF IInv, TypeOK
<1>3. TypeOK' /\ Shows'
  BY <1>1, <1>2
     DEF Cached, IInv, TypeOK, Shows, ItemShows, CommentShows, BlockShows, GeneralShows
<1>4. ASSUME NEW u \in Worker
      PROVE  /\ worker'[u].op \in Does[u] \cup {"none"}
             /\ Formed(worker'[u])
             /\ Touches(worker'[u].op) \cap shown' = {}
             /\ Touches(worker'[u].op) \subseteq Touches(worker[u].op)
             /\ worker'[u].calm => u # w
             /\ Viewing(u)' => u # w
  <2>1. CASE u = w
    BY <1>2, <2>1, IdleIs, TouchesIs DEF Viewing, View
  <2>2. CASE u # w
    BY <1>1, <1>2, <2>2 DEF IInv, Goroutines
  <2>. QED
    BY <2>1, <2>2
<1>5. ASSUME NEW u \in Worker, Viewing(u)' PROVE ReadsCurrent(worker[u])'
  <2>1. worker'[u] = worker[u]
    BY <1>2, <1>4, <1>5
  <2>. QED
    BY <1>1, <1>5, <2>1 DEF IInv, Goroutines, Viewing, ReadsCurrent
<1>6. ASSUME NEW u \in Worker, worker'[u].calm PROVE Alone(u)'
  <2>1. u # w /\ worker'[u] = worker[u]
    BY <1>2, <1>4, <1>6
  <2>2. Alone(u)
    BY <1>6, <2>1 DEF IInv, Goroutines
  <2>3. \A x \in Worker : ~Viewing(x)'
    BY <1>2, <1>4, <2>2 DEF Alone, Viewing
  <2>4. \A x \in Worker \ {u} : Touches(worker'[x].op) \cap Touches(worker'[u].op) = {}
    BY <1>4, <2>1, <2>2 DEF Alone
  <2>. QED
    BY <2>3, <2>4 DEF Alone
<1>7. ASSUME NEW u \in Worker, worker'[u].calm
      PROVE  Achieved(worker[u].op, worker[u].conf, Left(worker[u].todo))'
  <2>1. worker'[u] = worker[u]
    BY <1>2, <1>4, <1>7
  <2>. QED
    BY <1>1, <1>7, <2>1 DEF IInv, Goroutines, Achieved, Cached
<1>8. Goroutines'
  BY <1>4, <1>5, <1>6, <1>7 DEF Goroutines
<1>. QED
  BY <1>3, <1>8 DEF IInv

\* An entry goes, or the page ages.
LEMMA AgingHolds ==
  ASSUME IInv, Evict \/ Tick \/ UNCHANGED vars
  PROVE  IInv'
<1>1. /\ settings' \in {settings, None} /\ blocks' \in {blocks, None}
      /\ object' \in {object, None} /\ UNCHANGED <<db, toggle, worker, edits, shown>>
  BY DEF Evict, Tick, vars
<1>2. page' \in {page, None} \/ (page # None /\ Tick)
  BY DEF Evict, Tick, Fresh, vars
<1>3. ASSUME page # None, Tick
      PROVE  /\ page' \in [shows : Content, age : 0 .. PageTTL]
             /\ page'.shows = page.shows
  <2>1. page \in [shows : Content, age : 0 .. PageTTL]
    BY <1>3 DEF IInv, TypeOK
  <2>2. page' = [page EXCEPT !.age = page.age + 1] /\ page.age < PageTTL
    BY <1>3 DEF Tick, Fresh
  <2>. QED
    BY <2>1, <2>2
<1>4. TypeOK'
  BY <1>1, <1>2, <1>3 DEF IInv, TypeOK
<1>5. Shows'
  BY <1>1, <1>2, <1>3 DEF IInv, Shows, ItemShows, CommentShows, BlockShows, GeneralShows
<1>6. page = None => page' = None
  BY <1>2
<1>7. ASSUME NEW u \in Worker
      PROVE  /\ Viewing(u)' => ReadsCurrent(worker[u])'
             /\ worker'[u].calm => Alone(u)'
  BY <1>1 DEF IInv, Goroutines, ReadsCurrent, Alone, Viewing
<1>8. ASSUME NEW u \in Worker, worker'[u].calm
      PROVE  Achieved(worker[u].op, worker[u].conf, Left(worker[u].todo))'
  BY <1>1, <1>6, <1>8 DEF IInv, Goroutines, Achieved
<1>9. Goroutines'
  BY <1>1, <1>7, <1>8 DEF IInv, Goroutines
<1>. QED
  BY <1>4, <1>5, <1>9 DEF IInv

\* The steps of an operation, as they are planned.
LEMMA FlushIs ==
  /\ Flush \in Seq(Label) /\ Left(Flush) = {"flushPages", "flushObjects"}
  /\ DropSite \in Seq(Label)
  /\ Left(DropSite) = {"dropSettings", "dropBlocks", "dropToggle", "flushPages", "flushObjects"}
<1>1. Flush \in Seq(Label) /\ Left(Flush) = {"flushPages", "flushObjects"}
  BY DEF Flush, Label, Left
<1>2. PICK s : s = <<"dropSettings", "dropBlocks", "dropToggle">>
  OBVIOUS
<1>3. s \in Seq(Label) /\ Left(s) = {"dropSettings", "dropBlocks", "dropToggle"}
  BY <1>2 DEF Label, Left
<1>4. s \o Flush \in Seq(Label) /\ Left(s \o Flush) = Left(s) \cup Left(Flush)
  BY <1>1, <1>3, LeftJoin
<1>5. DropSite = s \o Flush
  BY <1>2 DEF DropSite
<1>. QED
  BY <1>1, <1>3, <1>4, <1>5

\* A step before or after a flush.
LEMMA WithFlush ==
  ASSUME NEW l \in Label
  PROVE  /\ <<l>> \in Seq(Label) /\ Left(<<l>>) = {l}
         /\ <<l>> \o Flush \in Seq(Label) /\ Left(<<l>> \o Flush) = {l} \cup Left(Flush)
         /\ Flush \o <<l>> \in Seq(Label) /\ Left(Flush \o <<l>>) = {l} \cup Left(Flush)
<1>1. <<l>> \in Seq(Label) /\ Left(<<l>>) = {l}
  BY DEF Left
<1>2. PICK s \in Seq(Label) : s = <<l>>
  BY <1>1
<1>3. PICK f \in Seq(Label) : f = Flush
  BY FlushIs
<1>4. /\ s \o f \in Seq(Label) /\ Left(s \o f) = Left(s) \cup Left(f)
      /\ f \o s \in Seq(Label) /\ Left(f \o s) = Left(f) \cup Left(s)
  BY LeftJoin
<1>. QED
  BY <1>1, <1>2, <1>3, <1>4

LEMMA GeneralPlanIs ==
  ASSUME NEW g \in General, NEW t, t = Plan("general", g)
  PROVE  /\ t \in Seq(Label)
         /\ {"writeGeneral", "dropSettings", "setToggle"} \cup Left(Flush) \subseteq Left(t)
         /\ Left(t) \subseteq {"writeGeneral", "setToggle"} \cup Left(DropSite)
<1>1. PICK a : a = <<"writeGeneral", "dropSettings">>
  OBVIOUS
<1>2. PICK b : b = IF g.memory THEN <<>> ELSE DropSite
  OBVIOUS
<1>3. PICK c : c = <<"setToggle">>
  OBVIOUS
<1>4. /\ a \in Seq(Label) /\ Left(a) = {"writeGeneral", "dropSettings"}
      /\ c \in Seq(Label) /\ Left(c) = {"setToggle"}
  BY <1>1, <1>3 DEF Label, Left
<1>5. b \in Seq(Label) /\ Left(b) \subseteq Left(DropSite)
  BY <1>2, FlushIs, LeftNone
<1>6. t = a \o b \o c \o Flush
  BY <1>1, <1>2, <1>3, Zenon DEF Plan, View
<1>7. a \o b \in Seq(Label) /\ Left(a \o b) = Left(a) \cup Left(b)
  BY <1>4, <1>5, LeftJoin
<1>8. (a \o b) \o c \in Seq(Label) /\ Left((a \o b) \o c) = Left(a \o b) \cup Left(c)
  BY <1>4, <1>7, LeftJoin
<1>9. /\ ((a \o b) \o c) \o Flush \in Seq(Label)
      /\ Left(((a \o b) \o c) \o Flush) = Left((a \o b) \o c) \cup Left(Flush)
  BY <1>8, FlushIs, LeftJoin
<1>. QED
  BY <1>4, <1>5, <1>6, <1>7, <1>8, <1>9, FlushIs

LEMMA PlanIs ==
  ASSUME NEW op \in Change, NEW g \in General, NEW t, t = Plan(op, g)
  PROVE  /\ t \in Seq(Label) /\ Left(t) # {} /\ MadeOf(op, Left(t)) /\ Ordered(t)
         /\ op \in Saves => {"flushPages", "flushObjects"} \subseteq Left(t)
         /\ op = "block" => "dropBlocks" \in Left(t)
         /\ op = "general" => {"writeGeneral", "dropSettings", "setToggle"} \subseteq Left(t)
<1>1. ASSUME t \in Seq(Label), Left(t) # {}, Left(t) \cap ViewSteps = {}
      PROVE  Ordered(t)
  BY <1>1, OrderedPlain DEF ViewSteps, Detour
<1>2. CASE op = "edit"
  <2>1. t = <<"writeItem">> \o Flush
    BY <1>2, Zenon DEF Plan, View
  <2>2. t \in Seq(Label) /\ Left(t) = {"writeItem", "flushPages", "flushObjects"}
    BY <2>1, WithFlush, FlushIs DEF Label
  <2>. QED
    BY <1>1, <1>2, <2>2 DEF MadeOf, ViewSteps, Saves
<1>3. CASE op = "restore"
  <2>1. t = Flush \o <<"writeItem">>
    BY <1>3, Zenon DEF Plan, View
  <2>2. t \in Seq(Label) /\ Left(t) = {"writeItem", "flushPages", "flushObjects"}
    BY <2>1, WithFlush, FlushIs DEF Label
  <2>. QED
    BY <1>1, <1>3, <2>2 DEF MadeOf, ViewSteps, Saves
<1>4. CASE op = "comment"
  <2>1. t = <<"writeComment">> \o Flush
    BY <1>4, Zenon DEF Plan, View
  <2>2. t \in Seq(Label) /\ Left(t) = {"writeComment", "flushPages", "flushObjects"}
    BY <2>1, WithFlush, FlushIs DEF Label
  <2>. QED
    BY <1>1, <1>4, <2>2 DEF MadeOf, ViewSteps, Saves
<1>5. CASE op = "moderate"
  <2>1. t = <<"writeComment">>
    BY <1>5, Zenon DEF Plan, View
  <2>2. t \in Seq(Label) /\ Left(t) = {"writeComment"}
    BY <2>1, WithFlush DEF Label
  <2>. QED
    BY <1>1, <1>5, <2>2 DEF MadeOf, ViewSteps, Saves
<1>6. CASE op = "block"
  <2>1. PICK s : s = <<"writeBlock", "dropBlocks">>
    OBVIOUS
  <2>2. t = s \o Flush
    BY <1>6, <2>1, Zenon DEF Plan, View
  <2>3. s \in Seq(Label) /\ Left(s) = {"writeBlock", "dropBlocks"}
    BY <2>1 DEF Label, Left
  <2>4. t \in Seq(Label) /\ Left(t) = {"writeBlock", "dropBlocks", "flushPages", "flushObjects"}
    BY <2>2, <2>3, LeftJoin, FlushIs
  <2>. QED
    BY <1>1, <1>6, <2>4 DEF MadeOf, ViewSteps, Saves
<1>7. CASE op = "general"
  BY <1>1, <1>7, GeneralPlanIs, FlushIs DEF MadeOf, ViewSteps, Saves
<1>8. CASE op = "reload"
  <2>1. t = DropSite
    BY <1>8, Zenon DEF Plan, View
  <2>2. /\ t \in Seq(Label)
        /\ Left(t) = {"dropSettings", "dropBlocks", "dropToggle", "flushPages", "flushObjects"}
    BY <2>1, FlushIs
  <2>. QED
    BY <1>1, <1>8, <2>2 DEF MadeOf, ViewSteps, Saves
<1>. QED
  BY <1>2, <1>3, <1>4, <1>5, <1>6, <1>7, <1>8 DEF Change

LEMMA ViewPlanIs ==
  ASSUME NEW g, NEW t, t = Plan(View, g)
  PROVE  /\ t \in Seq(Label) /\ Left(t) = {"general", "page", "item", "comment", "block", "keep"}
         /\ Ordered(t)
<1>1. t = <<"general", "page", "item", "comment", "block", "general", "keep">>
  BY Zenon DEF Plan, View
<1>2. /\ t \in Seq(Label) /\ Left(t) = {"general", "page", "item", "comment", "block", "keep"}
  BY <1>1 DEF Label, Left
<1>3. Ordered(t)
  BY <1>1 DEF Ordered
<1>. QED
  BY <1>2, <1>3

LEMMA BeginViewHolds ==
  ASSUME IInv, NEW w \in Worker, BeginView(w)
  PROVE  IInv'
<1>1. PICK g : g = [Idle EXCEPT !.op = View, !.todo = Plan(View, Idle.conf)]
  OBVIOUS
<1>2. /\ g \in Goroutine /\ g.op = View /\ g.todo = Plan(View, Idle.conf) /\ g.calm = Idle.calm
  BY <1>1, IdleIs, ViewPlanIs DEF Goroutine
<1>3. /\ View \in Does[w] /\ UNCHANGED <<db, Cached, edits, shown>>
      /\ worker' = [u \in Worker |-> IF u = w THEN g ELSE [worker[u] EXCEPT !.calm = FALSE]]
  BY <1>1 DEF BeginView
<1>4. worker'[w] = g
  BY <1>3
<1>5. ASSUME NEW u \in Worker, u # w
      PROVE  /\ worker'[u] \in Goroutine /\ worker'[u].op = worker[u].op
             /\ worker'[u].todo = worker[u].todo /\ worker'[u].conf = worker[u].conf
             /\ worker'[u].draft = worker[u].draft /\ worker'[u].on = worker[u].on
             /\ ~worker'[u].calm
  <2>1. worker[u] \in Goroutine
    BY DEF IInv, TypeOK
  <2>2. PICK h : h = [worker[u] EXCEPT !.calm = FALSE]
    OBVIOUS
  <2>3. worker'[u] = h
    BY <1>3, <1>5, <2>2
  <2>4. /\ h \in Goroutine /\ h.op = worker[u].op /\ h.todo = worker[u].todo
        /\ h.conf = worker[u].conf /\ h.draft = worker[u].draft /\ h.on = worker[u].on
    BY <2>1, <2>2 DEF Goroutine
  <2>5. ~h.calm
    BY <2>1, <2>2 DEF Goroutine
  <2>. QED
    BY <2>3, <2>4, <2>5
<1>6. Formed(g)
  <2>1. g.todo # <<>>
    BY <1>2, ViewPlanIs, LeftNone
  <2>2. MadeOf(View, Left(g.todo)) /\ Ordered(g.todo)
    BY <1>2, ViewPlanIs DEF MadeOf, ViewSteps
  <2>. QED
    BY <1>2, <2>1, <2>2, IdleIs DEF Formed, View
<1>7. TypeOK'
  <2>1. worker' \in [Worker -> Goroutine]
    <3>1. \A u \in Worker : worker'[u] \in Goroutine
      BY <1>2, <1>4, <1>5
    <3>2. worker' = [u \in Worker |-> worker'[u]]
      BY <1>3
    <3>. QED
      BY <3>1, <3>2
  <2>. QED
    BY <1>3, <2>1 DEF Cached, IInv, TypeOK
<1>8. ASSUME NEW u \in Worker PROVE ~worker'[u].calm
  BY <1>2, <1>4, <1>5, IdleIs
<1>9. ASSUME NEW u \in Worker
      PROVE  /\ worker'[u].op \in Does[u] \cup {"none"}
             /\ Formed(worker'[u])
             /\ Touches(worker'[u].op) \cap shown' = {}
             /\ Viewing(u)' => ReadsCurrent(worker[u])'
  <2>1. CASE u = w
    <3>1. ReadsCurrent(worker[u])'
      BY <1>2, <1>4, <2>1, ViewPlanIs DEF ReadsCurrent
    <3>. QED
      BY <1>2, <1>3, <1>4, <1>6, <2>1, <3>1, TouchesIs
  <2>2. CASE u # w
    <3>1. Formed(worker[u]) /\ worker[u].op \in Does[u] \cup {"none"}
          /\ Touches(worker[u].op) \cap shown = {}
      BY DEF IInv, Goroutines
    <3>2. Formed(worker'[u])
      BY <1>5, <2>2, <3>1 DEF Formed
    <3>3. ASSUME Viewing(u)' PROVE ReadsCurrent(worker[u])'
      <4>1. ReadsCurrent(worker[u])
        BY <1>5, <2>2, <3>3 DEF IInv, Goroutines, Viewing
      <4>2. shown' = shown /\ db' = db
        BY <1>3
      <4>. QED
        BY <1>5, <2>2, <4>1, <4>2 DEF ReadsCurrent
    <3>. QED
      BY <1>3, <1>5, <2>2, <3>1, <3>2, <3>3
  <2>. QED
    BY <2>1, <2>2
<1>10. Goroutines'
  BY <1>8, <1>9 DEF Goroutines
<1>11. Shows'
  BY <1>3 DEF Cached, IInv, Shows, ItemShows, CommentShows, BlockShows, GeneralShows
<1>. QED
  BY <1>7, <1>10, <1>11 DEF IInv

LEMMA BeginChangeHolds ==
  ASSUME IInv, NEW w \in Worker, BeginChange(w)
  PROVE  IInv'
<1>1. PICK op \in Does[w] \ {View}, c \in General :
        /\ worker' = [u \in Worker |->
             IF u = w THEN [Idle EXCEPT !.op = op, !.todo = Plan(op, c), !.conf = c,
                              !.calm = Rivals(op) = {} /\ \A x \in Worker : ~Viewing(x)]
             ELSE [worker[u] EXCEPT !.calm = @ /\ u \notin Rivals(op)]]
        /\ shown' = shown \ Touches(op)
  BY DEF BeginChange
<1>2. op \in Change
  BY <1>1
<1>3. UNCHANGED <<db, Cached>> /\ edits < MaxEdits /\ edits' = edits + 1
  BY DEF BeginChange
<1>4. PICK g : g = [Idle EXCEPT !.op = op, !.todo = Plan(op, c), !.conf = c,
                      !.calm = Rivals(op) = {} /\ \A x \in Worker : ~Viewing(x)]
  OBVIOUS
<1>5. /\ g.op = op /\ g.todo = Plan(op, c) /\ g.conf = c
  BY <1>4, IdleIs DEF Goroutine
<1>6. g.calm = (Rivals(op) = {} /\ \A x \in Worker : ~Viewing(x))
  BY <1>4, IdleIs DEF Goroutine
<1>7. g \in Goroutine
  <2>1. (Rivals(op) = {} /\ \A x \in Worker : ~Viewing(x)) \in BOOLEAN
    OBVIOUS
  <2>. QED
    BY <1>2, <1>4, <2>1, IdleIs, PlanIs DEF Goroutine
<1>8. worker'[w] = g
  BY <1>1, <1>4
<1>9. ASSUME NEW u \in Worker, u # w
      PROVE  /\ worker'[u] \in Goroutine /\ worker'[u].op = worker[u].op
             /\ worker'[u].todo = worker[u].todo /\ worker'[u].conf = worker[u].conf
             /\ worker'[u].draft = worker[u].draft /\ worker'[u].on = worker[u].on
             /\ worker'[u].calm => worker[u].calm /\ u \notin Rivals(op)
  <2>1. worker[u] \in Goroutine
    BY DEF IInv, TypeOK
  <2>2. PICK b \in BOOLEAN : b = (worker[u].calm /\ u \notin Rivals(op))
    OBVIOUS
  <2>3. PICK h : h = [worker[u] EXCEPT !.calm = b]
    OBVIOUS
  <2>4. worker'[u] = h
    BY <1>1, <1>9, <2>2, <2>3
  <2>5. /\ h \in Goroutine /\ h.op = worker[u].op /\ h.todo = worker[u].todo
        /\ h.conf = worker[u].conf /\ h.draft = worker[u].draft /\ h.on = worker[u].on
    BY <2>1, <2>3 DEF Goroutine
  <2>6. h.calm = b
    BY <2>1, <2>3 DEF Goroutine
  <2>. QED
    BY <2>2, <2>4, <2>5, <2>6
<1>10. /\ Plan(op, c) \in Seq(Label) /\ Left(g.todo) # {} /\ MadeOf(op, Left(g.todo))
       /\ Ordered(g.todo)
       /\ op \in Saves => {"flushPages", "flushObjects"} \subseteq Left(g.todo)
       /\ op = "block" => "dropBlocks" \in Left(g.todo)
       /\ op = "general" => {"writeGeneral", "dropSettings", "setToggle"} \subseteq Left(g.todo)
  BY <1>2, <1>5, PlanIs
<1>11. Formed(g)
  <2>1. g.todo # <<>> /\ op # "none"
    BY <1>2, <1>10, LeftNone DEF Change
  <2>. QED
    BY <1>2, <1>5, <1>10, <2>1 DEF Formed
<1>12. TypeOK'
  <2>1. worker' \in [Worker -> Goroutine]
    <3>1. \A u \in Worker : worker'[u] \in Goroutine
      BY <1>7, <1>8, <1>9
    <3>2. worker' = [u \in Worker |-> worker'[u]]
      BY <1>1
    <3>. QED
      BY <3>1, <3>2
  <2>2. edits' \in 0 .. MaxEdits
    BY <1>3 DEF IInv, TypeOK
  <2>3. shown' \subseteq Source
    BY <1>1 DEF IInv, TypeOK
  <2>. QED
    BY <1>3, <2>1, <2>2, <2>3 DEF Cached, IInv, TypeOK
<1>13. ASSUME NEW u \in Worker, u # w
       PROVE  /\ worker[u].op \in Does[u] \cup {"none"} /\ Formed(worker[u])
              /\ Touches(worker[u].op) \cap shown = {}
              /\ Viewing(u) => ReadsCurrent(worker[u])
              /\ worker[u].calm => Alone(u)
              /\ worker[u].calm => Achieved(worker[u].op, worker[u].conf, Left(worker[u].todo))
  BY DEF IInv, Goroutines
<1>14. ASSUME NEW u \in Worker
       PROVE  /\ worker'[u].op \in Does[u] \cup {"none"}
              /\ Formed(worker'[u])
              /\ Touches(worker'[u].op) \cap shown' = {}
              /\ Viewing(u)' => ReadsCurrent(worker[u])'
  <2>1. CASE u = w
    BY <1>1, <1>2, <1>5, <1>8, <1>11, <2>1 DEF Viewing, View, Change
  <2>2. CASE u # w
    <3>1. Formed(worker'[u])
      BY <1>9, <1>13, <2>2 DEF Formed
    <3>2. ASSUME Viewing(u)' PROVE ReadsCurrent(worker[u])'
      <4>1. ReadsCurrent(worker[u])
        BY <1>9, <1>13, <2>2, <3>2 DEF Viewing
      <4>2. shown' \subseteq shown /\ db' = db
        BY <1>1, <1>3
      <4>. QED
        BY <1>9, <2>2, <4>1, <4>2 DEF ReadsCurrent
    <3>. QED
      BY <1>1, <1>9, <1>13, <2>2, <3>1, <3>2
  <2>. QED
    BY <2>1, <2>2
<1>15. ASSUME NEW u \in Worker, worker'[u].calm PROVE Alone(u)'
  <2>1. /\ \A x \in Worker : ~Viewing(x)
        /\ \A x \in Worker \ {u} : Touches(worker'[x].op) \cap Touches(worker'[u].op) = {}
    <3>1. CASE u = w
      <4>1. Rivals(op) = {} /\ \A x \in Worker : ~Viewing(x)
        BY <1>6, <1>8, <1>15, <3>1
      <4>2. ASSUME NEW x \in Worker \ {w} PROVE Touches(worker[x].op) \cap Touches(op) = {}
        BY <4>1 DEF Rivals
      <4>. QED
        BY <1>5, <1>8, <1>9, <3>1, <4>1, <4>2
    <3>2. CASE u # w
      <4>1. Alone(u) /\ u \notin Rivals(op)
        BY <1>9, <1>13, <1>15, <3>2
      <4>2. Touches(worker[u].op) \cap Touches(op) = {}
        BY <4>1 DEF Rivals
      <4>3. ASSUME NEW x \in Worker \ {u}
            PROVE  Touches(worker'[x].op) \cap Touches(worker'[u].op) = {}
        <5>1. CASE x = w
          BY <1>5, <1>8, <1>9, <3>2, <4>2, <5>1
        <5>2. CASE x # w
          BY <1>9, <3>2, <4>1, <5>2 DEF Alone
        <5>. QED
          BY <5>1, <5>2
      <4>. QED
        BY <4>1, <4>3 DEF Alone
    <3>. QED
      BY <3>1, <3>2
  <2>2. ASSUME NEW x \in Worker PROVE ~Viewing(x)'
    <3>1. CASE x = w
      BY <1>2, <1>5, <1>8, <3>1 DEF Viewing, View, Change
    <3>2. CASE x # w
      BY <1>9, <2>1, <3>2 DEF Viewing
    <3>. QED
      BY <3>1, <3>2
  <2>. QED
    BY <2>1, <2>2 DEF Alone
<1>16. ASSUME NEW u \in Worker, worker'[u].calm
       PROVE  Achieved(worker[u].op, worker[u].conf, Left(worker[u].todo))'
  <2>1. CASE u = w
    BY <1>5, <1>8, <1>10, <2>1 DEF Achieved
  <2>2. CASE u # w
    BY <1>3, <1>9, <1>13, <1>16, <2>2 DEF Achieved, Cached
  <2>. QED
    BY <2>1, <2>2
<1>17. Goroutines'
  BY <1>14, <1>15, <1>16 DEF Goroutines
<1>18. Shows'
  BY <1>1, <1>3 DEF Cached, IInv, Shows, ItemShows, CommentShows, BlockShows, GeneralShows
<1>. QED
  BY <1>12, <1>17, <1>18 DEF IInv

----------------------------------------------------------------------------
\* Part 5: the theorems

LEMMA Start == Init => IInv
<1>. SUFFICES ASSUME Init PROVE IInv
  OBVIOUS
<1>2. TypeOK
  BY IdleIs DEF Init, TypeOK, Content, Blank, Edition, Source
<1>3. Goroutines
  <2>1. \A w \in Worker : worker[w] = Idle
    BY DEF Init
  <2>. QED
    BY <2>1, IdleIs, TouchesIs DEF Goroutines, Viewing, View
<1>4. Shows
  BY DEF Init, Shows, ItemShows, CommentShows, BlockShows, GeneralShows
<1>. QED
  BY <1>2, <1>3, <1>4 DEF IInv

LEMMA Inductive == Spec => []IInv
<1>1. IInv /\ [Next]_vars => IInv'
  <2>1. SUFFICES ASSUME IInv, [Next]_vars PROVE IInv'
    OBVIOUS
  <2>2. ASSUME NEW w \in Worker, BeginView(w) \/ BeginChange(w) \/ Fail(w) PROVE IInv'
    BY <2>1, <2>2, BeginViewHolds, BeginChangeHolds, FailHolds
  <2>3. ASSUME NEW w \in Worker, Step(w) PROVE IInv'
    BY <2>1, <2>3, ToggleReadHolds, ToggleSetHolds, LoadGeneralHolds, ReadGeneralHolds,
       FillGeneralHolds, LookupHolds, LoadItemHolds, ReadsHold, FillItemHolds,
       LoadBlocksHolds, FillBlocksHolds, KeepHolds, WriteHolds, DropHolds DEF Step
  <2>4. ASSUME Evict \/ Tick \/ UNCHANGED vars PROVE IInv'
    BY <2>1, <2>4, AgingHolds
  <2>. QED
    BY <2>1, <2>2, <2>3, <2>4 DEF Next
<1>. QED
  BY Start, <1>1, PTL DEF Spec

\* What is shown, and what it means for a row.
LEMMA ShowsCurrent ==
  ASSUME Shows, NEW s \in shown, s \in Source
  PROVE  Current(s)
<1>1. CASE s = "item"
  BY <1>1, Zenon DEF Current, Shows, ItemShows
<1>2. CASE s = "comment"
  BY <1>2, Zenon DEF Current, Shows, CommentShows
<1>3. CASE s = "block"
  BY <1>3, Zenon DEF Current, Shows, BlockShows
<1>4. CASE s = "general"
  BY <1>4, Zenon DEF Current, Shows, GeneralShows, Switch
<1>. QED
  BY <1>1, <1>2, <1>3, <1>4 DEF Source

\* The caches, the database and the steps of every goroutine are of their kinds, whatever
\* the goroutines do.
THEOREM TypeCorrect == Spec => []TypeOK
<1>1. IInv => TypeOK
  BY DEF IInv
<1>. QED
  BY <1>1, Inductive, PTL

\* A change of an item, a comment, a block or the general settings that no page view overlaps
\* is complete when its handler returns, moderation excepted: no cache shows what was there
\* before it, however many visitors and admins there are and whatever they do.
THEOREM ChangesShown == Spec => []ChangesShow
<1>1. IInv => ChangesShow
  BY ShowsCurrent DEF IInv, TypeOK, ChangesShow
<1>. QED
  BY <1>1, Inductive, PTL

===============================================================================
