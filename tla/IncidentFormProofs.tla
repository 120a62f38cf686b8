-------------------------- MODULE IncidentFormProofs --------------------------
(***************************************************************************)
(* The form of an incident keeps its promises for any configured           *)
(* components, any options of the select, any letters typed, and any       *)
(* number of acts and timers.                                              *)
(***************************************************************************)
EXTENDS IncidentForm, FiniteSetTheorems, SequenceTheorems, WellFoundedInduction, TLAPS

-----------------------------------------------------------------------------
(* Numbers *)

\* A set of numbers has a least one.
LEMMA LeastOf ==
    ASSUME NEW S \in SUBSET Nat, S # {}
    PROVE  Min(S) \in S /\ \A k \in S : Min(S) <= k
  <1>1. PICK n \in S : \A k \in S : <<k, n>> \notin OpToRel(<, Nat)
    BY WFMin, NatLessThanWellFounded, Zenon
  <1>2. \A k \in S : ~(k < n)
    BY <1>1, Zenon DEF OpToRel
  <1>3. \E x \in S : \A k \in S : x <= k
    BY <1>2
  <1> QED BY <1>3 DEF Min

\* A set of numbers with a bound has a greatest one.
LEMMA GreatestOf ==
    ASSUME NEW n \in Nat, NEW S \in SUBSET (0..n), S # {}
    PROVE  Max(S) \in S /\ \A k \in S : k <= Max(S)
  <1>1. PICK T \in SUBSET Nat : T = {n - k : k \in S}
    BY {n - k : k \in S} \in SUBSET Nat
  <1>2. T # {}
    BY <1>1
  <1>3. PICK m : m = Min(T)
    OBVIOUS
  <1>4. m \in T /\ \A k \in T : m <= k
    BY <1>2, <1>3, LeastOf
  <1>5. PICK g \in S : m = n - g
    BY <1>1, <1>4
  <1>6. ASSUME NEW k \in S
        PROVE  k <= g
    <2>1. n - k \in T
      BY <1>1
    <2> QED BY <1>4, <1>5, <2>1
  <1>7. \E x \in S : \A k \in S : x >= k
    <2>1. \A k \in S : g >= k
      BY <1>6
    <2> QED BY <2>1
  <1> QED BY <1>7 DEF Max

-----------------------------------------------------------------------------
(* A dropdown list *)

\* The keys a list may be told of.
Keys == Letters \cup {"enter", "back", "down", "up", "left", "right", "esc", "tab", "shift-tab"}

DropRecord == [isOpen : BOOLEAN, focusedIndex : Nat, query : Seq(Keys),
               anim : SUBSET {"in", "out"}, shown : BOOLEAN, closes : Nat, resets : Nat]

\* A list that is open is displayed, and no animation is about to hide it.
DropSound(p) == /\ p \in DropRecord
                /\ p.isOpen => p.shown /\ "out" \notin p.anim

\* The items and the timers of p and q are the same.
SameList(p, q) ==
    p.focusedIndex = q.focusedIndex /\ p.closes = q.closes /\ p.resets = q.resets

\* The list is folded.
LEMMA FoldedSound == DropSound(Folded) /\ ~Folded.isOpen /\ Folded.focusedIndex = 0
                     /\ Folded.closes = 0 /\ Folded.resets = 0
  <1>1. <<>> \in Seq(Keys)
    BY EmptySeq
  <1> QED BY <1>1 DEF Folded, DropSound, DropRecord

\* It opens.
LEMMA OpenSound ==
    ASSUME NEW p, DropSound(p), NEW q, q = DropOpen(p)
    PROVE  /\ DropSound(q) /\ q.isOpen /\ SameList(q, p)
           /\ p.isOpen => q = p
           /\ ~p.isOpen => "in" \in q.anim
  <1>1. CASE p.isOpen
    BY <1>1 DEF DropOpen, SameList
  <1>2. CASE ~p.isOpen
    <2>1. q = [p EXCEPT !.isOpen = TRUE, !.shown = TRUE, !.anim = {"in"}]
      BY <1>2 DEF DropOpen, DropAnimate
    <2>2. p \in DropRecord
      BY DEF DropSound
    <2>3. /\ q \in DropRecord /\ q.isOpen = TRUE /\ q.shown = TRUE /\ q.anim = {"in"}
      BY ONLY <2>1, <2>2, Zenon DEF DropRecord
    <2>4. q.focusedIndex = p.focusedIndex /\ q.closes = p.closes /\ q.resets = p.resets
      BY ONLY <2>1, <2>2, Zenon DEF DropRecord
    <2> QED BY <1>2, <2>3, <2>4 DEF DropSound, SameList
  <1> QED BY <1>1, <1>2

\* It closes.
LEMMA CloseSound ==
    ASSUME NEW p, DropSound(p), NEW q, q = DropClose(p)
    PROVE  /\ DropSound(q) /\ ~q.isOpen /\ q.closes = p.closes /\ q.resets = p.resets
           /\ q.focusedIndex \in {0, p.focusedIndex}
           /\ ~p.isOpen => q = p
  <1>1. CASE ~p.isOpen
    BY <1>1 DEF DropClose
  <1>2. CASE p.isOpen
    <2>1. q = [p EXCEPT !.isOpen = FALSE, !.focusedIndex = 0, !.anim = {"out"}]
      BY <1>2 DEF DropClose, DropAnimate
    <2>2. p \in DropRecord /\ 0 \in Nat
      BY DEF DropSound
    <2>3. q \in DropRecord /\ q.isOpen = FALSE /\ q.focusedIndex = 0
      BY ONLY <2>1, <2>2, Zenon DEF DropRecord
    <2>4. q.closes = p.closes /\ q.resets = p.resets
      BY ONLY <2>1, <2>2, Zenon DEF DropRecord
    <2> QED BY <1>2, <2>3, <2>4 DEF DropSound
  <1> QED BY <1>1, <1>2

\* A click outside a list, one in a list that closes on it, and one outside a
\* list that closes only on such.
ClickOutside(p) == DocumentClick(p, FALSE, TRUE)
ClickInside(p)  == DocumentClick(p, TRUE, TRUE)
ClickBeyond(p)  == DocumentClick(p, FALSE, FALSE)

\* All close the list from a timer, if it is open.
LEMMA ClicksSound ==
    ASSUME NEW p, DropSound(p),
           NEW q, q = ClickOutside(p) \/ q = ClickInside(p) \/ q = ClickBeyond(p)
    PROVE  /\ DropSound(q) /\ q.isOpen = p.isOpen /\ q.focusedIndex = p.focusedIndex
           /\ q.shown = p.shown /\ q.anim = p.anim
           /\ p.isOpen => q.closes > 0
           /\ q.closes >= p.closes /\ q.resets = p.resets
  <1>1. p \in DropRecord /\ p.closes \in Nat
    BY DEF DropSound, DropRecord
  <1>2. CASE ~p.isOpen
    <2>1. q = p
      BY <1>2 DEF ClickOutside, ClickInside, ClickBeyond, DocumentClick
    <2> QED BY <1>1, <1>2, <2>1
  <1>3. CASE p.isOpen
    <2>1. PICK n \in Nat : n = p.closes + 1
      BY <1>1
    <2>2. q = [p EXCEPT !.closes = n]
      BY <1>3, <2>1 DEF ClickOutside, ClickInside, ClickBeyond, DocumentClick
    <2>3. /\ q \in DropRecord /\ q.isOpen = p.isOpen /\ q.focusedIndex = p.focusedIndex
          /\ q.closes = n /\ q.resets = p.resets
      BY ONLY <1>1, <2>2, Zenon DEF DropRecord
    <2>4. q.shown = p.shown /\ q.anim = p.anim
      BY ONLY <1>1, <2>2, Zenon DEF DropRecord
    <2>5. n > 0 /\ n >= p.closes
      BY <1>1, <2>1
    <2> QED BY <1>1, <2>3, <2>4, <2>5 DEF DropSound
  <1> QED BY <1>2, <1>3

\* The timer of a click fires.
LEMMA DeferredSound ==
    ASSUME NEW p, DropSound(p), p.closes > 0, NEW q, q = DeferredClose(p)
    PROVE  /\ DropSound(q) /\ ~q.isOpen /\ q.resets = p.resets
           /\ q.closes \in 0..p.closes /\ q.focusedIndex \in {0, p.focusedIndex}
  <1>1. p \in DropRecord /\ p.closes \in Nat
    BY DEF DropSound, DropRecord
  <1>2. PICK n \in Nat : n = p.closes - 1
    BY <1>1
  <1>3. PICK r : r = [p EXCEPT !.closes = n]
    OBVIOUS
  <1>4. /\ r \in DropRecord /\ r.isOpen = p.isOpen /\ r.focusedIndex = p.focusedIndex
        /\ r.closes = n /\ r.resets = p.resets
    BY ONLY <1>1, <1>3, Zenon DEF DropRecord
  <1>5. r.shown = p.shown /\ r.anim = p.anim
    BY ONLY <1>1, <1>3, Zenon DEF DropRecord
  <1>6. DropSound(r)
    BY <1>4, <1>5 DEF DropSound
  <1>7. q = DropClose(r)
    BY <1>2, <1>3 DEF DeferredClose
  <1>8. DropSound(q) /\ ~q.isOpen /\ q.closes = n /\ q.resets = r.resets
        /\ q.focusedIndex \in {0, r.focusedIndex}
    BY ONLY <1>4, <1>6, <1>7, CloseSound
  <1>9. n \in 0..p.closes
    BY <1>1, <1>2
  <1> QED BY <1>4, <1>8, <1>9

\* The letters typed are forgotten.
LEMMA ResetSound ==
    ASSUME NEW p, DropSound(p), p.resets > 0, NEW q, q = ResetQuery(p)
    PROVE  /\ DropSound(q) /\ q.isOpen = p.isOpen /\ q.anim = p.anim /\ q.shown = p.shown
           /\ q.focusedIndex = p.focusedIndex
           /\ q.closes = p.closes /\ q.resets \in 0..p.resets
  <1>1. p \in DropRecord /\ p.resets \in Nat /\ <<>> \in Seq(Keys)
    BY EmptySeq DEF DropSound, DropRecord
  <1>2. PICK n \in Nat : n = p.resets - 1
    BY <1>1
  <1>3. PICK e \in Seq(Keys) : e = <<>>
    BY <1>1
  <1>4. q = [p EXCEPT !.query = e, !.resets = n]
    BY <1>2, <1>3 DEF ResetQuery
  <1>5. /\ q \in DropRecord /\ q.isOpen = p.isOpen /\ q.focusedIndex = p.focusedIndex
        /\ q.closes = p.closes /\ q.resets = n
    BY ONLY <1>1, <1>4, Zenon DEF DropRecord
  <1>6. q.shown = p.shown /\ q.anim = p.anim
    BY ONLY <1>1, <1>4, Zenon DEF DropRecord
  <1>7. n \in 0..p.resets
    BY <1>1, <1>2
  <1> QED BY <1>5, <1>6, <1>7 DEF DropSound

\* The animations end.
LEMMA AnimatedSound ==
    ASSUME NEW p, DropSound(p)
    PROVE  /\ \A q : q = AnimatedIn(p) =>
                 /\ DropSound(q) /\ q.isOpen = p.isOpen /\ SameList(q, p)
           /\ \A q : q = AnimatedOut(p) /\ "out" \in p.anim =>
                 /\ DropSound(q) /\ ~q.isOpen /\ SameList(q, p)
  <1>1. p \in DropRecord /\ p.anim \in SUBSET {"in", "out"}
    BY DEF DropSound, DropRecord
  <1>2. ASSUME NEW q, q = AnimatedIn(p)
        PROVE  DropSound(q) /\ q.isOpen = p.isOpen /\ SameList(q, p)
    <2>1. PICK a \in SUBSET {"in", "out"} : a = p.anim \ {"in"}
      BY <1>1
    <2>2. q = [p EXCEPT !.anim = a]
      BY <1>2, <2>1 DEF AnimatedIn
    <2>3. /\ q \in DropRecord /\ q.isOpen = p.isOpen /\ q.focusedIndex = p.focusedIndex
          /\ q.closes = p.closes /\ q.resets = p.resets
      BY ONLY <1>1, <2>2, Zenon DEF DropRecord
    <2>4. q.shown = p.shown /\ q.anim = a
      BY ONLY <1>1, <2>2, Zenon DEF DropRecord
    <2>5. p.isOpen => p.shown /\ "out" \notin a
      BY <2>1 DEF DropSound
    <2> QED BY <2>3, <2>4, <2>5 DEF DropSound, SameList
  <1>3. ASSUME NEW q, q = AnimatedOut(p), "out" \in p.anim
        PROVE  DropSound(q) /\ ~q.isOpen /\ SameList(q, p)
    <2>1. PICK a \in SUBSET {"in", "out"} : a = p.anim \ {"out"}
      BY <1>1
    <2>2. q = [p EXCEPT !.anim = a, !.shown = FALSE]
      BY <1>3, <2>1 DEF AnimatedOut
    <2>3. /\ q \in DropRecord /\ q.isOpen = p.isOpen /\ q.focusedIndex = p.focusedIndex
          /\ q.closes = p.closes /\ q.resets = p.resets
      BY ONLY <1>1, <2>2, Zenon DEF DropRecord
    <2>4. ~p.isOpen
      BY <1>3 DEF DropSound
    <2> QED BY <2>3, <2>4 DEF DropSound, SameList
  <1> QED BY <1>2, <1>3

\* The items a key may look for.
LEMMA SoughtType ==
    ASSUME NEW p \in DropRecord, NEW key, NEW n \in Nat, NEW focusable \in SUBSET (1..n),
           NEW texts, DOMAIN texts \subseteq 1..n
    PROVE  /\ Sought(p, key, focusable, texts) \subseteq 1..n
           /\ Sought(p, key, focusable, texts) # {}
                => Min(Sought(p, key, focusable, texts)) \in Sought(p, key, focusable, texts)
  <1> DEFINE after  == {i \in focusable : i > p.focusedIndex}
             before == {i \in focusable : i < p.focusedIndex}
             typed  == {i \in DOMAIN texts : IsPrefix(Append(p.query, key), texts[i])}
  <1>1. after \subseteq focusable /\ before \subseteq focusable /\ typed \subseteq DOMAIN texts
    OBVIOUS
  <1> HIDE DEF after, before, typed
  <1>2. after # {} => Min(after) \in 1..n
    <2>1. after \in SUBSET Nat /\ after \subseteq 1..n
      BY ONLY <1>1, focusable \in SUBSET (1..n), n \in Nat
    <2> QED BY <2>1, LeastOf
  <1>3. before # {} => Max(before) \in 1..n
    <2>1. before \in SUBSET (0..n) /\ before \subseteq 1..n
      BY ONLY <1>1, focusable \in SUBSET (1..n), n \in Nat
    <2> QED BY <2>1, GreatestOf
  <1>4. typed # {} => Min(typed) \in 1..n
    <2>1. typed \in SUBSET Nat /\ typed \subseteq 1..n
      BY ONLY <1>1, DOMAIN texts \subseteq 1..n, n \in Nat
    <2> QED BY <2>1, LeastOf
  <1>5. PICK S : S = Sought(p, key, focusable, texts)
    OBVIOUS
  <1>6. S \subseteq 1..n
    <2>1. CASE key = "down"
      <3>1. S = IF after = {} THEN {} ELSE {Min(after)}
        BY <1>5, <2>1 DEF Sought, after, before, typed
      <3> QED BY ONLY <1>2, <3>1
    <2>2. CASE key = "up"
      <3>1. S = IF before = {} THEN {} ELSE {Max(before)}
        BY <1>5, <2>2 DEF Sought, after, before, typed
      <3> QED BY ONLY <1>3, <3>1
    <2>3. CASE key \in {"tab", "esc", "enter"}
      BY <1>5, <2>3 DEF Sought
    <2>4. CASE key \notin {"down", "up", "tab", "esc", "enter"}
      <3>1. S = IF typed = {} THEN {} ELSE {Min(typed)}
        BY <1>5, <2>4 DEF Sought, after, before, typed
      <3> QED BY ONLY <1>4, <3>1
    <2> QED BY <2>1, <2>2, <2>3, <2>4
  <1>7. S # {} => Min(S) \in S
    <2>1. S \in SUBSET Nat
      BY <1>6
    <2> QED BY <2>1, LeastOf
  <1> QED BY <1>5, <1>6, <1>7

\* A key in the list.
LEMMA KeydownSound ==
    ASSUME NEW p, DropSound(p), NEW key \in Keys, NEW n \in Nat,
           NEW focusable \in SUBSET (1..n), NEW texts, DOMAIN texts \subseteq 1..n,
           NEW q, q = ListKeydown(p, key, focusable, texts)
    PROVE  /\ DropSound(q) /\ q.closes = p.closes /\ q.resets >= p.resets
           /\ q.isOpen => p.isOpen /\ q.anim = p.anim
           /\ q.focusedIndex \in {0, p.focusedIndex} \cup Sought(p, key, focusable, texts)
           /\ q.isOpen /\ Sought(p, key, focusable, texts) # {}
                => q.focusedIndex \in Sought(p, key, focusable, texts)
           /\ p.isOpen /\ ~q.isOpen => key \in {"tab", "esc"}
  <1>1. PICK S : S = Sought(p, key, focusable, texts)
    OBVIOUS
  <1>2. p \in DropRecord /\ p.resets \in Nat /\ p.focusedIndex \in Nat /\ p.query \in Seq(Keys)
    BY DEF DropSound, DropRecord
  <1>3. S \subseteq 1..n /\ (S # {} => Min(S) \in S)
    BY ONLY <1>1, <1>2, SoughtType, key \in Keys, n \in Nat, focusable \in SUBSET (1..n),
            DOMAIN texts \subseteq 1..n
  <1>4. PICK at : at = IF S = {} THEN p.focusedIndex ELSE Min(S)
    OBVIOUS
  <1>5. at \in Nat /\ (S # {} => at \in S) /\ (S = {} => at = p.focusedIndex)
    <2>1. CASE S = {}
      BY ONLY <1>2, <1>4, <2>1
    <2>2. CASE S # {}
      <3>1. at = Min(S) /\ at \in S
        BY ONLY <1>3, <1>4, <2>2
      <3>2. at \in 1..n
        BY ONLY <1>3, <3>1
      <3> QED BY ONLY <2>2, <3>1, <3>2, n \in Nat
    <2> QED BY ONLY <2>1, <2>2
  <1>6. PICK moved : moved = [p EXCEPT !.focusedIndex = at]
    OBVIOUS
  <1>7. /\ moved \in DropRecord /\ moved.focusedIndex = at /\ moved.isOpen = p.isOpen
        /\ moved.closes = p.closes /\ moved.resets = p.resets
    BY ONLY <1>2, <1>5, <1>6, Zenon DEF DropRecord
  <1>8. moved.shown = p.shown /\ moved.anim = p.anim /\ moved.query = p.query
    BY ONLY <1>2, <1>5, <1>6, Zenon DEF DropRecord
  <1>9. DropSound(moved)
    BY <1>7, <1>8 DEF DropSound
  <1>10. ASSUME NEW r, DropSound(r), r.resets = p.resets, NEW u, u = [r EXCEPT !.resets = @ + 1]
         PROVE  /\ DropSound(u) /\ u.isOpen = r.isOpen /\ u.closes = r.closes
                /\ u.focusedIndex = r.focusedIndex /\ u.anim = r.anim /\ u.resets >= p.resets
    <2>1. r \in DropRecord
      BY <1>10 DEF DropSound
    <2>2. PICK m \in Nat : m = r.resets + 1
      BY <2>1 DEF DropRecord
    <2>3. u = [r EXCEPT !.resets = m]
      BY <1>10, <2>2
    <2>4. /\ u \in DropRecord /\ u.isOpen = r.isOpen /\ u.closes = r.closes
          /\ u.focusedIndex = r.focusedIndex /\ u.resets = m
      BY ONLY <2>1, <2>3, Zenon DEF DropRecord
    <2>5. u.shown = r.shown /\ u.anim = r.anim
      BY ONLY <2>1, <2>3, Zenon DEF DropRecord
    <2>6. m >= p.resets
      BY <1>2, <1>10, <2>2
    <2> QED BY <1>10, <2>4, <2>5, <2>6 DEF DropSound
  <1>11. CASE ~p.isOpen
    <2>1. q = p
      BY <1>11 DEF ListKeydown
    <2> QED BY <1>2, <1>11, <2>1
  <1>12. CASE p.isOpen /\ key \in {"tab", "esc"}
    <2>1. PICK r : r = DropClose(p)
      OBVIOUS
    <2>2. q = [r EXCEPT !.resets = @ + 1]
      BY <1>12, <2>1 DEF ListKeydown
    <2>3. DropSound(r) /\ ~r.isOpen /\ r.closes = p.closes /\ r.resets = p.resets
          /\ r.focusedIndex \in {0, p.focusedIndex}
      BY ONLY <2>1, CloseSound, DropSound(p)
    <2>4. /\ DropSound(q) /\ q.isOpen = r.isOpen /\ q.closes = r.closes
          /\ q.focusedIndex = r.focusedIndex /\ q.resets >= p.resets
      BY ONLY <1>10, <2>2, <2>3
    <2> QED BY ONLY <1>12, <2>3, <2>4
  <1>13. CASE p.isOpen /\ key \in {"down", "up", "enter"}
    <2>1. q = [moved EXCEPT !.resets = @ + 1]
      BY <1>1, <1>4, <1>6, <1>13 DEF ListKeydown
    <2> QED BY <1>1, <1>5, <1>7, <1>8, <1>9, <1>10, <1>13, <2>1
  <1>14. CASE p.isOpen /\ key \notin {"tab", "esc", "down", "up", "enter"}
    <2>1. PICK typed \in Seq(Keys) : typed = Append(p.query, key)
      BY ONLY <1>2, AppendProperties, key \in Keys
    <2>2. PICK r : r = [moved EXCEPT !.query = typed]
      OBVIOUS
    <2>3. /\ r \in DropRecord /\ r.isOpen = moved.isOpen /\ r.closes = moved.closes
          /\ r.focusedIndex = moved.focusedIndex /\ r.resets = moved.resets
      BY ONLY <1>7, <2>2, Zenon DEF DropRecord
    <2>4. r.shown = moved.shown /\ r.anim = moved.anim
      BY ONLY <1>7, <2>2, Zenon DEF DropRecord
    <2>5. DropSound(r)
      BY <1>9, <2>3, <2>4 DEF DropSound
    <2>6. q = [r EXCEPT !.resets = @ + 1]
      BY <1>1, <1>4, <1>6, <1>8, <1>14, <2>1, <2>2 DEF ListKeydown
    <2>7. r.resets = p.resets /\ r.isOpen = p.isOpen /\ r.closes = p.closes /\ r.anim = p.anim
          /\ r.focusedIndex = at
      BY ONLY <1>7, <1>8, <2>3, <2>4
    <2>8. /\ DropSound(q) /\ q.isOpen = r.isOpen /\ q.closes = r.closes
          /\ q.focusedIndex = r.focusedIndex /\ q.anim = r.anim /\ q.resets >= p.resets
      BY ONLY <1>10, <2>5, <2>6, <2>7
    <2> QED BY ONLY <1>1, <1>5, <1>14, <2>7, <2>8
  <1> QED BY <1>11, <1>12, <1>13, <1>14

-----------------------------------------------------------------------------
(* The select *)

LastItem == Len(OptionTexts)

SelectRecord == [drop : DropRecord, value : Items, text : Items, marked : SUBSET Items,
                 focus : -2..LastItem]

\* The three things that say which option is selected agree.
Shows(s) == s.text = s.value /\ s.marked = {s.value}

\* The open list has the keyboard, or will, or is about to close, or a click
\* beside it was not seen.
Keyboard(s, unseen) ==
    s.drop.isOpen => "in" \in s.drop.anim \/ s.focus >= OnList \/ s.drop.closes > 0 \/ unseen

SelectIs(s) == /\ s \in SelectRecord /\ DropSound(s.drop)
               /\ s.drop.focusedIndex \in 0..LastItem

\* The numbers of the options.
LEMMA ItemsType == LastItem \in Nat /\ Items = 1..LastItem /\ Items \subseteq -2..LastItem
                   /\ \A item \in Items : item >= OnList
  BY FormAssumption DEF LastItem, Items, OnList

\* A select changes its list and its focus.
Put(s, d, f) == [s EXCEPT !.drop = d, !.focus = f]

\* It stays a select.
LEMMA SelectPuts ==
    ASSUME NEW s, SelectIs(s), NEW d, DropSound(d), d.focusedIndex \in 0..LastItem,
           NEW f \in -2..LastItem, NEW t, t = Put(s, d, f)
    PROVE  /\ SelectIs(t) /\ t.drop = d /\ t.focus = f
           /\ t.value = s.value /\ t.text = s.text /\ t.marked = s.marked
  <1>1. s \in SelectRecord /\ d \in DropRecord
    BY DEF SelectIs, DropSound
  <1>2. t \in SelectRecord /\ t.drop = d /\ t.focus = f
    BY ONLY <1>1, f \in -2..LastItem, t = Put(s, d, f), Zenon DEF SelectRecord, Put
  <1>3. t.value = s.value /\ t.text = s.text /\ t.marked = s.marked
    BY ONLY <1>1, f \in -2..LastItem, t = Put(s, d, f), Zenon DEF SelectRecord, Put
  <1> QED BY <1>2, <1>3 DEF SelectIs

\* Its parts.
LEMMA SelectParts ==
    ASSUME NEW s, SelectIs(s)
    PROVE  /\ DropSound(s.drop) /\ s.drop.focusedIndex \in 0..LastItem /\ s.focus \in -2..LastItem
           /\ s.value \in Items /\ s.text \in Items /\ s.marked \subseteq Items
           /\ s.drop \in DropRecord
           /\ \A d : [s EXCEPT !.drop = d] = Put(s, d, s.focus)
           /\ \A f : [s EXCEPT !.focus = f] = Put(s, s.drop, f)
  <1>1. s \in SelectRecord
    BY DEF SelectIs
  <1>2. /\ \A d : [s EXCEPT !.drop = d] = Put(s, d, s.focus)
        /\ \A f : [s EXCEPT !.focus = f] = Put(s, s.drop, f)
    BY ONLY <1>1, Zenon DEF SelectRecord, Put
  <1> QED BY <1>1, <1>2 DEF SelectIs, SelectRecord

\* The input shows the option selected, and the list marks it.
LEMMA Synchronised ==
    ASSUME NEW s, SelectIs(s), NEW t, t = SetSelectedStates(SetValueToInput(s))
    PROVE  SelectIs(t) /\ Shows(t) /\ t.drop = s.drop /\ t.focus = s.focus
  <1>1. s \in SelectRecord /\ s.value \in Items
    BY DEF SelectIs, SelectRecord
  <1>2. PICK v \in Items : v = s.value
    BY <1>1
  <1>3. PICK u : u = [s EXCEPT !.text = v]
    OBVIOUS
  <1>4. u \in SelectRecord /\ u.drop = s.drop /\ u.focus = s.focus /\ u.value = v /\ u.text = v
    BY ONLY <1>1, <1>2, <1>3, Zenon DEF SelectRecord
  <1>5. PICK m \in SUBSET Items : m = {v}
    OBVIOUS
  <1>6. t = [u EXCEPT !.marked = m]
    BY <1>2, <1>3, <1>4, <1>5 DEF SetSelectedStates, SetValueToInput
  <1>7. t \in SelectRecord /\ t.drop = u.drop /\ t.focus = u.focus /\ t.value = v /\ t.text = v
        /\ t.marked = m
    BY ONLY <1>4, <1>5, <1>6, Zenon DEF SelectRecord
  <1> QED BY <1>4, <1>5, <1>7 DEF SelectIs, Shows

\* An option is clicked.
LEMMA OptionSound ==
    ASSUME NEW s, SelectIs(s), Shows(s), NEW item \in Items, NEW t, t = OptionClick(s, item)
    PROVE  SelectIs(t) /\ Shows(t) /\ t.drop = s.drop /\ t.focus = s.focus
  <1>1. s \in SelectRecord
    BY DEF SelectIs
  <1>2. PICK m \in SUBSET Items : m = {item}
    OBVIOUS
  <1>3. PICK u : u = [s EXCEPT !.marked = m]
    OBVIOUS
  <1>4. u \in SelectRecord /\ u.drop = s.drop /\ u.focus = s.focus /\ u.value = s.value
        /\ u.text = s.text /\ u.marked = m
    BY ONLY <1>1, <1>2, <1>3, Zenon DEF SelectRecord
  <1>5. CASE s.value = item
    <2>1. t = u
      BY <1>2, <1>3, <1>5 DEF OptionClick
    <2> QED BY <1>2, <1>4, <1>5, <2>1 DEF SelectIs, Shows
  <1>6. CASE s.value # item
    <2>1. PICK v : v = [u EXCEPT !.value = item]
      OBVIOUS
    <2>2. v \in SelectRecord /\ v.drop = u.drop /\ v.focus = u.focus /\ v.value = item
          /\ v.marked = u.marked
      BY ONLY <1>4, <2>1, Zenon DEF SelectRecord
    <2>3. t = [v EXCEPT !.text = item]
      BY <1>2, <1>3, <1>6, <2>1, <2>2 DEF OptionClick, SetValueToInput
    <2>4. t \in SelectRecord /\ t.drop = v.drop /\ t.focus = v.focus /\ t.value = v.value
          /\ t.marked = v.marked /\ t.text = item
      BY ONLY <2>2, <2>3, Zenon DEF SelectRecord
    <2> QED BY <1>2, <1>4, <2>2, <2>4 DEF SelectIs, Shows
  <1> QED BY <1>5, <1>6

\* What is kept of a select, and with which clicks unseen.
SelectOk(s, unseen) == /\ SelectIs(s) /\ Shows(s) /\ Keyboard(s, unseen)
                       /\ WithinTimers(s.drop)

\* A click on the input opens the list, or closes it from a timer.
LEMMA ClickSelectStep ==
    ASSUME NEW unseen \in BOOLEAN, SelectOk(select, unseen), ClickSelect
    PROVE  SelectOk(select', FALSE)
  <1>1. PICK c : c = ClickOutside(select.drop)
    OBVIOUS
  <1>2. PICK d : d = DropOpen(c)
    OBVIOUS
  <1>3. PICK t : t = Put(select, d, OnTrigger)
    OBVIOUS
  <1>4. SelectIs(select)
    BY DEF SelectOk
  <1>5. [select EXCEPT !.focus = OnTrigger,
                       !.drop = DropOpen(DocumentClick(@, FALSE, TRUE))] = t
    BY <1>1, <1>2, <1>3, <1>4, Zenon DEF SelectIs, SelectRecord, Put, ClickOutside, ClickInside
  <1>6. select' = SetSelectedStates(SetValueToInput(t)) /\ WithinTimers(select'.drop)
    BY <1>5 DEF ClickSelect, SelectBecomes
  <1>7. DropSound(select.drop) /\ select.drop.focusedIndex \in 0..LastItem
    BY ONLY <1>4, SelectParts
  <1>8. DropSound(c) /\ c.isOpen = select.drop.isOpen /\ (select.drop.isOpen => c.closes > 0)
        /\ c.focusedIndex = select.drop.focusedIndex
    BY ONLY <1>1, <1>7, ClicksSound
  <1>9. DropSound(d) /\ SameList(d, c) /\ (~c.isOpen => "in" \in d.anim)
    BY ONLY <1>2, <1>8, OpenSound
  <1>10. d.focusedIndex \in 0..LastItem /\ OnTrigger \in -2..LastItem
    BY <1>7, <1>8, <1>9, ItemsType DEF SameList, OnTrigger
  <1>11. SelectIs(t) /\ t.drop = d
    BY ONLY <1>3, <1>4, <1>9, <1>10, SelectPuts
  <1>12. SelectIs(select') /\ Shows(select') /\ select'.drop = d
    BY ONLY <1>6, <1>11, Synchronised
  <1>13. "in" \in d.anim \/ d.closes > 0
    BY <1>8, <1>9 DEF SameList
  <1> QED BY <1>6, <1>12, <1>13 DEF SelectOk, Keyboard

\* A click on an item chooses it.
LEMMA ClickItemStep ==
    ASSUME NEW unseen \in BOOLEAN, SelectOk(select, unseen), NEW item \in Items, ClickItem(item)
    PROVE  SelectOk(select', FALSE)
  <1>1. PICK d : d = ClickInside(select.drop)
    OBVIOUS
  <1>2. PICK t : t = Put(select, d, item)
    OBVIOUS
  <1>3. SelectIs(select) /\ Shows(select)
    BY DEF SelectOk
  <1>4. [select EXCEPT !.focus = item, !.drop = DocumentClick(@, TRUE, TRUE)] = t
    BY <1>1, <1>2, <1>3, Zenon DEF SelectIs, SelectRecord, Put, ClickOutside, ClickInside
  <1>5. select' = OptionClick(t, item) /\ WithinTimers(select'.drop)
    BY <1>4 DEF ClickItem, SelectBecomes
  <1>6. DropSound(select.drop) /\ select.drop.focusedIndex \in 0..LastItem
    BY ONLY <1>3, SelectParts
  <1>7. DropSound(d) /\ d.isOpen = select.drop.isOpen /\ (select.drop.isOpen => d.closes > 0)
        /\ d.focusedIndex = select.drop.focusedIndex
    BY ONLY <1>1, <1>6, ClicksSound
  <1>8. item \in -2..LastItem
    BY ItemsType
  <1>9. SelectIs(t) /\ t.drop = d
        /\ t.value = select.value /\ t.text = select.text /\ t.marked = select.marked
    <2>1. d.focusedIndex \in 0..LastItem
      BY ONLY <1>6, <1>7
    <2> QED BY ONLY <1>2, <1>3, <1>7, <1>8, <2>1, SelectPuts
  <1>10. Shows(t)
    BY <1>3, <1>9 DEF Shows
  <1>11. SelectIs(select') /\ Shows(select') /\ select'.drop = d
    BY ONLY <1>5, <1>9, <1>10, OptionSound, item \in Items
  <1> QED BY <1>5, <1>7, <1>11 DEF SelectOk, Keyboard

\* A click beside the select closes it from a timer.
LEMMA ClickBesideStep ==
    ASSUME NEW unseen \in BOOLEAN, SelectOk(select, unseen), SelectBecomes(ClickBeside(select))
    PROVE  SelectOk(select', FALSE) /\ select'.focus = NotHere
  <1>1. PICK d : d = ClickOutside(select.drop)
    OBVIOUS
  <1>2. PICK t : t = Put(select, d, NotHere)
    OBVIOUS
  <1>3. SelectIs(select) /\ Shows(select)
    BY DEF SelectOk
  <1>4. [select EXCEPT !.focus = NotHere, !.drop = DocumentClick(@, FALSE, TRUE)] = t
    BY <1>1, <1>2, <1>3, Zenon DEF SelectIs, SelectRecord, Put, ClickOutside, ClickInside
  <1>5. select' = t /\ WithinTimers(select'.drop)
    BY <1>4 DEF ClickBeside, SelectBecomes
  <1>6. DropSound(select.drop) /\ select.drop.focusedIndex \in 0..LastItem
    BY ONLY <1>3, SelectParts
  <1>7. DropSound(d) /\ d.isOpen = select.drop.isOpen /\ (select.drop.isOpen => d.closes > 0)
        /\ d.focusedIndex = select.drop.focusedIndex
    BY ONLY <1>1, <1>6, ClicksSound
  <1>8. NotHere \in -2..LastItem
    BY ItemsType DEF NotHere
  <1>9. SelectIs(t) /\ t.drop = d /\ t.focus = NotHere
        /\ t.value = select.value /\ t.text = select.text /\ t.marked = select.marked
    BY ONLY <1>2, <1>3, <1>6, <1>7, <1>8, SelectPuts
  <1> QED BY <1>3, <1>5, <1>7, <1>9 DEF SelectOk, Keyboard, Shows

\* The focus leaves a select whose list does not have it.
LEMMA LeaveSelectStep ==
    ASSUME NEW unseen \in BOOLEAN, SelectOk(select, unseen),
           select' = [select EXCEPT !.focus = NotHere]
    PROVE  /\ select'.focus = NotHere
           /\ SelectOk(select', TRUE)
           /\ ~(select.drop.isOpen /\ select.focus >= OnList) => SelectOk(select', unseen)
  <1>1. SelectIs(select) /\ Shows(select) /\ Keyboard(select, unseen) /\ WithinTimers(select.drop)
    BY DEF SelectOk
  <1>2. PICK d : d = select.drop
    OBVIOUS
  <1>3. DropSound(d) /\ d.focusedIndex \in 0..LastItem
        /\ select' = Put(select, d, NotHere)
    BY <1>1, <1>2, SelectParts
  <1>4. NotHere \in -2..LastItem
    BY ItemsType DEF NotHere
  <1>5. SelectIs(select') /\ select'.drop = d /\ select'.focus = NotHere
        /\ select'.value = select.value /\ select'.text = select.text
        /\ select'.marked = select.marked
    BY ONLY <1>1, <1>3, <1>4, SelectPuts
  <1> QED BY <1>1, <1>2, <1>5 DEF SelectOk, Keyboard, Shows


\* A key on the input opens the list.
LEMMA KeyTriggerStep ==
    ASSUME NEW unseen \in BOOLEAN, SelectOk(select, unseen), NEW key, KeyTrigger(key)
    PROVE  SelectOk(select', unseen)
  <1>1. PICK d : d = DropOpen(select.drop)
    OBVIOUS
  <1>2. SelectIs(select) /\ Shows(select)
    BY DEF SelectOk
  <1>3. DropSound(select.drop) /\ select.drop.focusedIndex \in 0..LastItem /\ select.focus \in -2..LastItem
        /\ [select EXCEPT !.drop = d] = Put(select, d, select.focus)
    BY ONLY <1>2, SelectParts
  <1>4. select' = Put(select, d, select.focus) /\ WithinTimers(select'.drop)
        /\ ~select.drop.isOpen
    BY <1>1, <1>3 DEF KeyTrigger, SelectBecomes
  <1>5. DropSound(d) /\ SameList(d, select.drop) /\ (~select.drop.isOpen => "in" \in d.anim)
    BY ONLY <1>1, <1>3, OpenSound
  <1>6. d.focusedIndex \in 0..LastItem
    BY <1>3, <1>5 DEF SameList
  <1>7. SelectIs(select') /\ select'.drop = d
        /\ select'.value = select.value /\ select'.text = select.text
        /\ select'.marked = select.marked
    BY ONLY <1>2, <1>3, <1>4, <1>5, <1>6, SelectPuts
  <1> QED BY <1>2, <1>4, <1>5, <1>7 DEF SelectOk, Keyboard, Shows

\* Enter in the list clicks the item the list holds as focused.
LEMMA KeyEnterSound ==
    ASSUME NEW s, SelectIs(s), Shows(s), NEW t, t = KeyEnter(s)
    PROVE  SelectIs(t) /\ Shows(t) /\ t.focus = s.focus /\ t.drop.isOpen = s.drop.isOpen
  <1>1. PICK item : item = s.drop.focusedIndex
    OBVIOUS
  <1>2. CASE item = 0
    BY <1>1, <1>2 DEF KeyEnter
  <1>3. CASE item # 0
    <2>1. PICK d : d = ClickInside(s.drop)
      OBVIOUS
    <2>2. DropSound(s.drop) /\ s.drop.focusedIndex \in 0..LastItem /\ s.focus \in -2..LastItem
          /\ [s EXCEPT !.drop = d] = Put(s, d, s.focus)
      BY SelectParts
    <2>3. item \in Items
      BY <1>1, <1>3, <2>2, ItemsType
    <2>4. PICK r : r = Put(s, d, s.focus)
      OBVIOUS
    <2>5. t = OptionClick(r, item)
      <3>1. [s EXCEPT !.drop = DocumentClick(@, TRUE, TRUE)] = [s EXCEPT !.drop = d]
        BY <2>1 DEF ClickInside
      <3> QED BY <1>1, <1>3, <2>2, <2>4, <3>1 DEF KeyEnter
    <2>6. DropSound(d) /\ d.isOpen = s.drop.isOpen /\ d.focusedIndex = s.drop.focusedIndex
      BY ONLY <2>1, <2>2, ClicksSound
    <2>7. SelectIs(r) /\ r.drop = d /\ r.focus = s.focus
          /\ r.value = s.value /\ r.text = s.text /\ r.marked = s.marked
      BY ONLY <2>2, <2>4, <2>6, SelectIs(s), SelectPuts
    <2>8. Shows(r)
      BY <2>7 DEF Shows
    <2>9. SelectIs(t) /\ Shows(t) /\ t.drop = r.drop /\ t.focus = r.focus
      BY ONLY <2>3, <2>5, <2>7, <2>8, OptionSound
    <2> QED BY <2>6, <2>7, <2>9
  <1> QED BY <1>2, <1>3

\* Another key moves the focus in the list, or closes it.
LEMMA KeyMovesSound ==
    ASSUME NEW s, SelectIs(s), Shows(s), s.drop.isOpen, s.focus >= OnList, NEW key \in Keys,
           NEW t, t = KeyMoves(s, key)
    PROVE  SelectIs(t) /\ Shows(t) /\ (t.drop.isOpen => t.focus >= OnList)
  <1>1. PICK d : d = ListKeydown(s.drop, key, Items, OptionTexts)
    OBVIOUS
  <1>2. PICK S : S = Sought(s.drop, key, Items, OptionTexts)
    OBVIOUS
  <1>3. DropSound(s.drop) /\ s.drop.focusedIndex \in 0..LastItem /\ s.focus \in -2..LastItem
        /\ s.drop \in DropRecord /\ s \in SelectRecord
    BY SelectParts DEF SelectIs
  <1>4. LastItem \in Nat /\ Items \in SUBSET (1..LastItem) /\ DOMAIN OptionTexts \subseteq 1..LastItem
    BY ItemsType DEF Items
  <1>5. DropSound(d) /\ d.focusedIndex \in {0, s.drop.focusedIndex} \cup S
        /\ (d.isOpen /\ S # {} => d.focusedIndex \in S)
    BY ONLY <1>1, <1>2, <1>3, <1>4, KeydownSound, key \in Keys
  <1>6. S \subseteq 1..LastItem
    BY ONLY <1>2, <1>3, <1>4, SoughtType
  <1>7. d.focusedIndex \in 0..LastItem
    <2>1. 1..LastItem \subseteq 0..LastItem /\ 0 \in 0..LastItem
      BY ONLY <1>4
    <2> QED BY ONLY <1>3, <1>5, <1>6, <2>1
  <1>8. CASE ~d.isOpen
    <2>1. PICK c : c = DropClose(s.drop)
      OBVIOUS
    <2>2. PICK u : u = [s EXCEPT !.drop = c, !.focus = OnTrigger]
      OBVIOUS
    <2>3. CloseSelect(s) = u
      BY <2>1, <2>2 DEF CloseSelect
    <2>4. t = [u EXCEPT !.drop = d]
      BY <1>1, <1>8, <2>3 DEF KeyMoves
    <2>5. [u EXCEPT !.drop = d] = Put(s, d, OnTrigger)
      BY ONLY <1>3, <2>2, Zenon DEF SelectRecord, Put
    <2>6. OnTrigger \in -2..LastItem
      BY <1>4 DEF OnTrigger
    <2>7. t = Put(s, d, OnTrigger)
      BY ONLY <2>4, <2>5
    <2>8. SelectIs(t) /\ t.drop = d
          /\ t.value = s.value /\ t.text = s.text /\ t.marked = s.marked
      BY ONLY <1>5, <1>7, <2>6, <2>7, SelectIs(s), SelectPuts
    <2> QED BY <1>8, <2>8 DEF Shows
  <1>9. CASE d.isOpen
    <2>1. PICK f : f = IF S = {} THEN s.focus ELSE d.focusedIndex
      OBVIOUS
    <2>2. t = [s EXCEPT !.drop = d, !.focus = f]
      BY <1>1, <1>2, <1>9, <2>1 DEF KeyMoves
    <2>3. f \in -2..LastItem /\ f >= OnList
      <3>1. CASE S = {}
        BY <1>3, <2>1, <3>1
      <3>2. CASE S # {}
        <4>1. f \in S
          BY ONLY <1>5, <1>9, <2>1, <3>2
        <4>2. f \in 1..LastItem
          BY ONLY <1>6, <4>1
        <4> QED BY ONLY <1>4, <4>2 DEF OnList
      <3> QED BY <3>1, <3>2
    <2>4. t = Put(s, d, f)
      BY <2>2 DEF Put
    <2>5. SelectIs(t) /\ t.focus = f
          /\ t.value = s.value /\ t.text = s.text /\ t.marked = s.marked
      BY ONLY <1>5, <1>7, <2>3, <2>4, SelectIs(s), SelectPuts
    <2> QED BY <2>3, <2>5 DEF Shows
  <1> QED BY <1>8, <1>9

\* A key in the list.
LEMMA KeyListStep ==
    ASSUME NEW unseen \in BOOLEAN, SelectOk(select, unseen), NEW key \in Keys, KeyList(key)
    PROVE  SelectOk(select', unseen)
  <1>1. PICK s : s = IF key = "enter" THEN KeyEnter(select) ELSE select
    OBVIOUS
  <1>2. SelectIs(select) /\ Shows(select)
    BY DEF SelectOk
  <1>3. select.drop.isOpen /\ select.focus >= OnList
    BY DEF KeyList
  <1>4. SelectIs(s) /\ Shows(s) /\ s.focus = select.focus /\ s.drop.isOpen = select.drop.isOpen
    <2>1. CASE key = "enter"
      <3>1. s = KeyEnter(select)
        BY <1>1, <2>1
      <3> QED BY ONLY <1>2, <3>1, KeyEnterSound
    <2>2. CASE key # "enter"
      BY <1>1, <1>2, <2>2
    <2> QED BY <2>1, <2>2
  <1>5. select' = KeyMoves(s, key) /\ WithinTimers(select'.drop)
    BY <1>1 DEF KeyList, SelectBecomes
  <1>6. s.drop.isOpen /\ s.focus >= OnList
    BY <1>3, <1>4
  <1>7. SelectIs(select') /\ Shows(select') /\ (select'.drop.isOpen => select'.focus >= OnList)
    BY ONLY <1>4, <1>5, <1>6, KeyMovesSound, key \in Keys
  <1> QED BY <1>5, <1>7 DEF SelectOk, Keyboard

\* The timer of a click closes the list.
LEMMA SelectClosesStep ==
    ASSUME NEW unseen \in BOOLEAN, SelectOk(select, unseen), SelectCloses
    PROVE  SelectOk(select', unseen)
  <1>1. PICK d : d = DeferredClose(select.drop)
    OBVIOUS
  <1>2. PICK c : c = DropClose(select.drop)
    OBVIOUS
  <1>3. SelectIs(select) /\ Shows(select) /\ WithinTimers(select.drop)
    BY DEF SelectOk
  <1>4. DropSound(select.drop) /\ select.drop.focusedIndex \in 0..LastItem /\ select.focus \in -2..LastItem
        /\ select \in SelectRecord /\ select.drop \in DropRecord
    BY <1>3, SelectParts DEF SelectIs
  <1>5. PICK f : f = IF select.drop.isOpen THEN OnTrigger ELSE select.focus
    OBVIOUS
  <1>6. PICK u : u = [select EXCEPT !.drop = c, !.focus = f]
    OBVIOUS
  <1>7. CloseSelect(select) = u
    BY <1>2, <1>5, <1>6 DEF CloseSelect
  <1>8. select' = [u EXCEPT !.drop = d] /\ select.drop.closes > 0
    BY <1>1, <1>7 DEF SelectCloses
  <1>9. [u EXCEPT !.drop = d] = Put(select, d, f)
    BY ONLY <1>4, <1>6, Zenon DEF SelectRecord, Put
  <1>10. select' = Put(select, d, f)
    BY ONLY <1>8, <1>9
  <1>11. f \in -2..LastItem
    BY <1>4, <1>5, ItemsType DEF OnTrigger
  <1>12. DropSound(d) /\ ~d.isOpen /\ d.resets = select.drop.resets
         /\ d.closes \in 0..select.drop.closes /\ d.focusedIndex \in {0, select.drop.focusedIndex}
    BY ONLY <1>1, <1>4, <1>8, DeferredSound
  <1>13. d.focusedIndex \in 0..LastItem
    BY <1>4, <1>12, ItemsType
  <1>14. SelectIs(select') /\ select'.drop = d
         /\ select'.value = select.value /\ select'.text = select.text
         /\ select'.marked = select.marked
    BY ONLY <1>3, <1>10, <1>11, <1>12, <1>13, SelectPuts
  <1>15. WithinTimers(d)
    <2>1. select.drop.closes \in Nat
      BY <1>4 DEF DropRecord
    <2> QED BY <1>3, <1>12, <2>1, FormAssumption DEF WithinTimers
  <1> QED BY <1>3, <1>12, <1>14, <1>15 DEF SelectOk, Keyboard, Shows

\* The timer of a letter forgets the letters.
LEMMA SelectForgetsStep ==
    ASSUME NEW unseen \in BOOLEAN, SelectOk(select, unseen), SelectForgets
    PROVE  SelectOk(select', unseen) /\ select'.focus = select.focus
  <1>1. PICK d : d = ResetQuery(select.drop)
    OBVIOUS
  <1>2. SelectIs(select) /\ Shows(select) /\ WithinTimers(select.drop) /\ Keyboard(select, unseen)
    BY DEF SelectOk
  <1>3. DropSound(select.drop) /\ select.drop.focusedIndex \in 0..LastItem /\ select.focus \in -2..LastItem
        /\ [select EXCEPT !.drop = d] = Put(select, d, select.focus)
        /\ select.drop \in DropRecord
    BY <1>2, SelectParts DEF SelectIs
  <1>4. select' = Put(select, d, select.focus) /\ select.drop.resets > 0
    BY <1>1, <1>3 DEF SelectForgets
  <1>5. DropSound(d) /\ d.isOpen = select.drop.isOpen /\ d.anim = select.drop.anim
        /\ d.focusedIndex = select.drop.focusedIndex
        /\ d.closes = select.drop.closes /\ d.resets \in 0..select.drop.resets
    BY ONLY <1>1, <1>3, <1>4, ResetSound
  <1>6. SelectIs(select') /\ select'.drop = d /\ select'.focus = select.focus
        /\ select'.value = select.value /\ select'.text = select.text
        /\ select'.marked = select.marked
    BY ONLY <1>2, <1>3, <1>4, <1>5, SelectPuts
  <1>7. WithinTimers(d)
    <2>1. select.drop.resets \in Nat
      BY <1>3 DEF DropRecord
    <2> QED BY <1>2, <1>5, <2>1, FormAssumption DEF WithinTimers
  <1> QED BY <1>2, <1>5, <1>6, <1>7 DEF SelectOk, Keyboard, Shows

\* The list is in: the item that is marked gets the focus.
LEMMA SelectOpenedStep ==
    ASSUME NEW unseen \in BOOLEAN, SelectOk(select, unseen), SelectOpened
    PROVE  SelectOk(select', unseen)
  <1>1. SelectIs(select) /\ Shows(select) /\ WithinTimers(select.drop)
    BY DEF SelectOk
  <1>2. PICK v : v = select.value
    OBVIOUS
  <1>3. v \in Items /\ select.marked = {v} /\ v <= v
    BY <1>1, <1>2, SelectParts, ItemsType DEF Shows
  <1>4. v = CHOOSE item \in select.marked : \A other \in select.marked : item <= other
    BY <1>3
  <1>5. PICK a : a = AnimatedIn(select.drop)
    OBVIOUS
  <1>6. PICK d : d = [a EXCEPT !.focusedIndex = v]
    OBVIOUS
  <1>7. select' = [select EXCEPT !.focus = v,
                                 !.drop = [AnimatedIn(@) EXCEPT !.focusedIndex = v]]
    BY ONLY SelectOpened, <1>4 DEF SelectOpened
  <1>8. DropSound(select.drop) /\ select \in SelectRecord
    BY <1>1, SelectParts DEF SelectIs
  <1>9. [select EXCEPT !.focus = v, !.drop = [AnimatedIn(@) EXCEPT !.focusedIndex = v]]
            = Put(select, d, v)
    BY ONLY <1>5, <1>6, <1>8, Zenon DEF SelectRecord, Put
  <1>10. DropSound(a) /\ SameList(a, select.drop)
    BY ONLY <1>5, <1>8, AnimatedSound
  <1>11. a \in DropRecord /\ v \in Nat /\ v \in 0..LastItem /\ v \in -2..LastItem /\ v >= OnList
    BY <1>3, <1>10, ItemsType DEF DropSound
  <1>12. /\ d \in DropRecord /\ d.isOpen = a.isOpen /\ d.focusedIndex = v
         /\ d.closes = a.closes /\ d.resets = a.resets
    BY ONLY <1>6, <1>11, Zenon DEF DropRecord
  <1>13. d.shown = a.shown /\ d.anim = a.anim
    BY ONLY <1>6, <1>11, Zenon DEF DropRecord
  <1>14. DropSound(d) /\ WithinTimers(d)
    BY <1>1, <1>10, <1>12, <1>13 DEF DropSound, SameList, WithinTimers
  <1>15. d.focusedIndex \in 0..LastItem /\ select' = Put(select, d, v) /\ v \in -2..LastItem
    BY ONLY <1>7, <1>9, <1>11, <1>12
  <1>16. SelectIs(select') /\ select'.drop = d /\ select'.focus = v
         /\ select'.value = select.value /\ select'.text = select.text
         /\ select'.marked = select.marked
    BY ONLY <1>1, <1>14, <1>15, SelectPuts
  <1> QED BY <1>1, <1>11, <1>14, <1>16 DEF SelectOk, Keyboard, Shows

\* The list is out, and the focus it had is lost.
LEMMA SelectHiddenStep ==
    ASSUME NEW unseen \in BOOLEAN, SelectOk(select, unseen), SelectHidden
    PROVE  SelectOk(select', unseen) /\ select'.focus \in {select.focus, NotHere}
  <1>1. SelectIs(select) /\ Shows(select) /\ WithinTimers(select.drop)
    BY DEF SelectOk
  <1>2. PICK d : d = AnimatedOut(select.drop)
    OBVIOUS
  <1>3. PICK f : f = IF select.focus >= OnList THEN NotHere ELSE select.focus
    OBVIOUS
  <1>4. DropSound(select.drop) /\ select \in SelectRecord /\ select.focus \in -2..LastItem
        /\ select.drop.focusedIndex \in 0..LastItem
    BY <1>1, SelectParts DEF SelectIs
  <1>5. select' = Put(select, d, f) /\ "out" \in select.drop.anim
    BY <1>2, <1>3 DEF SelectHidden, Put
  <1>6. DropSound(d) /\ ~d.isOpen /\ SameList(d, select.drop)
    BY ONLY <1>2, <1>4, <1>5, AnimatedSound
  <1>7. d.focusedIndex \in 0..LastItem /\ f \in -2..LastItem /\ WithinTimers(d)
    BY <1>1, <1>3, <1>4, <1>6, ItemsType DEF SameList, WithinTimers, NotHere
  <1>8. SelectIs(select') /\ select'.drop = d /\ select'.focus = f
        /\ select'.value = select.value /\ select'.text = select.text
        /\ select'.marked = select.marked
    BY ONLY <1>1, <1>5, <1>6, <1>7, SelectPuts
  <1> QED BY <1>1, <1>3, <1>6, <1>7, <1>8 DEF SelectOk, Keyboard, Shows

-----------------------------------------------------------------------------
(* Sequences *)

\* The elements of a finite set that a chain of sets ranks have the ranks from
\* one to their number.
LEMMA Ranks ==
    ASSUME NEW S, IsFiniteSet(S), NEW below \in [S -> SUBSET S],
           \A i \in S : i \in below[i],
           \A i, j \in S : i # j => \/ below[i] \subseteq below[j] /\ j \notin below[i]
                                    \/ below[j] \subseteq below[i] /\ i \notin below[j]
    PROVE  \A k \in 1..Cardinality(S) : \E i \in S : Cardinality(below[i]) = k
  <1>1. Cardinality(S) \in Nat
    BY FS_CardinalityType
  <1>2. ASSUME NEW i \in S
        PROVE  Cardinality(below[i]) \in 1..Cardinality(S) /\ IsFiniteSet(below[i])
    <2>1. IsFiniteSet(below[i]) /\ Cardinality(below[i]) <= Cardinality(S)
      BY FS_Subset, below[i] \in SUBSET S
    <2>2. Cardinality(below[i]) \in Nat
      BY ONLY <2>1, FS_CardinalityType
    <2>3. below[i] # {}
      OBVIOUS
    <2>4. Cardinality(below[i]) # 0
      BY ONLY <2>1, <2>3, FS_EmptySet
    <2> QED BY <1>1, <2>1, <2>2, <2>4
  <1>3. ASSUME NEW i \in S, NEW j \in S, below[i] \subseteq below[j], j \notin below[i]
        PROVE  Cardinality(below[i]) # Cardinality(below[j])
    <2>1. below[i] # below[j]
      BY <1>3
    <2>2. below[i] \in SUBSET below[j]
      BY <1>3
    <2> QED BY ONLY <1>2, <2>1, <2>2, FS_Subset, j \in S
  <1>4. PICK f \in [S -> 1..Cardinality(S)] : f = [i \in S |-> Cardinality(below[i])]
    BY <1>2
  <1>5. \A i, j \in S : f[i] = f[j] => i = j
    <2>1. \A i \in S : f[i] = Cardinality(below[i])
      BY <1>4
    <2> QED BY <1>3, <2>1
  <1>6. f \in Injection(S, 1..Cardinality(S))
    BY <1>5 DEF Injection, IsInjective
  <1>7. IsFiniteSet(1..Cardinality(S)) /\ Cardinality(1..Cardinality(S)) = Cardinality(S)
    BY <1>1, FS_Interval
  <1>8. f \in Surjection(S, 1..Cardinality(S))
    BY ONLY <1>6, <1>7, FS_Injection
  <1> QED BY <1>4, <1>8 DEF Surjection

\* No element twice.
OneOnly(s) == \A i, j \in DOMAIN s : s[i] = s[j] => i = j

\* t is s without its m-th element.
IsWithout(t, s, m) == /\ Len(t) = Len(s) - 1
                      /\ \A k \in 1..Len(s) - 1 : t[k] = IF k < m THEN s[k] ELSE s[k + 1]

\* What is left when an element is removed.
LEMMA Removed ==
    ASSUME NEW S, NEW s \in Seq(S), NEW m \in 1..Len(s), NEW t, t = RemoveAt(s, m)
    PROVE  t \in Seq(S) /\ IsWithout(t, s, m)
  <1>1. Len(s) \in Nat /\ \A i \in 1..Len(s) : s[i] \in S
    BY LenProperties, ElementOfSeq
  <1>2. PICK a : a = SubSeq(s, 1, m - 1)
    OBVIOUS
  <1>3. PICK b : b = SubSeq(s, m + 1, Len(s))
    OBVIOUS
  <1>4. a \in Seq(S) /\ Len(a) = m - 1 /\ \A k \in 1..m - 1 : a[k] = s[k]
    <2>1. \A i \in 1..m - 1 : s[i] \in S
      BY <1>1
    <2>2. m - 1 \in Int /\ 1 \in Int
      BY <1>1
    <2>3. /\ a \in Seq(S) /\ Len(a) = IF 1 <= m - 1 THEN m - 1 - 1 + 1 ELSE 0
          /\ \A i \in 1..(m - 1) - 1 + 1 : a[i] = s[1 + i - 1]
      BY ONLY <1>2, <2>1, <2>2, SubSeqProperties
    <2> QED BY <1>1, <2>3
  <1>5. b \in Seq(S) /\ Len(b) = Len(s) - m /\ \A k \in 1..Len(s) - m : b[k] = s[m + k]
    <2>1. \A i \in m + 1..Len(s) : s[i] \in S
      BY <1>1
    <2>2. m + 1 \in Int /\ Len(s) \in Int
      BY <1>1
    <2>3. /\ b \in Seq(S) /\ Len(b) = IF m + 1 <= Len(s) THEN Len(s) - (m + 1) + 1 ELSE 0
          /\ \A i \in 1..Len(s) - (m + 1) + 1 : b[i] = s[m + 1 + i - 1]
      BY ONLY <1>3, <2>1, <2>2, SubSeqProperties
    <2> QED BY <1>1, <2>3
  <1>6. t = a \o b
    BY <1>2, <1>3 DEF RemoveAt
  <1>7. /\ t \in Seq(S) /\ Len(t) = Len(a) + Len(b)
        /\ \A i \in 1..Len(a) + Len(b) : t[i] = IF i <= Len(a) THEN a[i] ELSE b[i - Len(a)]
    BY ONLY <1>4, <1>5, <1>6, ConcatProperties
  <1>8. /\ Len(t) = Len(s) - 1
        /\ \A i \in 1..Len(s) - 1 : t[i] = IF i <= m - 1 THEN a[i] ELSE b[i - (m - 1)]
    <2>1. Len(a) + Len(b) = Len(s) - 1
      BY ONLY <1>1, <1>4, <1>5, m \in 1..Len(s)
    <2> QED BY ONLY <1>4, <1>7, <2>1
  <1>9. ASSUME NEW k \in 1..Len(s) - 1
        PROVE  t[k] = IF k < m THEN s[k] ELSE s[k + 1]
    <2>1. CASE k < m
      <3>1. k \in 1..m - 1 /\ k <= m - 1
        BY ONLY <1>1, <2>1, k \in 1..Len(s) - 1, m \in 1..Len(s)
      <3> QED BY ONLY <1>4, <1>8, <2>1, <3>1, k \in 1..Len(s) - 1
    <2>2. CASE ~(k < m)
      <3>1. t[k] = b[k - (m - 1)]
        <4>1. ~(k <= m - 1)
          BY ONLY <1>1, <2>2, k \in 1..Len(s) - 1, m \in 1..Len(s)
        <4> QED BY ONLY <1>8, <4>1, k \in 1..Len(s) - 1
      <3>2. k - (m - 1) \in 1..Len(s) - m /\ m + (k - (m - 1)) = k + 1
        BY <1>1, <2>2
      <3> QED BY <1>5, <2>2, <3>1, <3>2
    <2> QED BY <2>1, <2>2
  <1> QED BY ONLY <1>7, <1>8, <1>9 DEF IsWithout

\* No element twice: then none is when one is removed, and it is gone.
LEMMA RemovedOnce ==
    ASSUME NEW S, NEW s \in Seq(S), OneOnly(s), NEW m \in 1..Len(s), NEW t, t = RemoveAt(s, m)
    PROVE  OneOnly(t) /\ ToSet(t) = ToSet(s) \ {s[m]}
  <1>1. /\ t \in Seq(S) /\ Len(t) = Len(s) - 1
        /\ \A k \in 1..Len(s) - 1 : t[k] = IF k < m THEN s[k] ELSE s[k + 1]
    <2>1. t \in Seq(S) /\ IsWithout(t, s, m)
      BY ONLY Removed, s \in Seq(S), m \in 1..Len(s), t = RemoveAt(s, m)
    <2> QED BY ONLY <2>1 DEF IsWithout
  <1>2. Len(s) \in Nat /\ DOMAIN s = 1..Len(s) /\ DOMAIN t = 1..Len(s) - 1
    BY <1>1, LenProperties
  <1>3. OneOnly(t)
    <2>1. \A k \in DOMAIN t : \E i \in DOMAIN s :
              t[k] = s[i] /\ i = IF k < m THEN k ELSE k + 1
      BY <1>1, <1>2
    <2> QED BY <1>2, <2>1 DEF OneOnly
  <1>4. ASSUME NEW k \in DOMAIN t
        PROVE  t[k] \in ToSet(s) \ {s[m]}
    <2>1. PICK i \in DOMAIN s : t[k] = s[i] /\ i # m
      BY <1>1, <1>2
    <2>2. m \in DOMAIN s /\ s[i] # s[m]
      BY <1>2, <2>1 DEF OneOnly
    <2> QED BY <2>1, <2>2 DEF ToSet
  <1>5. ASSUME NEW i \in DOMAIN s, s[i] # s[m]
        PROVE  \E k \in DOMAIN t : t[k] = s[i]
    <2>1. CASE i < m
      BY <1>1, <1>2, <2>1
    <2>2. CASE i > m
      <3>1. i - 1 \in DOMAIN t /\ t[i - 1] = s[i]
        BY <1>1, <1>2, <2>2
      <3> QED BY <3>1
    <2> QED BY <1>2, <1>5, <2>1, <2>2
  <1> QED BY <1>3, <1>4, <1>5 DEF ToSet

\* An element is added.
LEMMA Appended ==
    ASSUME NEW S, NEW s \in Seq(S), OneOnly(s), NEW e \in S, e \notin ToSet(s)
    PROVE  /\ Append(s, e) \in Seq(S) /\ OneOnly(Append(s, e))
           /\ ToSet(Append(s, e)) = ToSet(s) \cup {e}
  <1>1. PICK t : t = Append(s, e)
    OBVIOUS
  <1>2. /\ t \in Seq(S) /\ Len(t) = Len(s) + 1 /\ t[Len(s) + 1] = e
        /\ \A i \in 1..Len(s) : t[i] = s[i]
    BY <1>1, AppendProperties
  <1>3. Len(s) \in Nat /\ DOMAIN s = 1..Len(s) /\ DOMAIN t = 1..Len(s) + 1
    BY <1>2, LenProperties
  <1>4. \A i \in DOMAIN s : s[i] # e
    BY DEF ToSet
  <1>5. DOMAIN t = DOMAIN s \cup {Len(s) + 1}
    BY <1>3
  <1>6. OneOnly(t)
    BY <1>2, <1>3, <1>4, <1>5 DEF OneOnly
  <1>7. ToSet(t) = ToSet(s) \cup {e}
    BY <1>2, <1>3, <1>5 DEF ToSet
  <1> QED BY <1>1, <1>2, <1>6, <1>7

\* Where no element is twice, the elements other than one are those left when it
\* is removed.
LEMMA WithoutIsRemoved ==
    ASSUME NEW S, NEW s \in Seq(S), OneOnly(s), NEW m \in 1..Len(s)
    PROVE  Without(s, s[m]) = RemoveAt(s, m)
  <1> DEFINE kept == {i \in DOMAIN s : s[i] # s[m]}
             upTo(i) == {j \in kept : j <= i}
             nth(k) == CHOOSE i \in kept : Cardinality(upTo(i)) = k
  <1>1. Len(s) \in Nat /\ DOMAIN s = 1..Len(s)
    BY LenProperties
  <1>2. kept = (1..Len(s)) \ {m}
    BY <1>1 DEF OneOnly
  <1>3. Cardinality(kept) = Len(s) - 1
    <2>1. IsFiniteSet(1..Len(s)) /\ Cardinality(1..Len(s)) = Len(s)
      <3>1. 1 \in Int /\ Len(s) \in Int /\ Len(s) >= 0
        BY ONLY <1>1
      <3>2. Cardinality(1..Len(s)) = (IF 1 > Len(s) THEN 0 ELSE Len(s) - 1 + 1)
            /\ IsFiniteSet(1..Len(s))
        BY ONLY <3>1, FS_Interval
      <3> QED BY ONLY <3>1, <3>2
    <2>2. Cardinality((1..Len(s)) \ {m}) = Cardinality(1..Len(s)) - 1
      BY ONLY <2>1, FS_RemoveElement, m \in 1..Len(s)
    <2> QED BY ONLY <1>2, <2>1, <2>2
  <1>4. ASSUME NEW i \in kept
        PROVE  Cardinality(upTo(i)) = IF i < m THEN i ELSE i - 1
    <2>1. IsFiniteSet(1..i) /\ Cardinality(1..i) = i /\ i \in Nat
      <3>1. 1 \in Int /\ i \in Int /\ i >= 1 /\ i \in Nat
        BY <1>1, <1>2
      <3>2. Cardinality(1..i) = (IF 1 > i THEN 0 ELSE i - 1 + 1) /\ IsFiniteSet(1..i)
        BY ONLY <3>1, FS_Interval
      <3> QED BY ONLY <3>1, <3>2
    <2>2. CASE i < m
      <3>1. upTo(i) = 1..i
        BY <1>1, <1>2, <2>2
      <3> QED BY <2>1, <2>2, <3>1
    <2>3. CASE ~(i < m)
      <3>1. upTo(i) = (1..i) \ {m} /\ m \in 1..i
        BY <1>1, <1>2, <2>3
      <3>2. Cardinality((1..i) \ {m}) = Cardinality(1..i) - 1
        BY ONLY <2>1, <3>1, FS_RemoveElement
      <3> QED BY ONLY <2>1, <2>3, <3>1, <3>2
    <2> QED BY <2>2, <2>3
  <1> HIDE DEF upTo
  <1>5. ASSUME NEW k \in 1..Len(s) - 1
        PROVE  nth(k) = IF k < m THEN k ELSE k + 1
    <2>1. PICK n : n = IF k < m THEN k ELSE k + 1
      OBVIOUS
    <2>2. n \in kept /\ \A i \in kept : (IF i < m THEN i ELSE i - 1) = k <=> i = n
      <3> HIDE DEF kept
      <3> QED BY <1>1, <1>2, <2>1
    <2>3. \A i \in kept : Cardinality(upTo(i)) = k <=> i = n
      BY ONLY <1>4, <2>2
    <2>4. nth(k) = n
      BY ONLY <2>2, <2>3
    <2> QED BY <2>1, <2>4
  <1>6. PICK t : t = RemoveAt(s, m)
    OBVIOUS
  <1>7. /\ t \in Seq(S) /\ Len(t) = Len(s) - 1
        /\ \A k \in 1..Len(s) - 1 : t[k] = IF k < m THEN s[k] ELSE s[k + 1]
    <2>1. t \in Seq(S) /\ IsWithout(t, s, m)
      BY ONLY <1>6, Removed, s \in Seq(S), m \in 1..Len(s)
    <2> QED BY ONLY <2>1 DEF IsWithout
  <1>8. t = [k \in 1..Len(s) - 1 |-> t[k]]
    BY ONLY <1>7, LenProperties
  <1>9. Without(s, s[m]) = [k \in 1..Cardinality(kept) |-> s[nth(k)]]
    BY DEF Without, upTo
  <1> HIDE DEF nth, kept
  <1>10. \A k \in 1..Len(s) - 1 : s[nth(k)] = t[k]
    BY ONLY <1>5, <1>7
  <1> QED BY ONLY <1>3, <1>6, <1>8, <1>9, <1>10

-----------------------------------------------------------------------------
(* The completion *)

\* The names that match a text are names, and no more than are configured.
LEMMA MatchingSound ==
    ASSUME NEW text, NEW s, s = Matching(text)
    PROVE  s \in Seq(Names) /\ Len(s) \in 0..Len(Components)
  <1> DEFINE at(i) == Position(Components[i], text)
             found == {i \in DOMAIN Components : at(i) > 0}
             before(i) == {j \in found : at(j) < at(i) \/ (at(j) = at(i) /\ j <= i)}
             nth(k) == CHOOSE i \in found : Cardinality(before(i)) = k
  <1>1. Components \in Seq(Names) /\ Len(Components) \in Nat
        /\ DOMAIN Components = 1..Len(Components)
        /\ \A i \in DOMAIN Components : Components[i] \in Names
    BY FormAssumption, LenProperties, ElementOfSeq
  <1>2. ASSUME NEW i \in DOMAIN Components
        PROVE  at(i) \in Nat
    <2>1. PICK S : S = {k \in 1..Len(Components[i]) :
                           k + Len(text) - 1 <= Len(Components[i])
                           /\ SubSeq(Components[i], k, k + Len(text) - 1) = text}
      OBVIOUS
    <2>2. at(i) = IF S = {} THEN 0 ELSE Min(S)
      BY <2>1 DEF Position
    <2>3. S \in SUBSET Nat
      BY <2>1
    <2>4. CASE S = {}
      BY ONLY <2>2, <2>4
    <2>5. CASE S # {}
      <3>1. Min(S) \in S
        BY ONLY <2>3, <2>5, LeastOf
      <3> QED BY ONLY <2>2, <2>3, <2>5, <3>1
    <2> QED BY ONLY <2>4, <2>5
  <1> HIDE DEF at
  <1>3. IsFiniteSet(found) /\ Cardinality(found) \in 0..Len(Components)
    <2>1. IsFiniteSet(1..Len(Components)) /\ Cardinality(1..Len(Components)) = Len(Components)
      BY <1>1, FS_Interval
    <2>2. found \in SUBSET (1..Len(Components))
      BY <1>1
    <2>3. IsFiniteSet(found) /\ Cardinality(found) <= Cardinality(1..Len(Components))
      BY ONLY <2>1, <2>2, FS_Subset
    <2>4. Cardinality(found) \in Nat
      BY ONLY <2>3, FS_CardinalityType
    <2> QED BY ONLY <1>1, <2>1, <2>3, <2>4
  <1>4. \A i \in found : at(i) \in Nat /\ i \in Nat
    BY <1>1, <1>2
  <1>5. PICK below \in [found -> SUBSET found] : below = [i \in found |-> before(i)]
    OBVIOUS
  <1>6. \A i \in found : below[i] = before(i)
    BY ONLY <1>5
  <1>7. ASSUME NEW i \in found, NEW j \in found, i # j
        PROVE  \/ before(i) \subseteq before(j) /\ j \notin before(i)
               \/ before(j) \subseteq before(i) /\ i \notin before(j)
    <2>1. i \in before(i) /\ j \in before(j)
      BY <1>4
    <2> HIDE DEF found
    <2>2. CASE at(i) < at(j) \/ (at(i) = at(j) /\ i < j)
      BY ONLY <1>4, <2>2, i \in found, j \in found
    <2>3. CASE at(j) < at(i) \/ (at(i) = at(j) /\ j < i)
      BY ONLY <1>4, <2>3, i \in found, j \in found
    <2> QED BY ONLY <1>4, <2>2, <2>3, i \in found, j \in found, i # j
  <1>8. \A i \in found : i \in before(i)
    BY <1>4
  <1>9. s = [k \in 1..Cardinality(found) |-> Components[nth(k)]]
    BY DEF Matching, at
  <1>10. \A i \in found : Components[i] \in Names
    BY <1>1
  <1> HIDE DEF found, before
  <1>11. \A k \in 1..Cardinality(found) : \E i \in found : Cardinality(before(i)) = k
    <2>1. /\ \A i \in found : i \in below[i]
          /\ \A i, j \in found : i # j => \/ below[i] \subseteq below[j] /\ j \notin below[i]
                                          \/ below[j] \subseteq below[i] /\ i \notin below[j]
      BY ONLY <1>6, <1>7, <1>8
    <2>2. \A k \in 1..Cardinality(found) : \E i \in found : Cardinality(below[i]) = k
      BY ONLY <1>3, <1>5, <2>1, Ranks
    <2> QED BY ONLY <1>6, <2>2
  <1>12. \A k \in 1..Cardinality(found) : nth(k) \in found
    BY ONLY <1>11
  <1> HIDE DEF nth
  <1>13. \A k \in 1..Cardinality(found) : Components[nth(k)] \in Names
    BY ONLY <1>10, <1>12
  <1>14. s \in Seq(Names) /\ Len(s) = Cardinality(found)
    BY ONLY <1>3, <1>9, <1>13
  <1> QED BY ONLY <1>3, <1>14

-----------------------------------------------------------------------------
(* The field *)

Parts == {"value", "options", "active", "oldVal", "isOpen", "mousedown", "drop", "data",
          "els", "dom", "selected", "keydown", "tabPressed", "focus", "strayed", "unseen"}

\* Its parts: what is typed, and the list of the completion,
TextIs(w) == /\ w.value \in Seq(STRING)
             /\ w.options \in Seq(Names) /\ Len(w.options) \in 0..Len(Components)
             /\ w.active \in 0..Len(w.options)

\* the chips, kept three times, none twice,
DataIs(w) == /\ w.data \in Seq(Names) /\ OneOnly(w.data)
             /\ w.els = w.data /\ w.dom = w.data

\* the focus, and the chip selected,
FocusIs(w) == /\ w.focus \in ToSet(w.data) \cup {Away, Input, List}
              /\ w.selected \in ToSet(w.data) \cup {NoChip, Gone}

\* and the dropdown.
ListIs(p) == DropSound(p) /\ p.focusedIndex \in 0..Len(Components)

Flags(w) == /\ w.isOpen \in BOOLEAN /\ w.mousedown \in BOOLEAN /\ w.keydown \in BOOLEAN
            /\ w.tabPressed \in BOOLEAN /\ w.strayed \in BOOLEAN /\ w.unseen \in BOOLEAN

FieldIs(w) == /\ DOMAIN w = Parts /\ Flags(w)
              /\ TextIs(w) /\ DataIs(w) /\ FocusIs(w) /\ ListIs(w.drop)

\* The open list belongs to the input that has the focus, or is about to close,
\* or the mouse is down in it.
Listed(w) == w.drop.isOpen => w.focus = Input \/ w.drop.closes > 0 \/ w.mousedown

\* The chip that has the focus is the selected one.
Selects(w) == w.focus \in ToSet(w.data) /\ ~w.strayed => w.selected = w.focus

\* The timers, the chips, the text and the keys are those of w.
Timers(q, w) == q.drop.closes = w.drop.closes /\ q.drop.resets = w.drop.resets
Keeps(q, w) == /\ q.data = w.data /\ q.value = w.value
               /\ q.keydown = w.keydown /\ q.unseen = w.unseen

\* The dropdown of a field changes.
LEMMA DropPut ==
    ASSUME NEW w, FieldIs(w), NEW p, ListIs(p), NEW q, q = [w EXCEPT !.drop = p]
    PROVE  /\ FieldIs(q) /\ q.drop = p /\ Keeps(q, w)
           /\ q.focus = w.focus /\ q.selected = w.selected /\ q.strayed = w.strayed
           /\ q.options = w.options /\ q.active = w.active /\ q.mousedown = w.mousedown
           /\ q.isOpen = w.isOpen /\ q.tabPressed = w.tabPressed
  <1>1. DOMAIN w = Parts
    BY DEF FieldIs
  <1>2. /\ DOMAIN q = Parts /\ q.drop = p
        /\ q.value = w.value /\ q.options = w.options /\ q.active = w.active
        /\ q.isOpen = w.isOpen /\ q.mousedown = w.mousedown /\ q.tabPressed = w.tabPressed
        /\ q.data = w.data /\ q.els = w.els /\ q.dom = w.dom /\ q.selected = w.selected
        /\ q.keydown = w.keydown /\ q.focus = w.focus /\ q.strayed = w.strayed
        /\ q.unseen = w.unseen
    BY ONLY <1>1, q = [w EXCEPT !.drop = p] DEF Parts
  <1> QED BY <1>2 DEF FieldIs, Flags, TextIs, DataIs, FocusIs, Keeps

\* The completion is reset.
LEMMA ResetsField ==
    ASSUME NEW w, FieldIs(w), NEW q, q = ResetAutocomplete(w)
    PROVE  /\ FieldIs(q) /\ q.drop = w.drop /\ Keeps(q, w)
           /\ q.focus = w.focus /\ q.selected = w.selected /\ q.strayed = w.strayed
           /\ q.tabPressed = w.tabPressed /\ q.isOpen = FALSE
  <1>1. DOMAIN w = Parts
    BY DEF FieldIs
  <1>2. PICK e : e = <<>> /\ e \in Seq(Names) /\ Len(e) = 0
    BY EmptySeq
  <1>3. q = [w EXCEPT !.options = e, !.active = 0, !.oldVal = NoText,
                      !.isOpen = FALSE, !.mousedown = FALSE]
    BY <1>2 DEF ResetAutocomplete
  <1>4. /\ DOMAIN q = Parts /\ q.drop = w.drop
        /\ q.value = w.value /\ q.options = e /\ q.active = 0
        /\ q.isOpen = FALSE /\ q.mousedown = FALSE /\ q.tabPressed = w.tabPressed
        /\ q.data = w.data /\ q.els = w.els /\ q.dom = w.dom /\ q.selected = w.selected
        /\ q.keydown = w.keydown /\ q.focus = w.focus /\ q.strayed = w.strayed
        /\ q.unseen = w.unseen
    BY ONLY <1>1, <1>3 DEF Parts
  <1>5. TextIs(q)
    <2>1. Len(Components) \in Nat
      BY FormAssumption, LenProperties
    <2>2. w.value \in Seq(STRING)
      BY DEF FieldIs, TextIs
    <2> QED BY ONLY <1>2, <1>4, <2>1, <2>2 DEF TextIs
  <1> QED BY <1>4, <1>5 DEF FieldIs, Flags, DataIs, FocusIs, Keeps

\* The list of the completion opens, with the names that match the text.
LEMMA OpensField ==
    ASSUME NEW w, FieldIs(w), NEW q, q = OpenList(w)
    PROVE  /\ FieldIs(q) /\ Keeps(q, w) /\ Timers(q, w)
           /\ q.focus = w.focus /\ q.selected = w.selected /\ q.strayed = w.strayed
           /\ q.tabPressed = w.tabPressed
  <1>1. PICK u : u = [w EXCEPT !.isOpen = TRUE]
    OBVIOUS
  <1>2. DOMAIN w = Parts
    BY DEF FieldIs
  <1>3. /\ DOMAIN u = Parts /\ u.drop = w.drop
        /\ u.value = w.value /\ u.options = w.options /\ u.active = w.active
        /\ u.isOpen = TRUE /\ u.mousedown = w.mousedown /\ u.tabPressed = w.tabPressed
        /\ u.data = w.data /\ u.els = w.els /\ u.dom = w.dom /\ u.selected = w.selected
        /\ u.keydown = w.keydown /\ u.focus = w.focus /\ u.strayed = w.strayed
        /\ u.unseen = w.unseen
    BY ONLY <1>1, <1>2 DEF Parts
  <1>4. FieldIs(u)
    BY <1>3 DEF FieldIs, Flags, TextIs, DataIs, FocusIs
  <1>5. PICK r : r = ResetAutocomplete(u)
    OBVIOUS
  <1>6. /\ FieldIs(r) /\ r.drop = u.drop /\ Keeps(r, u)
        /\ r.focus = u.focus /\ r.selected = u.selected /\ r.strayed = u.strayed
        /\ r.tabPressed = u.tabPressed
    BY ONLY <1>4, <1>5, ResetsField
  <1>7. PICK m : m = Matching(u.value)
    OBVIOUS
  <1>8. m \in Seq(Names) /\ Len(m) \in 0..Len(Components)
    BY ONLY <1>7, MatchingSound
  <1>9. PICK s : s = [r EXCEPT !.options = m]
    OBVIOUS
  <1>10. r.active = 0 /\ DOMAIN r = Parts
    <2>1. r.active = 0
      BY ONLY <1>3, <1>5 DEF ResetAutocomplete, Parts
    <2> QED BY <1>6, <2>1 DEF FieldIs
  <1>11. /\ DOMAIN s = Parts /\ s.drop = r.drop
         /\ s.value = r.value /\ s.options = m /\ s.active = 0
         /\ s.isOpen = r.isOpen /\ s.mousedown = r.mousedown /\ s.tabPressed = r.tabPressed
         /\ s.data = r.data /\ s.els = r.els /\ s.dom = r.dom /\ s.selected = r.selected
         /\ s.keydown = r.keydown /\ s.focus = r.focus /\ s.strayed = r.strayed
         /\ s.unseen = r.unseen
    BY ONLY <1>9, <1>10 DEF Parts
  <1>12. FieldIs(s)
    <2>1. TextIs(s)
      <3>1. r.value \in Seq(STRING)
        BY <1>6 DEF FieldIs, TextIs
      <3>2. 0 \in 0..Len(m)
        BY ONLY <1>8
      <3> QED BY ONLY <1>8, <1>11, <3>1, <3>2 DEF TextIs
    <2> QED BY <1>6, <1>11, <2>1 DEF FieldIs, Flags, DataIs, FocusIs
  <1>13. PICK p : p = DropOpen(w.drop)
    OBVIOUS
  <1>14. ListIs(w.drop)
    BY DEF FieldIs
  <1>15. DropSound(p) /\ SameList(p, w.drop)
    BY ONLY <1>13, <1>14, OpenSound DEF ListIs
  <1>16. ListIs(p) /\ p.closes = w.drop.closes /\ p.resets = w.drop.resets
    BY <1>14, <1>15 DEF ListIs, SameList
  <1>17. s.drop = w.drop
    BY ONLY <1>3, <1>6, <1>11
  <1>18. q = [s EXCEPT !.drop = p]
    <2>1. s = RenderDropdown(u)
      BY ONLY <1>5, <1>7, <1>9 DEF RenderDropdown
    <2> QED BY ONLY <1>1, <1>13, <1>17, <2>1, q = OpenList(w) DEF OpenList
  <1>19. /\ FieldIs(q) /\ q.drop = p /\ Keeps(q, s)
         /\ q.focus = s.focus /\ q.selected = s.selected /\ q.strayed = s.strayed
         /\ q.tabPressed = s.tabPressed
    BY ONLY <1>12, <1>16, <1>18, DropPut
  <1>20. Keeps(q, w)
    BY ONLY <1>3, <1>6, <1>11, <1>19 DEF Keeps
  <1> QED BY <1>3, <1>6, <1>11, <1>16, <1>19, <1>20 DEF Timers

\* It closes.
LEMMA ClosesField ==
    ASSUME NEW w, FieldIs(w), NEW q, q = CloseList(w)
    PROVE  /\ FieldIs(q) /\ Keeps(q, w) /\ Timers(q, w) /\ ~q.drop.isOpen
           /\ q.focus = w.focus /\ q.selected = w.selected /\ q.strayed = w.strayed
           /\ q.tabPressed = w.tabPressed /\ q.mousedown = w.mousedown /\ q.isOpen = w.isOpen
  <1>1. PICK p : p = DropClose(w.drop)
    OBVIOUS
  <1>2. DropSound(w.drop) /\ w.drop.focusedIndex \in 0..Len(Components)
    BY DEF FieldIs, ListIs
  <1>3. DropSound(p) /\ ~p.isOpen /\ p.closes = w.drop.closes /\ p.resets = w.drop.resets
        /\ p.focusedIndex \in {0, w.drop.focusedIndex}
    BY ONLY <1>1, <1>2, CloseSound
  <1>4. ListIs(p)
    BY <1>2, <1>3, FormAssumption, LenProperties DEF ListIs
  <1>5. q = [w EXCEPT !.drop = p]
    BY <1>1 DEF CloseList
  <1>6. /\ FieldIs(q) /\ q.drop = p /\ Keeps(q, w)
        /\ q.focus = w.focus /\ q.selected = w.selected /\ q.strayed = w.strayed
        /\ q.tabPressed = w.tabPressed /\ q.mousedown = w.mousedown /\ q.isOpen = w.isOpen
    BY ONLY <1>4, <1>5, DropPut, FieldIs(w)
  <1> QED BY <1>3, <1>6 DEF Timers

\* The input loses the focus.
LEMMA BlursField ==
    ASSUME NEW w, FieldIs(w), NEW q, q = InputBlur(w)
    PROVE  /\ FieldIs(q) /\ Keeps(q, w) /\ Timers(q, w)
           /\ q.drop.isOpen => w.mousedown
           /\ q.focus = w.focus /\ q.selected = w.selected /\ q.strayed = w.strayed
           /\ q.tabPressed = w.tabPressed
           /\ w.mousedown => q = w
  <1>1. CASE w.mousedown
    <2>1. q = w
      BY <1>1 DEF InputBlur
    <2> QED BY <1>1, <2>1 DEF Keeps, Timers
  <1>2. CASE ~w.mousedown
    <2>1. PICK c : c = CloseList(w)
      OBVIOUS
    <2>2. q = ResetAutocomplete(c)
      BY <1>2, <2>1 DEF InputBlur
    <2>3. /\ FieldIs(c) /\ Keeps(c, w) /\ Timers(c, w) /\ ~c.drop.isOpen
          /\ c.focus = w.focus /\ c.selected = w.selected /\ c.strayed = w.strayed
          /\ c.tabPressed = w.tabPressed
      BY ONLY <2>1, ClosesField, FieldIs(w)
    <2>4. /\ FieldIs(q) /\ q.drop = c.drop /\ Keeps(q, c)
          /\ q.focus = c.focus /\ q.selected = c.selected /\ q.strayed = c.strayed
          /\ q.tabPressed = c.tabPressed
      BY ONLY <2>2, <2>3, ResetsField
    <2> QED BY <1>2, <2>3, <2>4 DEF Keeps, Timers
  <1> QED BY <1>1, <1>2

\* The focus leaves.
LEMMA LeavesField ==
    ASSUME NEW w, FieldIs(w), NEW q, q = Leave(w)
    PROVE  /\ FieldIs(q) /\ Keeps(q, w) /\ Timers(q, w)
           /\ q.focus = Away /\ q.strayed = FALSE /\ q.tabPressed = w.tabPressed
           /\ w.keydown \/ w.focus = Away => q.selected = w.selected
           /\ w.mousedown => q.mousedown /\ q.options = w.options
           /\ Listed(w) => Listed(q)
  <1>1. PICK l : l = IF w.focus = Input THEN InputBlur(w) ELSE w
    OBVIOUS
  <1>2. /\ FieldIs(l) /\ Keeps(l, w) /\ Timers(l, w)
        /\ l.selected = w.selected /\ l.tabPressed = w.tabPressed
        /\ w.mousedown => l.mousedown /\ l.options = w.options
        /\ Listed(w) /\ l.drop.isOpen => l.drop.closes > 0 \/ l.mousedown
    <2>1. CASE w.focus = Input
      <3>1. l = InputBlur(w)
        BY <1>1, <2>1
      <3>2. /\ FieldIs(l) /\ Keeps(l, w) /\ Timers(l, w)
            /\ l.drop.isOpen => w.mousedown
            /\ l.selected = w.selected /\ l.tabPressed = w.tabPressed
            /\ w.mousedown => l = w
        BY ONLY <3>1, BlursField, FieldIs(w)
      <3> QED BY <3>2
    <2>2. CASE w.focus # Input
      <3>1. l = w
        BY <1>1, <2>2
      <3> QED BY <2>2, <3>1 DEF Keeps, Timers, Listed
    <2> QED BY <2>1, <2>2
  <1>3. PICK c : c = IF w.focus # Away /\ ~w.keydown THEN NoChip ELSE l.selected
    OBVIOUS
  <1>4. q = [l EXCEPT !.focus = Away, !.strayed = FALSE, !.selected = c]
    BY <1>1, <1>3 DEF Leave
  <1>5. DOMAIN l = Parts
    BY <1>2 DEF FieldIs
  <1>6. /\ DOMAIN q = Parts /\ q.drop = l.drop
        /\ q.value = l.value /\ q.options = l.options /\ q.active = l.active
        /\ q.isOpen = l.isOpen /\ q.mousedown = l.mousedown /\ q.tabPressed = l.tabPressed
        /\ q.data = l.data /\ q.els = l.els /\ q.dom = l.dom /\ q.selected = c
        /\ q.keydown = l.keydown /\ q.focus = Away /\ q.strayed = FALSE
        /\ q.unseen = l.unseen
    BY ONLY <1>4, <1>5 DEF Parts
  <1>7. FieldIs(q)
    BY <1>2, <1>3, <1>6 DEF FieldIs, Flags, TextIs, DataIs, FocusIs
  <1>8. Keeps(q, w) /\ Timers(q, w)
    BY ONLY <1>2, <1>6 DEF Keeps, Timers
  <1>9. Listed(w) => Listed(q)
    BY ONLY <1>2, <1>6 DEF Listed
  <1> QED BY <1>2, <1>3, <1>6, <1>7, <1>8, <1>9

\* The text is noted as looked up.
Noted(w, text) == [w EXCEPT !.oldVal = text]

\* A text that changed is looked up.
LEMMA LooksUp ==
    ASSUME NEW w, FieldIs(w), NEW o, o = w \/ o = OpenList(w),
           NEW v, NEW q, q = Noted(o, v)
    PROVE  /\ FieldIs(q) /\ Keeps(q, w) /\ Timers(q, w)
           /\ q.focus = w.focus /\ q.selected = w.selected /\ q.strayed = w.strayed
           /\ q.tabPressed = w.tabPressed
  <1>1. /\ FieldIs(o) /\ Keeps(o, w) /\ Timers(o, w)
        /\ o.focus = w.focus /\ o.selected = w.selected /\ o.strayed = w.strayed
        /\ o.tabPressed = w.tabPressed
    <2>1. CASE o = w
      BY <2>1 DEF Keeps, Timers
    <2>2. CASE o = OpenList(w)
      BY ONLY <2>2, OpensField, FieldIs(w)
    <2> QED BY <2>1, <2>2
  <1>2. DOMAIN o = Parts
    BY <1>1 DEF FieldIs
  <1>3. /\ DOMAIN q = Parts /\ q.drop = o.drop
        /\ q.value = o.value /\ q.options = o.options /\ q.active = o.active
        /\ q.isOpen = o.isOpen /\ q.mousedown = o.mousedown /\ q.tabPressed = o.tabPressed
        /\ q.data = o.data /\ q.els = o.els /\ q.dom = o.dom /\ q.selected = o.selected
        /\ q.keydown = o.keydown /\ q.focus = o.focus /\ q.strayed = o.strayed
        /\ q.unseen = o.unseen
    BY ONLY <1>2, q = Noted(o, v) DEF Noted, Parts
  <1>4. FieldIs(q)
    BY <1>1, <1>3 DEF FieldIs, Flags, TextIs, DataIs, FocusIs
  <1>5. Keeps(q, w) /\ Timers(q, w)
    BY ONLY <1>1, <1>3 DEF Keeps, Timers
  <1> QED BY ONLY <1>1, <1>3, <1>4, <1>5

\* What has the focus is told apart.
LEMMA Places ==
    ASSUME NEW w, FieldIs(w), NEW name \in ToSet(w.data)
    PROVE  name \in Names /\ name \notin {Away, Input, List, NoChip, Gone}
  BY ElementOfSeq, LenProperties DEF FieldIs, DataIs, ToSet, Names

\* Nothing else is called like a chip.
LEMMA NoPlace ==
    ASSUME NEW w, FieldIs(w)
    PROVE  ToSet(w.data) \cap {Away, Input, List, NoChip, Gone} = {}
  BY ONLY Places, FieldIs(w)

\* The places are not the same.
LEMMA PlacesDiffer ==
    Input # List /\ Input # Away /\ List # Away /\ NoChip # Gone
  BY DEF Input, List, Away, NoChip, Gone

\* Where the focus can go, and what it keeps.
Spot(w, place) == place \in ToSet(w.data) \cup {Input, List}

Focused(q, w, place) ==
    /\ FieldIs(q) /\ Keeps(q, w) /\ Timers(q, w)
    /\ q.focus = place /\ q.tabPressed = w.tabPressed
    /\ w.keydown \/ w.focus \in {Away, place} => q.selected = w.selected
    /\ w.mousedown /\ place # Input => q.mousedown /\ q.options = w.options
    /\ Listed(w) => Listed(q)

\* It goes somewhere.
LEMMA FocusesField ==
    ASSUME NEW w, FieldIs(w), NEW place, Spot(w, place), NEW q, q = FocusOn(w, place)
    PROVE  Focused(q, w, place)
  <1>1. CASE w.focus = place
    <2>1. q = w
      BY <1>1 DEF FocusOn
    <2> QED BY <1>1, <2>1 DEF Focused, Keeps, Timers
  <1>2. CASE w.focus # place
    <2>1. PICK l : l = Leave(w)
      OBVIOUS
    <2>2. PICK t : t = [l EXCEPT !.focus = place]
      OBVIOUS
    <2>3. q = IF place = Input THEN InputFocus(t) ELSE t
      BY <1>2, <2>1, <2>2 DEF FocusOn
    <2>4. /\ FieldIs(l) /\ Keeps(l, w) /\ Timers(l, w)
          /\ l.focus = Away /\ l.strayed = FALSE /\ l.tabPressed = w.tabPressed
          /\ w.keydown \/ w.focus = Away => l.selected = w.selected
          /\ w.mousedown => l.mousedown /\ l.options = w.options
          /\ Listed(w) => Listed(l)
      BY ONLY <2>1, LeavesField, FieldIs(w)
    <2>5. DOMAIN l = Parts
      BY <2>4 DEF FieldIs
    <2>6. /\ DOMAIN t = Parts /\ t.drop = l.drop
          /\ t.value = l.value /\ t.options = l.options /\ t.active = l.active
          /\ t.isOpen = l.isOpen /\ t.mousedown = l.mousedown /\ t.tabPressed = l.tabPressed
          /\ t.data = l.data /\ t.els = l.els /\ t.dom = l.dom /\ t.selected = l.selected
          /\ t.keydown = l.keydown /\ t.focus = place /\ t.strayed = l.strayed
          /\ t.unseen = l.unseen
      BY ONLY <2>2, <2>5 DEF Parts
    <2>7. FieldIs(t)
      <3>1. FocusIs(t)
        BY <2>4, <2>6 DEF FieldIs, FocusIs, Keeps, Spot
      <3> QED BY <2>4, <2>6, <3>1 DEF FieldIs, Flags, TextIs, DataIs
    <2>8. Keeps(t, w) /\ Timers(t, w)
      BY ONLY <2>4, <2>6 DEF Keeps, Timers
    <2>9. CASE place # Input
      <3>1. q = t
        BY ONLY <2>3, <2>9
      <3>2. Listed(w) => Listed(q)
        BY <2>4, <2>6, <3>1, PlacesDiffer DEF Listed
      <3> QED BY <1>2, <2>4, <2>6, <2>7, <2>8, <3>1, <3>2 DEF Focused
    <2>10. CASE place = Input
      <3>1. PICK o, v : (o = t \/ o = OpenList(t)) /\ q = Noted(o, v)
        BY ONLY <2>3, <2>10 DEF InputFocus, Noted
      <3>2. /\ FieldIs(q) /\ Keeps(q, t) /\ Timers(q, t)
            /\ q.focus = t.focus /\ q.selected = t.selected /\ q.strayed = t.strayed
            /\ q.tabPressed = t.tabPressed
        BY ONLY <2>7, <3>1, LooksUp
      <3>3. Listed(q)
        BY ONLY <2>6, <2>10, <3>2 DEF Listed
      <3>4. Keeps(q, w) /\ Timers(q, w)
        BY ONLY <2>8, <3>2 DEF Keeps, Timers
      <3> QED BY <1>2, <2>4, <2>6, <2>10, <3>2, <3>3, <3>4 DEF Focused
    <2> QED BY <2>9, <2>10
  <1> QED BY <1>1, <1>2

\* To the input.
LEMMA FocusesInput ==
    ASSUME NEW w, FieldIs(w), NEW q, q = FocusOn(w, Input)
    PROVE  FieldIs(q) /\ Keeps(q, w) /\ Timers(q, w) /\ q.focus = Input
  <1>1. PICK place : place = Input
    OBVIOUS
  <1>2. Spot(w, place)
    BY ONLY <1>1 DEF Spot
  <1>3. q = FocusOn(w, place)
    BY ONLY <1>1, q = FocusOn(w, Input)
  <1>4. Focused(q, w, place)
    BY ONLY <1>2, <1>3, FocusesField, FieldIs(w)
  <1> QED BY ONLY <1>1, <1>4 DEF Focused

\* A chip of those there are is selected: it gets the focus, and stays selected if
\* a key is down, or nothing else had the focus.
LEMMA SelectsChip ==
    ASSUME NEW w, FieldIs(w), NEW i \in DOMAIN w.data, NEW q, q = SelectChip(w, i)
    PROVE  /\ FieldIs(q) /\ Keeps(q, w) /\ Timers(q, w)
           /\ q.focus = w.data[i] /\ q.tabPressed = w.tabPressed
           /\ w.keydown \/ w.focus = w.data[i] => Selects(q)
           /\ Listed(w) => Listed(q)
  <1>1. PICK chip : chip = w.data[i]
    OBVIOUS
  <1>2. chip \in ToSet(w.data) /\ w.els = w.data /\ DOMAIN w = Parts
    BY <1>1 DEF ToSet, FieldIs, DataIs
  <1>3. PICK s : s = [w EXCEPT !.selected = chip]
    OBVIOUS
  <1>4. PICK f : f = FocusOn(s, chip)
    OBVIOUS
  <1>5. q = [f EXCEPT !.strayed = FALSE]
    BY <1>1, <1>2, <1>3, <1>4 DEF SelectChip
  <1>6. /\ DOMAIN s = Parts /\ s.drop = w.drop
        /\ s.value = w.value /\ s.options = w.options /\ s.active = w.active
        /\ s.isOpen = w.isOpen /\ s.mousedown = w.mousedown /\ s.tabPressed = w.tabPressed
        /\ s.data = w.data /\ s.els = w.els /\ s.dom = w.dom /\ s.selected = chip
        /\ s.keydown = w.keydown /\ s.focus = w.focus /\ s.strayed = w.strayed
        /\ s.unseen = w.unseen
    BY ONLY <1>2, <1>3 DEF Parts
  <1>7. FieldIs(s)
    BY <1>2, <1>6 DEF FieldIs, Flags, TextIs, DataIs, FocusIs
  <1>8. Spot(s, chip)
    BY <1>2, <1>6 DEF Spot
  <1>9. /\ FieldIs(f) /\ Keeps(f, s) /\ Timers(f, s)
        /\ f.focus = chip /\ f.tabPressed = s.tabPressed
        /\ s.keydown \/ s.focus \in {Away, chip} => f.selected = s.selected
        /\ Listed(s) => Listed(f)
    <2>1. Focused(f, s, chip)
      BY ONLY <1>4, <1>7, <1>8, FocusesField
    <2> QED BY ONLY <2>1 DEF Focused
  <1>10. DOMAIN f = Parts
    BY <1>9 DEF FieldIs
  <1>11. /\ DOMAIN q = Parts /\ q.drop = f.drop
         /\ q.value = f.value /\ q.options = f.options /\ q.active = f.active
         /\ q.isOpen = f.isOpen /\ q.mousedown = f.mousedown /\ q.tabPressed = f.tabPressed
         /\ q.data = f.data /\ q.els = f.els /\ q.dom = f.dom /\ q.selected = f.selected
         /\ q.keydown = f.keydown /\ q.focus = f.focus /\ q.strayed = FALSE
         /\ q.unseen = f.unseen
    BY ONLY <1>5, <1>10 DEF Parts
  <1>12. FieldIs(q)
    BY <1>9, <1>11 DEF FieldIs, Flags, TextIs, DataIs, FocusIs
  <1>13. Keeps(q, w) /\ Timers(q, w)
    BY ONLY <1>6, <1>9, <1>11 DEF Keeps, Timers
  <1>14. Listed(w) => Listed(q)
    BY ONLY <1>6, <1>9, <1>11 DEF Listed
  <1>15. w.keydown \/ w.focus = chip => Selects(q)
    BY ONLY <1>6, <1>9, <1>11 DEF Selects
  <1> QED BY ONLY <1>1, <1>6, <1>9, <1>11, <1>12, <1>13, <1>14, <1>15

\* One of those there are not: nothing is selected.
LEMMA SelectsNothing ==
    ASSUME NEW w, FieldIs(w), NEW i, i \notin DOMAIN w.data, NEW q, q = SelectChip(w, i)
    PROVE  /\ FieldIs(q) /\ Keeps(q, w) /\ Timers(q, w)
           /\ q.focus = w.focus /\ q.tabPressed = w.tabPressed /\ q.strayed = w.strayed
           /\ Listed(w) => Listed(q)
  <1>1. DOMAIN w = Parts /\ w.els = w.data
    BY DEF FieldIs, DataIs
  <1>2. q = [w EXCEPT !.selected = Gone]
    BY <1>1 DEF SelectChip
  <1>3. /\ DOMAIN q = Parts /\ q.drop = w.drop
        /\ q.value = w.value /\ q.options = w.options /\ q.active = w.active
        /\ q.isOpen = w.isOpen /\ q.mousedown = w.mousedown /\ q.tabPressed = w.tabPressed
        /\ q.data = w.data /\ q.els = w.els /\ q.dom = w.dom /\ q.selected = Gone
        /\ q.keydown = w.keydown /\ q.focus = w.focus /\ q.strayed = w.strayed
        /\ q.unseen = w.unseen
    BY ONLY <1>1, <1>2 DEF Parts
  <1>4. FieldIs(q)
    BY <1>3 DEF FieldIs, Flags, TextIs, DataIs, FocusIs
  <1> QED BY <1>3, <1>4 DEF Keeps, Timers, Listed

-----------------------------------------------------------------------------
(* The chips *)

\* What stays when chips are deleted.
KeepsRest(q, w) == q.value = w.value /\ q.keydown = w.keydown /\ q.unseen = w.unseen

Deleted(q, w) ==
    /\ FieldIs(q) /\ Timers(q, w) /\ KeepsRest(q, w)
    /\ q.focus \in {w.focus, Away} /\ (q.focus # Away => q.strayed = w.strayed)
    /\ w.focus \notin ToSet(w.data) => q.focus = w.focus
    /\ ToSet(q.data) \subseteq ToSet(w.data)
    /\ Listed(w) => Listed(q)
    /\ Selects(w) => Selects(q)

\* A chip of those there are is deleted.
LEMMA DeletesChip ==
    ASSUME NEW w, FieldIs(w), NEW m \in DOMAIN w.data, NEW i, m = IF i = 0 THEN Len(w.data) ELSE i,
           NEW blurs, NEW q, q = DeleteChip(w, i, blurs)
    PROVE  Deleted(q, w) /\ q.data = RemoveAt(w.data, m)
           /\ w.data[m] \notin ToSet(q.data)
  <1>1. PICK chip : chip = w.data[m]
    OBVIOUS
  <1>2. /\ w.els = w.data /\ w.dom = w.data /\ DOMAIN w = Parts /\ w.data \in Seq(Names)
        /\ OneOnly(w.data) /\ DOMAIN w.data = 1..Len(w.data) /\ chip \in ToSet(w.data)
    BY <1>1, LenProperties DEF FieldIs, DataIs, ToSet
  <1>3. chip \notin {Away, Input, List, NoChip, Gone}
    BY ONLY <1>2, Places, FieldIs(w)
  <1>4. PICK l : l = IF w.focus # chip THEN w
                     ELSE IF blurs THEN Leave(w) ELSE [w EXCEPT !.focus = Away, !.strayed = FALSE]
    OBVIOUS
  <1>5. /\ FieldIs(l) /\ Keeps(l, w) /\ Timers(l, w)
        /\ w.focus = chip => l.focus = Away
        /\ w.focus # chip => l = w
        /\ Listed(w) => Listed(l)
    <2>1. CASE w.focus # chip
      BY <1>4, <2>1 DEF Keeps, Timers
    <2>2. CASE w.focus = chip /\ blurs
      <3>1. l = Leave(w)
        BY ONLY <1>4, <2>2
      <3> QED BY ONLY <2>2, <3>1, LeavesField, FieldIs(w)
    <2>3. CASE w.focus = chip /\ ~blurs
      <3>1. l = [w EXCEPT !.focus = Away, !.strayed = FALSE]
        BY ONLY <1>4, <2>3
      <3>2. /\ DOMAIN l = Parts /\ l.drop = w.drop
            /\ l.value = w.value /\ l.options = w.options /\ l.active = w.active
            /\ l.isOpen = w.isOpen /\ l.mousedown = w.mousedown /\ l.tabPressed = w.tabPressed
            /\ l.data = w.data /\ l.els = w.els /\ l.dom = w.dom /\ l.selected = w.selected
            /\ l.keydown = w.keydown /\ l.focus = Away /\ l.strayed = FALSE
            /\ l.unseen = w.unseen
        BY ONLY <1>2, <3>1 DEF Parts
      <3>3. FieldIs(l)
        BY <3>2 DEF FieldIs, Flags, TextIs, DataIs, FocusIs
      <3>4. Listed(w) => Listed(l)
        BY ONLY <1>3, <2>3, <3>2 DEF Listed
      <3> QED BY <2>3, <3>2, <3>3, <3>4 DEF Keeps, Timers
    <2> QED BY <2>1, <2>2, <2>3
  <1>6. l.els = w.data /\ l.dom = w.data /\ l.data = w.data /\ DOMAIN l = Parts
    BY <1>5 DEF FieldIs, DataIs, Keeps
  <1>7. PICK t : t = RemoveAt(w.data, m)
    OBVIOUS
  <1>8. t \in Seq(Names) /\ OneOnly(t) /\ ToSet(t) = ToSet(w.data) \ {chip}
    <2>1. t \in Seq(Names)
      BY ONLY <1>2, <1>7, Removed, m \in DOMAIN w.data
    <2>2. OneOnly(t) /\ ToSet(t) = ToSet(w.data) \ {w.data[m]}
      BY ONLY <1>2, <1>7, RemovedOnce, m \in DOMAIN w.data
    <2> QED BY <1>1, <2>1, <2>2
  <1>9. Without(w.data, chip) = t
    BY ONLY <1>1, <1>2, <1>7, WithoutIsRemoved, m \in DOMAIN w.data
  <1>10. PICK s : s = IF l.selected = chip THEN Gone ELSE l.selected
    OBVIOUS
  <1>11. q = [l EXCEPT !.dom = t, !.els = t, !.data = t, !.selected = s]
    <2>1. m \in DOMAIN w.els /\ w.els[m] = chip
      BY <1>1, <1>2
    <2>2. q = [l EXCEPT !.dom = Without(@, chip), !.els = Without(@, chip),
                        !.data = RemoveAt(@, m),
                        !.selected = IF @ = chip THEN Gone ELSE @]
      BY <1>4, <2>1 DEF DeleteChip
    <2> QED BY ONLY <1>6, <1>7, <1>9, <1>10, <2>2, Zenon
  <1>12. /\ DOMAIN q = Parts /\ q.drop = l.drop
         /\ q.value = l.value /\ q.options = l.options /\ q.active = l.active
         /\ q.isOpen = l.isOpen /\ q.mousedown = l.mousedown /\ q.tabPressed = l.tabPressed
         /\ q.data = t /\ q.els = t /\ q.dom = t /\ q.selected = s
         /\ q.keydown = l.keydown /\ q.focus = l.focus /\ q.strayed = l.strayed
         /\ q.unseen = l.unseen
    BY ONLY <1>6, <1>11 DEF Parts
  <1>13. FieldIs(q)
    <2>1. DataIs(q)
      BY ONLY <1>8, <1>12 DEF DataIs
    <2>2. FocusIs(q)
      <3>1. FocusIs(l) /\ l.data = w.data /\ (w.focus = chip => l.focus = Away)
            /\ (w.focus # chip => l = w)
        BY ONLY <1>5, <1>6 DEF FieldIs
      <3> QED BY ONLY <1>3, <1>8, <1>10, <1>12, <3>1 DEF FocusIs
    <2> QED BY <1>5, <1>12, <2>1, <2>2 DEF FieldIs, Flags, TextIs
  <1>14. Timers(q, w) /\ KeepsRest(q, w)
    BY ONLY <1>5, <1>12 DEF Timers, Keeps, KeepsRest
  <1>15. Listed(w) => Listed(q)
    BY ONLY <1>5, <1>12 DEF Listed
  <1>16. Selects(w) => Selects(q)
    <2>1. Away \notin ToSet(w.data)
      BY ONLY NoPlace, FieldIs(w)
    <2> QED BY ONLY <1>3, <1>5, <1>8, <1>10, <1>12, <2>1 DEF Selects
  <1> QED BY <1>1, <1>2, <1>5, <1>7, <1>8, <1>12, <1>13, <1>14, <1>15, <1>16 DEF Deleted

\* Nothing is deleted.
LEMMA NothingDeleted ==
    ASSUME NEW w, FieldIs(w)
    PROVE  Deleted(w, w)
  BY DEF Deleted, Timers, KeepsRest

\* One deletion after another.
LEMMA DeletedAfter ==
    ASSUME NEW w, NEW q, NEW r, Deleted(q, w), Deleted(r, q)
    PROVE  Deleted(r, w)
  BY DEF Deleted, Timers, KeepsRest

\* A chip is deleted, if there is one.
LEMMA DeletesAny ==
    ASSUME NEW w, FieldIs(w), NEW i, NEW blurs, NEW q, q = DeleteChip(w, i, blurs)
    PROVE  /\ Deleted(q, w)
           /\ i # 0 /\ i \in DOMAIN w.data => w.data[i] \notin ToSet(q.data)
  <1>1. PICK m : m = IF i = 0 THEN Len(w.data) ELSE i
    OBVIOUS
  <1>2. CASE m \in DOMAIN w.data
    <2>1. Deleted(q, w) /\ w.data[m] \notin ToSet(q.data)
      BY ONLY <1>1, <1>2, DeletesChip, FieldIs(w), q = DeleteChip(w, i, blurs)
    <2> QED BY ONLY <1>1, <2>1
  <1>3. CASE m \notin DOMAIN w.data
    <2>1. w.els = w.data
      BY DEF FieldIs, DataIs
    <2>2. q = w
      BY <1>1, <1>3, <2>1 DEF DeleteChip
    <2> QED BY <1>1, <1>3, <2>2, NothingDeleted
  <1> QED BY <1>2, <1>3

\* The callback's turn for a chip.
LEMMA LooksAt ==
    ASSUME NEW w, FieldIs(w), NEW i \in Nat \ {0}, NEW q, q = LookAt(w, i)
    PROVE  /\ Deleted(q, w)
           /\ i \in DOMAIN w.data /\ ~Known(w.data[i]) => q.data = RemoveAt(w.data, i)
           /\ ~(i \in DOMAIN w.data /\ ~Known(w.data[i])) => q = w
  <1>1. w.data \in Seq(Names) /\ DOMAIN w.data = 1..Len(w.data) /\ Len(w.data) \in Nat
    BY LenProperties DEF FieldIs, DataIs
  <1>2. CASE i \in DOMAIN w.data /\ ~Known(w.data[i])
    <2>1. PICK b \in BOOLEAN : b = FALSE /\ q = DeleteChip(w, i, b)
      <3>1. i <= Len(w.data) /\ ~Known(w.data[i])
        BY ONLY <1>1, <1>2
      <3>2. q = DeleteChip(w, i, FALSE)
        BY ONLY <3>1, q = LookAt(w, i) DEF LookAt
      <3> QED BY ONLY <3>2
    <2>2. i = IF i = 0 THEN Len(w.data) ELSE i
      OBVIOUS
    <2>3. Deleted(q, w) /\ q.data = RemoveAt(w.data, i)
      BY ONLY <1>2, <2>1, <2>2, DeletesChip, FieldIs(w)
    <2> QED BY <1>2, <2>3
  <1>3. CASE ~(i \in DOMAIN w.data /\ ~Known(w.data[i]))
    <2>1. q = w
      <3>1. ~(i <= Len(w.data) /\ ~Known(w.data[i]))
        BY ONLY <1>1, <1>3, i \in Nat \ {0}
      <3> QED BY ONLY <3>1, q = LookAt(w, i) DEF LookAt
    <2> QED BY <1>3, <2>1, NothingDeleted
  <1> QED BY <1>2, <1>3

\* The fields as the callback leaves them, chip by chip, up to the m-th.
Turns(g, w, m) ==
    g = [i \in 0..m |-> IF i = 0 THEN w ELSE LookAt(g[i - 1], i)]

\* It gets to any chip.
LEMMA TurnsExist ==
    ASSUME NEW w, NEW n \in Nat
    PROVE  \E g : Turns(g, w, n)
  <1> DEFINE Bad == {m \in Nat : ~ \E g : Turns(g, w, m)}
  <1>1. SUFFICES ASSUME Bad # {}
                 PROVE  FALSE
    OBVIOUS
  <1>2. PICK m : m = Min(Bad)
    OBVIOUS
  <1>3. m \in Bad /\ \A k \in Bad : m <= k
    BY <1>1, <1>2, LeastOf, Bad \in SUBSET Nat
  <1>4. m \in Nat /\ ~ \E g : Turns(g, w, m)
    BY <1>3
  <1>5. CASE m = 0
    <2>1. PICK g : g = [i \in 0..0 |-> w]
      OBVIOUS
    <2>2. g = [i \in 0..0 |-> IF i = 0 THEN w ELSE LookAt(g[i - 1], i)]
      <3>1. \A i \in 0..0 : i = 0
        OBVIOUS
      <3> QED BY ONLY <2>1, <3>1
    <2> QED BY <1>4, <1>5, <2>2 DEF Turns
  <1>6. CASE m # 0
    <2>1. m - 1 \in Nat /\ m - 1 \notin Bad
      BY <1>3, <1>4, <1>6
    <2>2. PICK h : Turns(h, w, m - 1)
      BY <2>1
    <2>3. PICK last : last = LookAt(h[m - 1], m)
      OBVIOUS
    <2>4. PICK g : g = [i \in 0..m |-> IF i = m THEN last ELSE h[i]]
      OBVIOUS
    <2>5. \A i \in 0..m - 1 : g[i] = h[i]
      BY <1>4, <2>4
    <2>6. \A i \in 0..m - 1 : h[i] = IF i = 0 THEN w ELSE LookAt(h[i - 1], i)
      BY ONLY <2>2 DEF Turns
    <2>7. ASSUME NEW i \in 0..m
          PROVE  g[i] = IF i = 0 THEN w ELSE LookAt(g[i - 1], i)
      <3>1. CASE i = m
        <4>1. g[i] = last /\ i # 0 /\ g[i - 1] = h[m - 1]
          BY <1>4, <1>6, <2>4, <2>5, <3>1
        <4> QED BY <2>3, <3>1, <4>1
      <3>2. CASE i # m
        <4>1. i \in 0..m - 1 /\ (i # 0 => i - 1 \in 0..m - 1)
          BY <1>4, <3>2
        <4> QED BY ONLY <2>5, <2>6, <4>1
      <3> QED BY <3>1, <3>2
    <2>8. Turns(g, w, m)
      BY ONLY <2>4, <2>7 DEF Turns
    <2> QED BY <1>4, <2>8
  <1> QED BY <1>5, <1>6

\* What the callback does is done in turns.
LEMMA AddsInTurns ==
    ASSUME NEW w, FieldIs(w), NEW q, q = OnChipAdd(w)
    PROVE  \E g : /\ g[0] = w /\ q = g[Len(w.data)]
                  /\ \A i \in 1..Len(w.data) : g[i] = LookAt(g[i - 1], i)
  <1>1. Len(w.data) \in Nat
    BY LenProperties DEF FieldIs, DataIs
  <1>2. PICK g : /\ g = CHOOSE f : f = [i \in 0..Len(w.data) |->
                                           IF i = 0 THEN w ELSE LookAt(f[i - 1], i)]
                 /\ q = g[Len(w.data)]
    BY DEF OnChipAdd
  <1>3. \E f : f = [i \in 0..Len(w.data) |-> IF i = 0 THEN w ELSE LookAt(f[i - 1], i)]
    <2>1. PICK f : Turns(f, w, Len(w.data))
      BY ONLY <1>1, TurnsExist
    <2> QED BY ONLY <2>1, Zenon DEF Turns
  <1>4. g = [i \in 0..Len(w.data) |-> IF i = 0 THEN w ELSE LookAt(g[i - 1], i)]
    BY ONLY <1>2, <1>3, Zenon
  <1>5. \A i \in 0..Len(w.data) : g[i] = IF i = 0 THEN w ELSE LookAt(g[i - 1], i)
    BY ONLY <1>4
  <1>6. g[0] = w /\ \A i \in 1..Len(w.data) : g[i] = LookAt(g[i - 1], i)
    BY ONLY <1>1, <1>5
  <1> QED BY <1>2, <1>6

\* The callback of the page deletes chips.
LEMMA CallbackDeletes ==
    ASSUME NEW w, FieldIs(w), NEW q, q = OnChipAdd(w)
    PROVE  Deleted(q, w)
  <1>1. PICK n \in Nat : n = Len(w.data)
    BY LenProperties DEF FieldIs, DataIs
  <1>2. PICK g : g[0] = w /\ q = g[n] /\ \A i \in 1..n : g[i] = LookAt(g[i - 1], i)
    BY ONLY <1>1, AddsInTurns, FieldIs(w), q = OnChipAdd(w)
  <1> DEFINE Bad == {i \in 0..n : ~Deleted(g[i], w)}
  <1>3. SUFFICES ASSUME Bad # {}
                 PROVE  FALSE
    BY <1>2
  <1>4. PICK i : i = Min(Bad)
    OBVIOUS
  <1>5. i \in Bad /\ \A k \in Bad : i <= k
    BY <1>3, <1>4, LeastOf, Bad \in SUBSET Nat
  <1>6. i # 0
    BY <1>2, <1>5, NothingDeleted
  <1>7. i - 1 \in 0..n /\ i - 1 \notin Bad /\ i \in 1..n /\ i \in Nat \ {0}
    BY <1>5, <1>6
  <1>8. Deleted(g[i - 1], w) /\ g[i] = LookAt(g[i - 1], i)
    BY <1>2, <1>7
  <1>9. PICK p, r : p = g[i - 1] /\ r = g[i]
    OBVIOUS
  <1>10. Deleted(r, p)
    <2>1. FieldIs(p) /\ r = LookAt(p, i)
      BY <1>8, <1>9 DEF Deleted
    <2> QED BY ONLY <1>7, <2>1, LooksAt
  <1>11. Deleted(r, w)
    BY ONLY <1>8, <1>9, <1>10, DeletedAfter
  <1> QED BY <1>5, <1>9, <1>11

Retyped(w, text) == [w EXCEPT !.value = text]

\* Typing replaces the text of the input and nothing else.
LEMMA Retypes ==
    ASSUME NEW w, FieldIs(w), NEW text \in Seq(STRING), NEW q, q = Retyped(w, text)
    PROVE  /\ FieldIs(q) /\ q.value = text /\ q.data = w.data /\ q.drop = w.drop
           /\ q.focus = w.focus /\ q.selected = w.selected /\ q.strayed = w.strayed
           /\ q.keydown = w.keydown /\ q.unseen = w.unseen /\ q.isOpen = w.isOpen
           /\ q.options = w.options
           /\ Listed(w) => Listed(q)
           /\ Selects(w) => Selects(q)
  <1>1. DOMAIN w = Parts
    BY DEF FieldIs
  <1>2. /\ DOMAIN q = Parts /\ q.drop = w.drop
        /\ q.value = text /\ q.options = w.options /\ q.active = w.active
        /\ q.isOpen = w.isOpen /\ q.mousedown = w.mousedown /\ q.tabPressed = w.tabPressed
        /\ q.data = w.data /\ q.els = w.els /\ q.dom = w.dom /\ q.selected = w.selected
        /\ q.keydown = w.keydown /\ q.focus = w.focus /\ q.strayed = w.strayed
        /\ q.unseen = w.unseen
    BY ONLY <1>1, q = Retyped(w, text) DEF Retyped, Parts
  <1>3. FieldIs(q)
    BY <1>2 DEF FieldIs, Flags, TextIs, DataIs, FocusIs
  <1>4. (Listed(w) => Listed(q)) /\ (Selects(w) => Selects(q))
    BY ONLY <1>2 DEF Listed, Selects
  <1> QED BY ONLY <1>2, <1>3, <1>4

\* A chip is added, unless its name is not configured, or is there already.
LEMMA AddsChip ==
    ASSUME NEW w, FieldIs(w), NEW name \in Names \cup {<<>>}, NEW q, q = AddChip(w, name)
    PROVE  /\ FieldIs(q) /\ Timers(q, w) /\ KeepsRest(q, w)
           /\ w.focus \in {Away, Input, List} => q.focus = w.focus
           /\ Listed(w) => Listed(q)
           /\ Selects(w) => Selects(q)
  <1>1. CASE ~IsValid(w, name)
    <2>1. q = w
      BY <1>1 DEF AddChip
    <2> QED BY <2>1 DEF Timers, KeepsRest
  <1>2. CASE IsValid(w, name)
    <2>1. w.els = w.data /\ w.dom = w.data /\ DOMAIN w = Parts /\ w.data \in Seq(Names)
          /\ OneOnly(w.data)
      BY DEF FieldIs, DataIs
    <2>2. name \in Names /\ name \notin ToSet(w.data) /\ name \notin {Away, Input, List}
      BY <1>2 DEF IsValid, Names
    <2>3. PICK t : t = Append(w.data, name)
      OBVIOUS
    <2>4. t \in Seq(Names) /\ OneOnly(t) /\ ToSet(t) = ToSet(w.data) \cup {name}
      <3>1. PICK d \in Seq(Names) : d = w.data
        BY ONLY <2>1
      <3>2. OneOnly(d) /\ name \notin ToSet(d) /\ name \in Names
        BY ONLY <2>1, <2>2, <3>1
      <3>3. /\ Append(d, name) \in Seq(Names) /\ OneOnly(Append(d, name))
            /\ ToSet(Append(d, name)) = ToSet(d) \cup {name}
        BY ONLY <3>2, Appended, d \in Seq(Names)
      <3> QED BY ONLY <2>3, <3>1, <3>3
    <2>5. PICK u : u = [w EXCEPT !.data = t, !.els = t, !.dom = t]
      OBVIOUS
    <2>6. q = OnChipAdd(u)
      <3>1. [w EXCEPT !.data = Append(@, name), !.els = Append(@, name),
                      !.dom = Append(@, name)] = u
        BY ONLY <2>1, <2>3, <2>5, Zenon
      <3> QED BY <1>2, <3>1 DEF AddChip
    <2>7. /\ DOMAIN u = Parts /\ u.drop = w.drop
          /\ u.value = w.value /\ u.options = w.options /\ u.active = w.active
          /\ u.isOpen = w.isOpen /\ u.mousedown = w.mousedown /\ u.tabPressed = w.tabPressed
          /\ u.data = t /\ u.els = t /\ u.dom = t /\ u.selected = w.selected
          /\ u.keydown = w.keydown /\ u.focus = w.focus /\ u.strayed = w.strayed
          /\ u.unseen = w.unseen
      BY ONLY <2>1, <2>5 DEF Parts
    <2>8. FieldIs(u)
      <3>1. DataIs(u)
        BY ONLY <2>4, <2>7 DEF DataIs
      <3>2. FocusIs(u)
        BY <2>4, <2>7 DEF FieldIs, FocusIs
      <3> QED BY <2>7, <3>1, <3>2 DEF FieldIs, Flags, TextIs
    <2>9. (Listed(w) => Listed(u)) /\ (Selects(w) => Selects(u))
      <3>1. w.focus # name
        BY <2>2 DEF FieldIs, FocusIs
      <3> QED BY ONLY <2>4, <2>7, <3>1 DEF Listed, Selects
    <2>10. Deleted(q, u)
      BY ONLY <2>6, <2>8, CallbackDeletes
    <2>11. ToSet(u.data) \cap {Away, Input, List} = {}
      BY ONLY <2>8, NoPlace
    <2> QED BY <2>7, <2>9, <2>10, <2>11 DEF Deleted, Timers, KeepsRest
  <1> QED BY <1>1, <1>2

\* The completion gives a name: the input is empty, and has the focus.
LEMMA Completes ==
    ASSUME NEW w, FieldIs(w), NEW i \in DOMAIN w.options, NEW q, q = Complete(w, i)
    PROVE  /\ FieldIs(q) /\ Timers(q, w) /\ q.value = <<>>
           /\ q.focus = Input /\ q.keydown = w.keydown /\ q.unseen = w.unseen
  <1>1. PICK name : name = w.options[i]
    OBVIOUS
  <1>2. name \in Names /\ name \in Seq(STRING)
    BY <1>1, ElementOfSeq, LenProperties DEF FieldIs, TextIs, Names
  <1>3. PICK t : t = Retyped(w, name)
    OBVIOUS
  <1>4. PICK r : r = ResetAutocomplete(t)
    OBVIOUS
  <1>5. PICK c : c = CloseList(r)
    OBVIOUS
  <1>6. PICK a : a = AddChip(c, name)
    OBVIOUS
  <1>7. PICK e : e = <<>> /\ e \in Seq(STRING)
    BY EmptySeq
  <1>8. PICK v : v = Retyped(a, e)
    OBVIOUS
  <1>9. q = FocusOn(v, Input)
    BY <1>1, <1>3, <1>4, <1>5, <1>6, <1>7, <1>8
       DEF Complete, OnAutocomplete, SelectOption, Retyped
  <1>10. FieldIs(t) /\ t.drop = w.drop /\ t.keydown = w.keydown /\ t.unseen = w.unseen
    BY ONLY <1>2, <1>3, Retypes, FieldIs(w)
  <1>11. FieldIs(r) /\ r.drop = t.drop /\ Keeps(r, t)
    BY ONLY <1>4, <1>10, ResetsField
  <1>12. FieldIs(c) /\ Keeps(c, r) /\ Timers(c, r)
    BY ONLY <1>5, <1>11, ClosesField
  <1>13. name \in Names \cup {<<>>}
    BY <1>2
  <1>14. FieldIs(a) /\ Timers(a, c) /\ KeepsRest(a, c)
    BY ONLY <1>6, <1>12, <1>13, AddsChip
  <1>15. FieldIs(v) /\ v.value = e /\ v.drop = a.drop /\ v.keydown = a.keydown
         /\ v.unseen = a.unseen
    <2>1. e \in Seq(STRING) /\ v = Retyped(a, e) /\ FieldIs(a)
      BY ONLY <1>7, <1>8, <1>14
    <2> QED BY ONLY <2>1, Retypes
  <1>16. FieldIs(q) /\ Keeps(q, v) /\ Timers(q, v) /\ q.focus = Input
    BY ONLY <1>9, <1>15, FocusesInput
  <1> QED BY ONLY <1>7, <1>10, <1>11, <1>12, <1>14, <1>15, <1>16
             DEF Keeps, Timers, KeepsRest

-----------------------------------------------------------------------------
(* The keys of the field *)

\* What a handler leaves of a field.
Handled(q, w) == /\ FieldIs(q) /\ q.value \in Seq(Letters) /\ q.unseen = w.unseen
                 /\ Listed(q) /\ Selects(q)

\* What a handler of a key finds.
Keyed(w) == /\ FieldIs(w) /\ w.value \in Seq(Letters) /\ w.keydown
            /\ Listed(w) /\ Selects(w)

\* A handler that leaves the focus on the input has nothing else to care for.
LEMMA InputHandled ==
    ASSUME NEW w, NEW q, FieldIs(q), q.value \in Seq(Letters), q.unseen = w.unseen,
           q.focus = Input
    PROVE  Handled(q, w)
  <1>1. Input \notin ToSet(q.data)
    BY ONLY NoPlace, FieldIs(q)
  <1> QED BY <1>1 DEF Handled, Listed, Selects

\* Letters make texts, and texts names.
LEMMA TextTypes ==
    /\ <<>> \in Seq(Letters)
    /\ \A text \in Seq(Letters) : text \in Seq(STRING) /\ text \in Names \cup {<<>>}
    /\ Letters \subseteq STRING
  <1>1. Letters \subseteq STRING \ {"input", "list", "null", "gone"}
    BY FormAssumption DEF Input, List, NoChip, Gone
  <1>2. ASSUME NEW text \in Seq(Letters)
        PROVE  text \in Seq(STRING) /\ text \in Names \cup {<<>>}
    <2>1. text \in Seq(STRING)
      BY <1>1, SeqMonotonic
    <2>2. \A i \in 1..Len(text) : text[i] \notin {"input", "list", "null", "gone"}
      BY <1>1, ElementOfSeq
    <2>3. text \notin {Input, List, NoChip, Gone}
      BY <2>2 DEF Input, List, NoChip, Gone
    <2> QED BY <2>1, <2>3 DEF Names, Away
  <1> QED BY <1>1, <1>2, EmptySeq

\* The index of the selected chip.
LEMMA IndexSound ==
    ASSUME NEW w, FieldIs(w), NEW i, i = SelectedIndex(w)
    PROVE  /\ i \in 0..Len(w.data) /\ Len(w.data) \in Nat /\ DOMAIN w.data = 1..Len(w.data)
           /\ i # 0 => w.data[i] = w.selected
           /\ i = 0 => w.selected \notin ToSet(w.data)
  <1>1. w.dom = w.data /\ Len(w.data) \in Nat /\ DOMAIN w.data = 1..Len(w.data)
    BY LenProperties DEF FieldIs, DataIs
  <1>2. PICK S : S = {0} \cup {k \in DOMAIN w.dom : w.dom[k] = w.selected}
    OBVIOUS
  <1>3. /\ S \in SUBSET (0..Len(w.data)) /\ 0 \in S
        /\ \A k \in S : k # 0 => w.data[k] = w.selected
        /\ \A k \in DOMAIN w.data : w.data[k] = w.selected => k \in S
    BY <1>1, <1>2
  <1>4. S # {}
    BY <1>3
  <1>5. i = Max(S)
    BY <1>2 DEF SelectedIndex
  <1>6. i \in S /\ \A k \in S : k <= i
    BY ONLY <1>1, <1>3, <1>4, <1>5, GreatestOf
  <1>7. i = 0 => w.selected \notin ToSet(w.data)
    <2>1. ASSUME i = 0, NEW k \in DOMAIN w.data, w.data[k] = w.selected
          PROVE  FALSE
      <3>1. k \in S /\ k \in 1..Len(w.data)
        BY ONLY <1>1, <1>3, <2>1, k \in DOMAIN w.data
      <3>2. k <= 0
        BY ONLY <1>6, <2>1, <3>1
      <3> QED BY ONLY <1>1, <3>1, <3>2
    <2> QED BY <2>1 DEF ToSet
  <1> QED BY ONLY <1>1, <1>3, <1>6, <1>7

\* A chip, or none, is selected.
LEMMA SelectHandled ==
    ASSUME NEW w, FieldIs(w), w.value \in Seq(Letters), w.keydown, Listed(w),
           w.focus \in ToSet(w.data) => w.strayed, NEW i, NEW q, q = SelectChip(w, i)
    PROVE  Handled(q, w)
  <1>1. CASE i \in DOMAIN w.data
    <2>1. /\ FieldIs(q) /\ Keeps(q, w)
          /\ w.keydown \/ w.focus = w.data[i] => Selects(q)
          /\ Listed(w) => Listed(q)
      BY ONLY <1>1, SelectsChip, FieldIs(w), q = SelectChip(w, i)
    <2> QED BY <2>1 DEF Handled, Keeps
  <1>2. CASE i \notin DOMAIN w.data
    <2>1. /\ FieldIs(q) /\ Keeps(q, w) /\ q.focus = w.focus /\ q.strayed = w.strayed
          /\ Listed(w) => Listed(q)
      BY ONLY <1>2, SelectsNothing, FieldIs(w), q = SelectChip(w, i)
    <2>2. Selects(q)
      BY <2>1 DEF Selects, Keeps
    <2> QED BY <2>1, <2>2 DEF Handled, Keeps
  <1> QED BY <1>1, <1>2

\* Selecting a chip that exists is a handled step of the field.
LEMMA SelectOneHandled ==
    ASSUME NEW w, Keyed(w), NEW i \in DOMAIN w.data, NEW q, q = SelectChip(w, i)
    PROVE  Handled(q, w)
  <1>1. FieldIs(w) /\ w.value \in Seq(Letters) /\ w.keydown /\ Listed(w)
    BY DEF Keyed
  <1>2. /\ FieldIs(q) /\ Keeps(q, w)
        /\ w.keydown \/ w.focus = w.data[i] => Selects(q)
        /\ Listed(w) => Listed(q)
    BY ONLY <1>1, SelectsChip, i \in DOMAIN w.data, q = SelectChip(w, i)
  <1> QED BY <1>1, <1>2 DEF Handled, Keeps

\* Backspace on a chip.
LEMMA BackHandled ==
    ASSUME NEW w, Keyed(w), NEW q, q = ChipBack(w)
    PROVE  Handled(q, w)
  <1>1. FieldIs(w) /\ w.value \in Seq(Letters) /\ w.keydown /\ Listed(w) /\ Selects(w)
    BY DEF Keyed
  <1>2. PICK index : index = SelectedIndex(w)
    OBVIOUS
  <1>3. PICK d : d = IF w.selected = NoChip THEN w
                     ELSE [DeleteChip(w, index, FALSE) EXCEPT !.selected = NoChip]
    OBVIOUS
  <1>4. PICK next : q = IF d.data = <<>> THEN d ELSE SelectChip(d, next)
    BY <1>2, <1>3 DEF ChipBack
  <1>5. /\ FieldIs(d) /\ KeepsRest(d, w) /\ Listed(d)
        /\ d.focus \in ToSet(d.data) => d.strayed
    <2>1. CASE w.selected = NoChip
      <3>1. d = w
        BY <1>3, <2>1
      <3>2. NoChip \notin ToSet(w.data)
        BY ONLY <1>1, NoPlace
      <3> QED BY <1>1, <2>1, <3>1, <3>2 DEF KeepsRest, Selects
    <2>2. CASE w.selected # NoChip
      <3>1. PICK b, e : b = FALSE /\ e = DeleteChip(w, index, b)
        OBVIOUS
      <3>2. d = [e EXCEPT !.selected = NoChip]
        BY <1>3, <2>2, <3>1
      <3>3. /\ Deleted(e, w)
            /\ index # 0 /\ index \in DOMAIN w.data => w.data[index] \notin ToSet(e.data)
        BY ONLY <1>1, <3>1, DeletesAny
      <3>4. FieldIs(e) /\ DOMAIN e = Parts
        BY <3>3 DEF Deleted, FieldIs
      <3>5. /\ DOMAIN d = Parts /\ d.drop = e.drop
            /\ d.value = e.value /\ d.options = e.options /\ d.active = e.active
            /\ d.isOpen = e.isOpen /\ d.mousedown = e.mousedown /\ d.tabPressed = e.tabPressed
            /\ d.data = e.data /\ d.els = e.els /\ d.dom = e.dom /\ d.selected = NoChip
            /\ d.keydown = e.keydown /\ d.focus = e.focus /\ d.strayed = e.strayed
            /\ d.unseen = e.unseen
        BY ONLY <3>2, <3>4 DEF Parts
      <3>6. FieldIs(d)
        BY <3>4, <3>5 DEF FieldIs, Flags, TextIs, DataIs, FocusIs
      <3>7. KeepsRest(d, w) /\ Listed(d)
        BY <1>1, <3>3, <3>5 DEF Deleted, KeepsRest, Listed
      <3>8. ASSUME d.focus \in ToSet(d.data), ~d.strayed
            PROVE  FALSE
        <4>1. d.focus # Away
          BY ONLY <3>6, <3>8, NoPlace
        <4>2. w.focus = d.focus /\ ~w.strayed /\ w.focus \in ToSet(w.data)
          BY <3>3, <3>5, <3>8, <4>1 DEF Deleted
        <4>3. w.selected = w.focus
          BY <1>1, <4>2 DEF Selects
        <4>4. /\ index \in 0..Len(w.data) /\ Len(w.data) \in Nat /\ DOMAIN w.data = 1..Len(w.data)
              /\ index # 0 => w.data[index] = w.selected
              /\ index = 0 => w.selected \notin ToSet(w.data)
          BY ONLY <1>1, <1>2, IndexSound
        <4>5. index \in DOMAIN w.data /\ w.data[index] = w.focus
          BY ONLY <4>2, <4>3, <4>4
        <4>6. index # 0
          BY ONLY <4>4, <4>5
        <4>7. w.data[index] \notin ToSet(e.data)
          BY ONLY <3>3, <4>5, <4>6
        <4> QED BY ONLY <3>5, <3>8, <4>2, <4>5, <4>7
      <3> QED BY ONLY <3>6, <3>7, <3>8, Flags(d) DEF FieldIs, Flags
    <2> QED BY <2>1, <2>2
  <1>6. CASE d.data = <<>>
    <2>1. q = d
      BY <1>4, <1>6
    <2>2. Selects(q)
      BY <1>5, <2>1 DEF Selects
    <2> QED BY <1>1, <1>5, <2>1, <2>2 DEF Handled, KeepsRest
  <1>7. CASE d.data # <<>>
    <2>1. q = SelectChip(d, next) /\ d.value \in Seq(Letters) /\ d.keydown
      BY <1>1, <1>4, <1>5, <1>7 DEF KeepsRest
    <2>2. Handled(q, d)
      BY ONLY <1>5, <2>1, SelectHandled
    <2> QED BY <1>5, <2>2 DEF Handled, KeepsRest
  <1> QED BY <1>6, <1>7

\* A key on a chip.
LEMMA ChipKeyHandled ==
    ASSUME NEW w, Keyed(w), NEW key, NEW q, q = ChipKeydown(w, key)
    PROVE  Handled(q, w)
  <1>1. FieldIs(w) /\ w.value \in Seq(Letters) /\ w.keydown /\ Listed(w) /\ Selects(w)
    BY DEF Keyed
  <1>2. PICK index : index = SelectedIndex(w)
    OBVIOUS
  <1>3. index \in 0..Len(w.data) /\ Len(w.data) \in Nat /\ DOMAIN w.data = 1..Len(w.data)
    BY ONLY <1>1, <1>2, IndexSound
  <1>4. CASE key = "back"
    <2>1. q = ChipBack(w)
      BY <1>4 DEF ChipKeydown
    <2> QED BY ONLY <2>1, BackHandled, Keyed(w)
  <1>5. CASE key = "left" /\ w.selected # NoChip /\ index > 1
    <2>1. PICK i : i = index - 1
      OBVIOUS
    <2>2. i \in DOMAIN w.data
      BY <1>3, <1>5, <2>1
    <2>3. q = SelectChip(w, i)
      BY <1>2, <1>5, <2>1 DEF ChipKeydown
    <2> QED BY ONLY <2>2, <2>3, SelectOneHandled, Keyed(w)
  <1>6. CASE key = "right" /\ w.selected # NoChip /\ index < Len(w.data)
    <2>1. PICK i : i = index + 1
      OBVIOUS
    <2>2. i \in DOMAIN w.data
      BY <1>3, <1>6, <2>1
    <2>3. q = SelectChip(w, i)
      BY <1>2, <1>3, <1>6, <2>1 DEF ChipKeydown
    <2> QED BY ONLY <2>2, <2>3, SelectOneHandled, Keyed(w)
  <1>7. CASE key = "right" /\ w.selected # NoChip /\ index >= Len(w.data)
    <2>1. q = FocusOn(w, Input)
      BY <1>2, <1>7 DEF ChipKeydown
    <2>2. FieldIs(q) /\ Keeps(q, w) /\ q.focus = Input
      BY ONLY <1>1, <2>1, FocusesInput
    <2> QED BY <1>1, <2>2, InputHandled DEF Keeps
  <1>8. CASE /\ key # "back" /\ ~(key = "left" /\ w.selected # NoChip /\ index > 1)
             /\ ~(key = "right" /\ w.selected # NoChip)
    <2>1. q = w
      BY <1>2, <1>8 DEF ChipKeydown
    <2> QED BY <1>1, <2>1 DEF Handled
  <1>9. index < Len(w.data) \/ index >= Len(w.data)
    BY ONLY <1>3
  <1> QED BY ONLY <1>4, <1>5, <1>6, <1>7, <1>8, <1>9

ListKeyed(w, key) == [w EXCEPT !.drop = ListKeydown(@, key, {}, w.options)]

\* A key in the list of completions changes nothing of the field but that list.
LEMMA ListKeys ==
    ASSUME NEW w, FieldIs(w), NEW key \in Keys, NEW q, q = ListKeyed(w, key)
    PROVE  /\ FieldIs(q) /\ Keeps(q, w)
           /\ q.focus = w.focus /\ q.selected = w.selected /\ q.strayed = w.strayed
           /\ q.options = w.options
           /\ Listed(w) => Listed(q)
           /\ Selects(w) => Selects(q)
  <1>1. PICK none : none = {}
    OBVIOUS
  <1>2. PICK p : p = ListKeydown(w.drop, key, none, w.options)
    OBVIOUS
  <1>3. q = [w EXCEPT !.drop = p]
    BY <1>2, <1>1 DEF ListKeyed
  <1>4. /\ Len(Components) \in Nat /\ none \in SUBSET (1..Len(Components))
        /\ DOMAIN w.options \subseteq 1..Len(Components)
    BY <1>1, FormAssumption, LenProperties DEF FieldIs, TextIs
  <1>5. DropSound(w.drop) /\ w.drop \in DropRecord /\ w.drop.focusedIndex \in 0..Len(Components)
    BY DEF FieldIs, ListIs, DropSound
  <1>6. PICK S : S = Sought(w.drop, key, none, w.options)
    OBVIOUS
  <1>7. /\ DropSound(p) /\ p.closes = w.drop.closes
        /\ p.isOpen => w.drop.isOpen
        /\ p.focusedIndex \in {0, w.drop.focusedIndex} \cup S
    <2>1. /\ DropSound(p) /\ p.closes = w.drop.closes
          /\ p.focusedIndex \in {0, w.drop.focusedIndex} \cup S
      BY ONLY <1>2, <1>4, <1>5, <1>6, KeydownSound, key \in Keys
    <2>2. ASSUME p.isOpen
          PROVE  w.drop.isOpen
      <3>1. CASE ~w.drop.isOpen
        <4>1. p = w.drop
          BY ONLY <1>2, <3>1 DEF ListKeydown
        <4> QED BY ONLY <2>2, <4>1
      <3> QED BY ONLY <3>1
    <2> QED BY ONLY <2>1, <2>2
  <1>8. S \subseteq 1..Len(Components)
    BY ONLY <1>4, <1>5, <1>6, SoughtType
  <1>9. ListIs(p)
    <2>1. 1..Len(Components) \subseteq 0..Len(Components) /\ 0 \in 0..Len(Components)
      BY ONLY <1>4
    <2> QED BY ONLY <1>5, <1>7, <1>8, <2>1 DEF ListIs
  <1>10. /\ FieldIs(q) /\ q.drop = p /\ Keeps(q, w)
         /\ q.focus = w.focus /\ q.selected = w.selected /\ q.strayed = w.strayed
         /\ q.options = w.options /\ q.mousedown = w.mousedown
    BY ONLY <1>3, <1>9, DropPut, FieldIs(w)
  <1>11. (Listed(w) => Listed(q)) /\ (Selects(w) => Selects(q))
    BY ONLY <1>7, <1>10 DEF Listed, Selects, Keeps
  <1> QED BY ONLY <1>10, <1>11

\* A key in the list.
LEMMA ListKeyHandled ==
    ASSUME NEW w, Keyed(w), w.focus = List, NEW key \in Keys, NEW q, q = ListKey(w, key)
    PROVE  Handled(q, w)
  <1>1. FieldIs(w) /\ w.value \in Seq(Letters) /\ w.keydown /\ Listed(w) /\ Selects(w)
    BY DEF Keyed
  <1>2. PICK moved : moved = ListKeyed(w, key)
    OBVIOUS
  <1>3. /\ FieldIs(moved) /\ Keeps(moved, w) /\ moved.options = w.options
        /\ Listed(w) => Listed(moved)
        /\ Selects(w) => Selects(moved)
    BY ONLY <1>1, <1>2, ListKeys, key \in Keys
  <1>4. Keyed(moved)
    BY <1>1, <1>3 DEF Keyed, Keeps
  <1>5. CASE ~(key = "enter" /\ w.drop.isOpen /\ w.drop.focusedIndex \in DOMAIN w.options)
    <2>1. q = ChipKeydown(moved, key)
      BY <1>2, <1>5 DEF ListKey, ListKeyed
    <2>2. Handled(q, moved)
      BY ONLY <1>4, <2>1, ChipKeyHandled
    <2> QED BY <1>3, <2>2 DEF Handled, Keeps
  <1>6. CASE key = "enter" /\ w.drop.isOpen /\ w.drop.focusedIndex \in DOMAIN w.options
    <2>1. PICK i : i = w.drop.focusedIndex
      OBVIOUS
    <2>2. q = Complete(moved, i) /\ i \in DOMAIN moved.options
      BY <1>2, <1>3, <1>6, <2>1 DEF ListKey, ListKeyed
    <2>3. FieldIs(q) /\ q.value = <<>> /\ q.focus = Input /\ q.unseen = moved.unseen
      BY ONLY <1>3, <2>2, Completes
    <2> QED BY <1>3, <2>3, TextTypes, InputHandled DEF Keeps
  <1> QED BY <1>5, <1>6

\* The list opens, for the dropdown only.
LEMMA ListOpens ==
    ASSUME NEW w, FieldIs(w), NEW q, q = [w EXCEPT !.drop = DropOpen(@)]
    PROVE  /\ FieldIs(q) /\ Keeps(q, w) /\ Timers(q, w)
           /\ q.focus = w.focus /\ q.options = w.options /\ q.active = w.active
  <1>1. PICK p : p = DropOpen(w.drop)
    OBVIOUS
  <1>2. DropSound(w.drop) /\ w.drop.focusedIndex \in 0..Len(Components)
    BY DEF FieldIs, ListIs
  <1>3. DropSound(p) /\ SameList(p, w.drop)
    BY ONLY <1>1, <1>2, OpenSound
  <1>4. ListIs(p) /\ p.closes = w.drop.closes /\ p.resets = w.drop.resets
    BY <1>2, <1>3 DEF ListIs, SameList
  <1>5. q = [w EXCEPT !.drop = p]
    BY <1>1
  <1>6. /\ FieldIs(q) /\ q.drop = p /\ Keeps(q, w) /\ q.focus = w.focus
        /\ q.options = w.options /\ q.active = w.active
    BY ONLY <1>4, <1>5, DropPut, FieldIs(w)
  <1> QED BY ONLY <1>4, <1>6 DEF Timers

\* An arrow moves among the options.
LEMMA MovesField ==
    ASSUME NEW w, FieldIs(w), NEW key, NEW q, q = MoveActive(w, key)
    PROVE  FieldIs(q) /\ Keeps(q, w) /\ q.focus = w.focus
  <1>1. DOMAIN w = Parts /\ w.active \in 0..Len(w.options) /\ Len(w.options) \in Nat
    BY DEF FieldIs, TextIs
  <1>2. PICK a : a = IF key = "up" /\ w.active > 1 THEN w.active - 1
                     ELSE IF key = "down" /\ w.active < Len(w.options) THEN w.active + 1
                     ELSE w.active
    OBVIOUS
  <1>3. a \in 0..Len(w.options)
    BY ONLY <1>1, <1>2
  <1>4. q = [w EXCEPT !.active = a]
    BY <1>2 DEF MoveActive
  <1>5. /\ DOMAIN q = Parts /\ q.drop = w.drop
        /\ q.value = w.value /\ q.options = w.options /\ q.active = a
        /\ q.isOpen = w.isOpen /\ q.mousedown = w.mousedown /\ q.tabPressed = w.tabPressed
        /\ q.data = w.data /\ q.els = w.els /\ q.dom = w.dom /\ q.selected = w.selected
        /\ q.keydown = w.keydown /\ q.focus = w.focus /\ q.strayed = w.strayed
        /\ q.unseen = w.unseen
    BY ONLY <1>1, <1>4 DEF Parts
  <1>6. FieldIs(q)
    BY <1>3, <1>5 DEF FieldIs, Flags, TextIs, DataIs, FocusIs
  <1> QED BY ONLY <1>5, <1>6 DEF Keeps

\* Enter in the input.
LEMMA EnterHandled ==
    ASSUME NEW w, Keyed(w), w.focus = Input, NEW q, q = InputEnter(w)
    PROVE  Handled(q, w)
  <1>1. FieldIs(w) /\ w.value \in Seq(Letters)
    BY DEF Keyed
  <1>2. PICK o : o = [w EXCEPT !.drop = DropOpen(@)]
    OBVIOUS
  <1>3. /\ FieldIs(o) /\ Keeps(o, w)
        /\ o.focus = w.focus /\ o.options = w.options /\ o.active = w.active
    BY ONLY <1>1, <1>2, ListOpens
  <1>4. PICK c : c = IF w.active \in DOMAIN w.options THEN Complete(o, w.active) ELSE o
    OBVIOUS
  <1>5. q = IF c.isOpen THEN c ELSE [AddChip(c, c.value) EXCEPT !.value = <<>>]
    BY <1>2, <1>4 DEF InputEnter
  <1>6. FieldIs(c) /\ c.value \in Seq(Letters) /\ c.unseen = w.unseen /\ c.focus = Input
    <2>1. CASE w.active \in DOMAIN w.options
      <3>1. PICK i : i = w.active
        OBVIOUS
      <3>2. i \in DOMAIN o.options /\ c = Complete(o, i)
        BY ONLY <1>3, <1>4, <2>1, <3>1
      <3>3. FieldIs(c) /\ c.value = <<>> /\ c.focus = Input /\ c.unseen = o.unseen
        BY ONLY <1>3, <3>2, Completes
      <3> QED BY <1>3, <3>3, TextTypes DEF Keeps
    <2>2. CASE w.active \notin DOMAIN w.options
      <3>1. c = o
        BY ONLY <1>4, <2>2
      <3> QED BY <1>1, <1>3, <3>1 DEF Keeps
    <2> QED BY <2>1, <2>2
  <1>7. CASE c.isOpen
    <2>1. q = c
      BY <1>5, <1>7
    <2> QED BY <1>6, <2>1, InputHandled
  <1>8. CASE ~c.isOpen
    <2>1. PICK name : name = c.value
      OBVIOUS
    <2>2. PICK a : a = AddChip(c, name)
      OBVIOUS
    <2>3. PICK e : e = <<>>
      OBVIOUS
    <2>4. q = Retyped(a, e)
      BY <1>5, <1>8, <2>1, <2>2, <2>3 DEF Retyped
    <2>5. name \in Names \cup {<<>>}
      BY ONLY <1>6, <2>1, TextTypes
    <2>6. FieldIs(a) /\ KeepsRest(a, c) /\ (c.focus \in {Away, Input, List} => a.focus = c.focus)
      BY ONLY <1>6, <2>2, <2>5, AddsChip
    <2>7. e \in Seq(STRING) /\ e \in Seq(Letters)
      BY <2>3, TextTypes, EmptySeq
    <2>8. e \in Seq(STRING)
      BY ONLY <2>7
    <2>9. FieldIs(q) /\ q.value = e /\ q.focus = a.focus /\ q.unseen = a.unseen
      BY ONLY <2>4, <2>6, <2>8, Retypes
    <2> QED BY <1>6, <2>6, <2>7, <2>9, InputHandled DEF KeepsRest
  <1> QED BY <1>7, <1>8

\* Backspace in the input.
LEMMA InputBackHandled ==
    ASSUME NEW w, Keyed(w), w.focus = Input, NEW q, q = InputBack(w)
    PROVE  Handled(q, w)
  <1>1. FieldIs(w) /\ w.value \in Seq(Letters) /\ w.keydown /\ Listed(w) /\ Selects(w)
    BY DEF Keyed
  <1>2. CASE w.value # <<>>
    <2>1. PICK text : text = Front(w.value)
      OBVIOUS
    <2>2. q = Retyped(w, text)
      BY <1>2, <2>1 DEF InputBack, Retyped
    <2>3. text \in Seq(Letters)
      <3>1. Len(w.value) \in Nat /\ \A i \in 1..Len(w.value) : w.value[i] \in Letters
        BY <1>1, LenProperties, ElementOfSeq
      <3>2. \A i \in 1..Len(w.value) - 1 : w.value[i] \in Letters
        BY <3>1
      <3>3. 1 \in Int /\ Len(w.value) - 1 \in Int
        BY <3>1
      <3>4. text = SubSeq(w.value, 1, Len(w.value) - 1)
        BY <2>1 DEF Front
      <3> QED BY ONLY <3>2, <3>3, <3>4, SubSeqProperties
    <2>4. text \in Seq(STRING)
      BY <2>3, TextTypes
    <2>5. FieldIs(q) /\ q.value = text /\ q.focus = w.focus /\ q.unseen = w.unseen
      BY ONLY <1>1, <2>2, <2>4, Retypes
    <2> QED BY <2>3, <2>5, InputHandled
  <1>3. CASE w.value = <<>> /\ w.data # <<>>
    <2>1. PICK i : i = Len(w.data)
      OBVIOUS
    <2>2. q = SelectChip(w, i)
      BY <1>3, <2>1 DEF InputBack
    <2>3. i \in DOMAIN w.data
      <3>1. w.data \in Seq(Names)
        BY <1>1 DEF FieldIs, DataIs
      <3>2. Len(w.data) \in Nat \ {0} /\ DOMAIN w.data = 1..Len(w.data)
        BY ONLY <1>3, <3>1, EmptySeq, LenProperties
      <3> QED BY ONLY <2>1, <3>2
    <2> QED BY ONLY <2>2, <2>3, SelectOneHandled, Keyed(w)
  <1>4. CASE w.value = <<>> /\ w.data = <<>>
    <2>1. q = w
      BY <1>4 DEF InputBack
    <2> QED BY <1>1, <2>1 DEF Handled
  <1> QED BY <1>2, <1>3, <1>4

\* A key in the input.
LEMMA InputKeyHandled ==
    ASSUME NEW w, Keyed(w), w.focus = Input,
           NEW key \in {"enter", "back", "down", "up"} \cup Letters,
           NEW q, q = InputKeydown(w, key)
    PROVE  Handled(q, w)
  <1>1. FieldIs(w) /\ w.value \in Seq(Letters)
    BY DEF Keyed
  <1>2. CASE key = "enter"
    <2>1. q = InputEnter(w)
      BY <1>2 DEF InputKeydown
    <2> QED BY ONLY <2>1, EnterHandled, Keyed(w), w.focus = Input
  <1>3. CASE key = "back"
    <2>1. q = InputBack(w)
      BY <1>3 DEF InputKeydown
    <2> QED BY ONLY <2>1, InputBackHandled, Keyed(w), w.focus = Input
  <1>4. CASE key = "down"
    <2>1. PICK o : o = [w EXCEPT !.drop = DropOpen(@)]
      OBVIOUS
    <2>2. q = MoveActive(o, key)
      BY <1>4, <2>1 DEF InputKeydown
    <2>3. FieldIs(o) /\ Keeps(o, w) /\ o.focus = w.focus
      BY ONLY <1>1, <2>1, ListOpens
    <2>4. FieldIs(q) /\ Keeps(q, o) /\ q.focus = o.focus
      BY ONLY <2>2, <2>3, MovesField
    <2> QED BY <1>1, <2>3, <2>4, InputHandled DEF Keeps
  <1>5. CASE key = "up"
    <2>1. q = MoveActive(w, key)
      BY <1>5 DEF InputKeydown
    <2>2. FieldIs(q) /\ Keeps(q, w) /\ q.focus = w.focus
      BY ONLY <1>1, <2>1, MovesField
    <2> QED BY <1>1, <2>2, InputHandled DEF Keeps
  <1>6. CASE key \notin {"enter", "back", "down", "up"}
    <2>1. PICK text : text = Append(w.value, key)
      OBVIOUS
    <2>2. q = Retyped(w, text)
      BY <1>6, <2>1 DEF InputKeydown, Retyped
    <2>3. text \in Seq(Letters)
      <3>1. key \in Letters
        BY <1>6
      <3> QED BY ONLY <1>1, <2>1, <3>1, AppendProperties
    <2>4. text \in Seq(STRING)
      BY <2>3, TextTypes
    <2>5. FieldIs(q) /\ q.value = text /\ q.focus = w.focus /\ q.unseen = w.unseen
      BY ONLY <1>1, <2>2, <2>4, Retypes
    <2> QED BY <2>3, <2>5, InputHandled
  <1> QED BY <1>2, <1>3, <1>4, <1>5, <1>6

\* A key goes down: the handlers find what was there.
LEMMA PressedSound ==
    ASSUME NEW w, FieldIs(w), w.value \in Seq(Letters), Listed(w), Selects(w),
           NEW key, NEW q, q = Pressed(w, key)
    PROVE  /\ Keyed(q) /\ Handled(q, w)
           /\ q.focus = w.focus /\ q.data = w.data /\ q.drop = w.drop /\ q.options = w.options
  <1>1. DOMAIN w = Parts /\ w.tabPressed \in BOOLEAN
    BY DEF FieldIs, Flags
  <1>2. PICK b \in BOOLEAN : b = (w.tabPressed \/ key \in {"tab", "shift-tab", "up", "down"})
    OBVIOUS
  <1>3. q = [w EXCEPT !.keydown = TRUE, !.tabPressed = b]
    BY <1>2 DEF Pressed
  <1>4. /\ DOMAIN q = Parts /\ q.drop = w.drop
        /\ q.value = w.value /\ q.options = w.options /\ q.active = w.active
        /\ q.isOpen = w.isOpen /\ q.mousedown = w.mousedown /\ q.tabPressed = b
        /\ q.data = w.data /\ q.els = w.els /\ q.dom = w.dom /\ q.selected = w.selected
        /\ q.keydown = TRUE /\ q.focus = w.focus /\ q.strayed = w.strayed
        /\ q.unseen = w.unseen
    BY ONLY <1>1, <1>3 DEF Parts
  <1>5. FieldIs(q)
    BY <1>4 DEF FieldIs, Flags, TextIs, DataIs, FocusIs
  <1>6. Listed(q) /\ Selects(q)
    BY <1>4 DEF Listed, Selects
  <1> QED BY <1>4, <1>5, <1>6 DEF Keyed, Handled

\* Membership is a truth value.
LEMMA BooleanIs ==
    ASSUME NEW S, NEW y
    PROVE  \E b \in BOOLEAN : b = (y \in S)
  <1>1. (y \in S) \in BOOLEAN
    OBVIOUS
  <1> QED BY ONLY <1>1

\* What is kept of the field.
FieldOk(w) == /\ FieldIs(w) /\ w.value \in Seq(Letters)
              /\ Listed(w) /\ Selects(w) /\ WithinTimers(w.drop)

\* A handler keeps it.
LEMMA HandledOk ==
    ASSUME NEW w, NEW q, Handled(q, w), WithinTimers(q.drop)
    PROVE  FieldOk(q)
  BY DEF Handled, FieldOk

\* A key goes to what has the focus.
LEMMA KeyStep ==
    ASSUME FieldOk(field), NEW key, Key(key)
    PROVE  /\ FieldOk(field') /\ field'.unseen = field.unseen
           /\ field.focus # Away /\ held' = held \cup {key}
           /\ key \in {"enter", "back", "down", "up", "left", "right", "esc"} \cup Letters
  <1>1. FieldIs(field) /\ field.value \in Seq(Letters) /\ Listed(field) /\ Selects(field)
    BY DEF FieldOk
  <1>2. PICK w : w = Pressed(field, key)
    OBVIOUS
  <1>3. Keyed(w) /\ w.focus = field.focus /\ w.unseen = field.unseen
    <2>1. Keyed(w) /\ Handled(w, field) /\ w.focus = field.focus
      BY ONLY <1>1, <1>2, PressedSound
    <2> QED BY <2>1 DEF Handled
  <1>4. held' = held \cup {key}
    BY DEF Key
  <1>5. ASSUME field.focus = Input, key \in {"enter", "back", "down", "up"} \cup Letters,
               FieldBecomes(InputKeydown(w, key))
        PROVE  Handled(field', w) /\ WithinTimers(field'.drop) /\ field.focus # Away
    <2>1. field' = InputKeydown(w, key) /\ WithinTimers(field'.drop)
      BY <1>5 DEF FieldBecomes, InBounds
    <2>2. w.focus = Input /\ key \in {"enter", "back", "down", "up"} \cup Letters
      BY <1>3, <1>5
    <2>3. Handled(field', w)
      BY ONLY <1>3, <2>1, <2>2, InputKeyHandled
    <2> QED BY <1>5, <2>1, <2>3, PlacesDiffer
  <1>6. ASSUME OnChip(field), FieldBecomes(ChipKeydown(w, key))
        PROVE  Handled(field', w) /\ WithinTimers(field'.drop) /\ field.focus # Away
    <2>1. field' = ChipKeydown(w, key) /\ WithinTimers(field'.drop)
      BY <1>6 DEF FieldBecomes, InBounds
    <2>2. Handled(field', w)
      BY ONLY <1>3, <2>1, ChipKeyHandled
    <2>3. field.focus \in ToSet(field.data)
      BY <1>1, <1>6 DEF OnChip, FieldIs, DataIs
    <2>4. Away \notin ToSet(field.data)
      BY ONLY <1>1, NoPlace
    <2> QED BY <2>1, <2>2, <2>3, <2>4
  <1>7. ASSUME field.focus = List, key \in {"enter", "esc", "back"} \cup Letters,
               FieldBecomes(ListKey(w, key))
        PROVE  Handled(field', w) /\ WithinTimers(field'.drop) /\ field.focus # Away
    <2>1. field' = ListKey(w, key) /\ WithinTimers(field'.drop)
      BY <1>7 DEF FieldBecomes, InBounds
    <2>2. key \in Keys /\ w.focus = List
      BY <1>3, <1>7 DEF Keys
    <2>3. Handled(field', w)
      BY ONLY <1>3, <2>1, <2>2, ListKeyHandled
    <2> QED BY <1>7, <2>1, <2>3, PlacesDiffer
  <1>8. \/ /\ field.focus = Input
           /\ key \in {"enter", "back", "down", "up"} \cup Letters
           /\ FieldBecomes(InputKeydown(w, key))
        \/ /\ OnChip(field) /\ key \in {"back", "left", "right"}
           /\ FieldBecomes(ChipKeydown(w, key))
        \/ /\ field.focus = List /\ key \in {"enter", "esc", "back"} \cup Letters
           /\ FieldBecomes(ListKey(w, key))
    BY <1>2 DEF Key
  <1>9. Handled(field', w) /\ WithinTimers(field'.drop) /\ field.focus # Away
    BY ONLY <1>5, <1>6, <1>7, <1>8
  <1>10. FieldOk(field') /\ field'.unseen = field.unseen
    BY <1>3, <1>9, HandledOk DEF Handled
  <1>11. key \in {"enter", "back", "down", "up", "left", "right", "esc"} \cup Letters
    BY ONLY <1>8
  <1> QED BY ONLY <1>4, <1>9, <1>10, <1>11

\* Where Tab stops.
LEMMA StopsAre ==
    ASSUME NEW w, FieldIs(w), NEW to \in DOMAIN Stops(w)
    PROVE  Stops(w)[to] \in ToSet(w.data) \cup {Input, List}
  <1>1. PICK P : P = ToSet(w.data) \cup {Input, List}
    OBVIOUS
  <1>2. w.dom = w.data /\ w.data \in Seq(Names)
    BY DEF FieldIs, DataIs
  <1>3. w.dom \in Seq(P)
    <2>1. DOMAIN w.data = 1..Len(w.data) /\ Len(w.data) \in Nat
          /\ w.data = [i \in 1..Len(w.data) |-> w.data[i]]
      BY ONLY <1>2, LenProperties
    <2>2. \A i \in 1..Len(w.data) : w.data[i] \in P
      BY ONLY <1>1, <2>1 DEF ToSet
    <2> QED BY ONLY <1>2, <2>1, <2>2
  <1>4. /\ <<Input>> \in Seq(P)
        /\ (IF w.drop.shown THEN <<List>> ELSE <<>>) \in Seq(P)
    <2>1. Input \in P /\ List \in P
      BY ONLY <1>1
    <2> QED BY ONLY <2>1
  <1>5. w.dom \o <<Input>> \in Seq(P)
    BY ONLY <1>3, <1>4, ConcatProperties
  <1>6. Stops(w) \in Seq(P)
    BY ONLY <1>4, <1>5, ConcatProperties DEF Stops
  <1>7. Stops(w)[to] \in P
    BY ONLY <1>6, ElementOfSeq, LenProperties, to \in DOMAIN Stops(w)
  <1> QED BY ONLY <1>1, <1>7

\* Tab moves the focus, or closes the list.
LEMMA TabStep ==
    ASSUME FieldOk(field), NEW key, Tab(key)
    PROVE  /\ FieldOk(field') /\ field'.unseen = field.unseen
           /\ held' = held \cup {key}
  <1>1. FieldIs(field) /\ field.value \in Seq(Letters) /\ Listed(field) /\ Selects(field)
    BY DEF FieldOk
  <1>2. PICK w : w = Pressed(field, key)
    OBVIOUS
  <1>3. PICK to, moved :
            /\ to = NextStop(w, key)
            /\ moved = IF to \in DOMAIN Stops(w) THEN FocusOn(w, Stops(w)[to]) ELSE Leave(w)
    OBVIOUS
  <1>4. /\ FieldBecomes(
               IF w.focus = List /\ w.drop.isOpen
                 THEN [w EXCEPT !.drop = ListKeydown(@, "tab", {}, w.options)]
                 ELSE [moved EXCEPT !.strayed = OnChip(moved)])
        /\ held' = held \cup {key}
    BY ONLY <1>2, <1>3, Tab(key) DEF Tab, Tabbed
  <1>5. Keyed(w) /\ w.unseen = field.unseen
    <2>1. Keyed(w) /\ Handled(w, field)
      BY ONLY <1>1, <1>2, PressedSound
    <2> QED BY <2>1 DEF Handled
  <1>6. FieldIs(w) /\ w.value \in Seq(Letters) /\ Listed(w) /\ Selects(w)
    BY <1>5 DEF Keyed
  <1>7. WithinTimers(field'.drop)
    BY <1>4 DEF FieldBecomes, InBounds
  <1>8. CASE w.focus = List /\ w.drop.isOpen
    <2>1. PICK tab \in Keys : tab = "tab"
      BY DEF Keys
    <2>2. field' = ListKeyed(w, tab)
      BY <1>4, <1>8, <2>1 DEF FieldBecomes, ListKeyed
    <2>3. tab \in Keys
      BY ONLY <2>1
    <2>4. /\ FieldIs(field') /\ Keeps(field', w)
          /\ Listed(w) => Listed(field')
          /\ Selects(w) => Selects(field')
      BY ONLY <1>6, <2>2, <2>3, ListKeys
    <2> QED BY <1>4, <1>5, <1>6, <1>7, <2>4 DEF FieldOk, Keeps
  <1>9. CASE ~(w.focus = List /\ w.drop.isOpen)
    <2>1. FieldIs(moved) /\ Keeps(moved, w) /\ Listed(moved)
      <3>1. CASE to \in DOMAIN Stops(w)
        <4>1. PICK place : place = Stops(w)[to]
          OBVIOUS
        <4>2. Spot(w, place)
          BY ONLY <1>6, <3>1, <4>1, StopsAre DEF Spot
        <4>3. moved = FocusOn(w, place)
          BY ONLY <1>3, <3>1, <4>1
        <4>4. Focused(moved, w, place)
          BY ONLY <1>6, <4>2, <4>3, FocusesField
        <4> QED BY ONLY <1>6, <4>4 DEF Focused
      <3>2. CASE to \notin DOMAIN Stops(w)
        <4>1. moved = Leave(w)
          BY ONLY <1>3, <3>2
        <4>2. FieldIs(moved) /\ Keeps(moved, w) /\ (Listed(w) => Listed(moved))
          BY ONLY <1>6, <4>1, LeavesField
        <4> QED BY ONLY <1>6, <4>2
      <3> QED BY ONLY <3>1, <3>2
    <2>2. PICK b \in BOOLEAN : b = OnChip(moved)
      BY BooleanIs DEF OnChip
    <2>3. PICK q : q = [moved EXCEPT !.strayed = b]
      OBVIOUS
    <2>4. field' = q
      BY ONLY <1>4, <1>9, <2>2, <2>3 DEF FieldBecomes
    <2>5. DOMAIN moved = Parts /\ moved.dom = moved.data
      BY <2>1 DEF FieldIs, DataIs
    <2>6. /\ DOMAIN q = Parts /\ q.drop = moved.drop
          /\ q.value = moved.value /\ q.options = moved.options /\ q.active = moved.active
          /\ q.isOpen = moved.isOpen /\ q.mousedown = moved.mousedown
          /\ q.tabPressed = moved.tabPressed
          /\ q.data = moved.data /\ q.els = moved.els /\ q.dom = moved.dom
          /\ q.selected = moved.selected /\ q.strayed = b
          /\ q.keydown = moved.keydown /\ q.focus = moved.focus /\ q.unseen = moved.unseen
      BY ONLY <2>3, <2>5 DEF Parts
    <2>7. FieldIs(q)
      BY <2>1, <2>6 DEF FieldIs, Flags, TextIs, DataIs, FocusIs
    <2>8. Listed(q) /\ Selects(q)
      BY <2>1, <2>2, <2>5, <2>6 DEF Listed, Selects, OnChip
    <2> QED BY <1>4, <1>5, <1>6, <1>7, <2>1, <2>4, <2>6, <2>7, <2>8 DEF FieldOk, Keeps
  <1> QED BY <1>8, <1>9

\* A key comes up.
LEMMA KeyUpStep ==
    ASSUME FieldOk(field), NEW key, KeyUp(key)
    PROVE  /\ FieldOk(field') /\ field'.unseen = field.unseen /\ field'.focus = field.focus
           /\ held' \subseteq held
  <1>1. FieldIs(field) /\ field.value \in Seq(Letters) /\ Listed(field) /\ Selects(field)
        /\ WithinTimers(field.drop)
    BY DEF FieldOk
  <1>2. PICK w : w = IF field.focus = Input /\ key \notin {"enter", "up", "down"}
                       THEN InputKeyup(field) ELSE field
    OBVIOUS
  <1>3. /\ held' = held \ {key}
        /\ field' = [w EXCEPT !.keydown = FALSE,
               !.tabPressed = @ /\ key \notin {"tab", "shift-tab", "up", "down"}]
    BY <1>2 DEF KeyUp
  <1>4. /\ FieldIs(w) /\ Keeps(w, field) /\ Timers(w, field)
        /\ w.focus = field.focus /\ w.selected = field.selected /\ w.strayed = field.strayed
        /\ Listed(w)
    <2>1. CASE field.focus = Input /\ key \notin {"enter", "up", "down"}
      <3>1. PICK o, v : (o = field \/ o = OpenList(field)) /\ w = Noted(o, v)
        BY ONLY <1>2, <2>1 DEF InputKeyup, Noted
      <3>2. /\ FieldIs(w) /\ Keeps(w, field) /\ Timers(w, field)
            /\ w.focus = field.focus /\ w.selected = field.selected /\ w.strayed = field.strayed
        BY ONLY <1>1, <3>1, LooksUp
      <3> QED BY <2>1, <3>2 DEF Listed
    <2>2. CASE ~(field.focus = Input /\ key \notin {"enter", "up", "down"})
      <3>1. w = field
        BY ONLY <1>2, <2>2
      <3> QED BY <1>1, <3>1 DEF Keeps, Timers
    <2> QED BY <2>1, <2>2
  <1>5. DOMAIN w = Parts /\ w.tabPressed \in BOOLEAN
    BY <1>4 DEF FieldIs, Flags
  <1>6. PICK b \in BOOLEAN :
            b = (w.tabPressed /\ key \notin {"tab", "shift-tab", "up", "down"})
    OBVIOUS
  <1>7. PICK q : q = [w EXCEPT !.keydown = FALSE, !.tabPressed = b]
    OBVIOUS
  <1>8. field' = q
    BY ONLY <1>3, <1>6, <1>7
  <1>9. /\ DOMAIN q = Parts /\ q.drop = w.drop
        /\ q.value = w.value /\ q.options = w.options /\ q.active = w.active
        /\ q.isOpen = w.isOpen /\ q.mousedown = w.mousedown /\ q.tabPressed = b
        /\ q.data = w.data /\ q.els = w.els /\ q.dom = w.dom /\ q.selected = w.selected
        /\ q.keydown = FALSE /\ q.focus = w.focus /\ q.strayed = w.strayed
        /\ q.unseen = w.unseen
    BY ONLY <1>5, <1>7 DEF Parts
  <1>10. FieldIs(q)
    BY <1>4, <1>9 DEF FieldIs, Flags, TextIs, DataIs, FocusIs
  <1>11. Listed(q) /\ Selects(q) /\ WithinTimers(q.drop)
    BY <1>1, <1>4, <1>9 DEF Listed, Selects, WithinTimers, Keeps, Timers
  <1> QED BY <1>1, <1>3, <1>4, <1>8, <1>9, <1>10, <1>11 DEF FieldOk, Keeps


-----------------------------------------------------------------------------
(* The mouse *)

\* A click is seen by the list.
LEMMA SeenSound ==
    ASSUME NEW w, FieldIs(w), NEW q, q = Seen(w)
    PROVE  /\ FieldIs(q) /\ Listed(q) /\ ~q.unseen
           /\ q.data = w.data /\ q.value = w.value /\ q.focus = w.focus
           /\ q.selected = w.selected
  <1>1. PICK p : p = ClickBeyond(w.drop)
    OBVIOUS
  <1>2. DropSound(w.drop) /\ w.drop.focusedIndex \in 0..Len(Components) /\ DOMAIN w = Parts
    BY DEF FieldIs, ListIs
  <1>3. DropSound(p) /\ p.isOpen = w.drop.isOpen /\ p.focusedIndex = w.drop.focusedIndex
        /\ (w.drop.isOpen => p.closes > 0)
    BY ONLY <1>1, <1>2, ClicksSound
  <1>4. q = [w EXCEPT !.drop = p, !.unseen = FALSE]
    BY <1>1 DEF Seen, ClickBeyond
  <1>5. /\ DOMAIN q = Parts /\ q.drop = p
        /\ q.value = w.value /\ q.options = w.options /\ q.active = w.active
        /\ q.isOpen = w.isOpen /\ q.mousedown = w.mousedown /\ q.tabPressed = w.tabPressed
        /\ q.data = w.data /\ q.els = w.els /\ q.dom = w.dom /\ q.selected = w.selected
        /\ q.keydown = w.keydown /\ q.focus = w.focus /\ q.strayed = w.strayed
        /\ q.unseen = FALSE
    BY ONLY <1>2, <1>4 DEF Parts
  <1>6. ListIs(p)
    BY ONLY <1>2, <1>3 DEF ListIs
  <1>7. FieldIs(q)
    BY <1>5, <1>6 DEF FieldIs, Flags, TextIs, DataIs, FocusIs
  <1> QED BY ONLY <1>3, <1>5, <1>7 DEF Listed

\* In the input, or with no focus, no chip has to be selected.
LEMMA SelectsElsewhere ==
    ASSUME NEW w, FieldIs(w), w.focus \in {Away, Input, List}
    PROVE  Selects(w)
  <1>1. ToSet(w.data) \cap {Away, Input, List, NoChip, Gone} = {}
    BY ONLY NoPlace, FieldIs(w)
  <1> QED BY ONLY <1>1, w.focus \in {Away, Input, List} DEF Selects

\* The field is in order once the input has the focus.
LEMMA InInput ==
    ASSUME NEW w, FieldIs(w), w.focus = Input, w.value \in Seq(Letters), WithinTimers(w.drop)
    PROVE  FieldOk(w)
  <1>1. Selects(w)
    <2>1. w.focus \in {Away, Input, List}
      BY ONLY w.focus = Input
    <2> QED BY ONLY <2>1, FieldIs(w), SelectsElsewhere
  <1> QED BY <1>1 DEF FieldOk, Listed

\* What a record becomes is within its bounds.
LEMMA Becomes ==
    ASSUME NEW w, FieldBecomes(w)
    PROVE  field' = w /\ WithinTimers(w.drop)
  BY DEF FieldBecomes, InBounds

\* A click elsewhere.
LEMMA LeaveFieldStep ==
    ASSUME FieldOk(field), FieldBecomes(Seen(Leave(field)))
    PROVE  FieldOk(field') /\ field'.focus = Away
  <1>1. FieldIs(field) /\ field.value \in Seq(Letters)
    BY DEF FieldOk
  <1>2. PICK l : l = Leave(field)
    OBVIOUS
  <1>3. FieldIs(l) /\ Keeps(l, field) /\ l.focus = Away
    BY ONLY <1>1, <1>2, LeavesField
  <1>4. PICK q : q = Seen(l)
    OBVIOUS
  <1>5. FieldIs(q) /\ Listed(q) /\ q.value = l.value /\ q.focus = l.focus
    BY ONLY <1>3, <1>4, SeenSound
  <1>6. field' = q /\ WithinTimers(q.drop)
    BY <1>2, <1>4, Becomes
  <1>7. Selects(q)
    <2>1. q.focus \in {Away, Input, List}
      BY ONLY <1>3, <1>5
    <2> QED BY ONLY <1>5, <2>1, SelectsElsewhere
  <1> QED BY ONLY <1>1, <1>3, <1>5, <1>6, <1>7 DEF FieldOk, Keeps

\* A click on the input opens its list.
LEMMA ClickOnInputStep ==
    ASSUME FieldOk(field), ClickOnInput
    PROVE  FieldOk(field') /\ held' = held
  <1>1. FieldIs(field) /\ field.value \in Seq(Letters)
    BY DEF FieldOk
  <1>2. PICK f : f = FocusOn(field, Input)
    OBVIOUS
  <1>3. FieldIs(f) /\ Keeps(f, field) /\ f.focus = Input
    BY ONLY <1>1, <1>2, FocusesInput
  <1>4. PICK s : s = Seen(f)
    OBVIOUS
  <1>5. FieldIs(s) /\ s.value = f.value /\ s.focus = f.focus
    BY ONLY <1>3, <1>4, SeenSound
  <1>6. PICK q : q = OpenList(s)
    OBVIOUS
  <1>7. FieldIs(q) /\ Keeps(q, s) /\ q.focus = s.focus
    BY ONLY <1>5, <1>6, OpensField
  <1>8. field' = q /\ WithinTimers(q.drop) /\ held' = held
    BY <1>2, <1>4, <1>6, Becomes DEF ClickOnInput
  <1>9. q.focus = Input /\ q.value \in Seq(Letters)
    BY ONLY <1>1, <1>3, <1>5, <1>7 DEF Keeps
  <1>10. FieldOk(q)
    BY ONLY <1>7, <1>8, <1>9, InInput
  <1> QED BY ONLY <1>8, <1>10

\* A click around the chips.
LEMMA ClickAroundStep ==
    ASSUME FieldOk(field), ClickAround
    PROVE  FieldOk(field') /\ held' = held
  <1>1. FieldIs(field) /\ field.value \in Seq(Letters)
    BY DEF FieldOk
  <1>2. PICK l : l = Leave(field)
    OBVIOUS
  <1>3. FieldIs(l) /\ Keeps(l, field)
    BY ONLY <1>1, <1>2, LeavesField
  <1>4. PICK s : s = Seen(l)
    OBVIOUS
  <1>5. FieldIs(s) /\ s.value = l.value
    BY ONLY <1>3, <1>4, SeenSound
  <1>6. PICK q : q = FocusOn(s, Input)
    OBVIOUS
  <1>7. FieldIs(q) /\ Keeps(q, s) /\ q.focus = Input
    BY ONLY <1>5, <1>6, FocusesInput
  <1>8. field' = q /\ WithinTimers(q.drop) /\ held' = held
    BY <1>2, <1>4, <1>6, Becomes DEF ClickAround
  <1>9. q.value \in Seq(Letters)
    BY ONLY <1>1, <1>3, <1>5, <1>7 DEF Keeps
  <1>10. FieldOk(q)
    BY ONLY <1>7, <1>8, <1>9, InInput
  <1> QED BY ONLY <1>8, <1>10

\* The mouse goes down on a chip, and the list sees the click.
LEMMA ChipSeen ==
    ASSUME FieldIs(field), NEW i \in DOMAIN field.dom,
           NEW s, s = Seen(FocusOn(field, field.dom[i]))
    PROVE  /\ FieldIs(s) /\ Listed(s) /\ s.value = field.value
           /\ i \in DOMAIN s.data /\ s.focus = s.data[i]
  <1>1. PICK chip : chip = field.dom[i]
    OBVIOUS
  <1>2. field.dom = field.data
    BY DEF FieldIs, DataIs
  <1>3. i \in DOMAIN field.data /\ chip \in ToSet(field.data)
    BY <1>1, <1>2 DEF ToSet
  <1>4. Spot(field, chip)
    BY ONLY <1>3 DEF Spot
  <1>5. PICK f : f = FocusOn(field, chip)
    OBVIOUS
  <1>6. FieldIs(f) /\ Keeps(f, field) /\ f.focus = chip
    <2>1. Focused(f, field, chip)
      BY ONLY <1>4, <1>5, FocusesField, FieldIs(field)
    <2> QED BY ONLY <2>1 DEF Focused
  <1>7. s = Seen(f)
    BY ONLY <1>1, <1>5, s = Seen(FocusOn(field, field.dom[i]))
  <1>8. FieldIs(s) /\ Listed(s) /\ s.data = f.data /\ s.value = f.value /\ s.focus = f.focus
    BY ONLY <1>6, <1>7, SeenSound
  <1> QED BY ONLY <1>1, <1>2, <1>3, <1>6, <1>8 DEF Keeps

\* A click on a chip selects it.
LEMMA ClickChipStep ==
    ASSUME FieldOk(field), NEW i, ClickChip(i)
    PROVE  FieldOk(field') /\ held' = held
  <1>1. FieldIs(field) /\ field.value \in Seq(Letters)
    BY DEF FieldOk
  <1>2. PICK s : s = Seen(FocusOn(field, field.dom[i]))
    OBVIOUS
  <1>3. i \in DOMAIN field.dom
    BY DEF ClickChip
  <1>4. /\ FieldIs(s) /\ Listed(s) /\ s.value = field.value
        /\ i \in DOMAIN s.data /\ s.focus = s.data[i]
    BY ONLY <1>1, <1>2, <1>3, ChipSeen
  <1>5. PICK q : q = SelectChip(s, i)
    OBVIOUS
  <1>6. /\ FieldIs(q) /\ Keeps(q, s)
        /\ s.keydown \/ s.focus = s.data[i] => Selects(q)
        /\ Listed(s) => Listed(q)
    BY ONLY <1>4, <1>5, SelectsChip
  <1>7. field' = q /\ WithinTimers(q.drop) /\ held' = held
    BY <1>2, <1>5, Becomes DEF ClickChip
  <1> QED BY ONLY <1>1, <1>4, <1>6, <1>7 DEF FieldOk, Keeps

\* A click on its cross deletes it.
LEMMA ClickCloseStep ==
    ASSUME FieldOk(field), NEW i, NEW blurs, ClickClose(i, blurs)
    PROVE  FieldOk(field') /\ held' = held
  <1>1. FieldIs(field) /\ field.value \in Seq(Letters)
    BY DEF FieldOk
  <1>2. PICK s : s = Seen(FocusOn(field, field.dom[i]))
    OBVIOUS
  <1>3. i \in DOMAIN field.dom
    BY DEF ClickClose
  <1>4. FieldIs(s) /\ s.value = field.value
    BY ONLY <1>1, <1>2, <1>3, ChipSeen
  <1>5. PICK d : d = DeleteChip(s, i, blurs)
    OBVIOUS
  <1>6. Deleted(d, s)
    BY ONLY <1>4, <1>5, DeletesAny
  <1>7. FieldIs(d) /\ d.value = s.value
    BY ONLY <1>6 DEF Deleted, KeepsRest
  <1>8. PICK q : q = FocusOn(d, Input)
    OBVIOUS
  <1>9. FieldIs(q) /\ Keeps(q, d) /\ q.focus = Input
    BY ONLY <1>7, <1>8, FocusesInput
  <1>10. field' = q /\ WithinTimers(q.drop) /\ held' = held
    BY <1>2, <1>5, <1>8, Becomes DEF ClickClose
  <1>11. q.value \in Seq(Letters)
    BY ONLY <1>1, <1>4, <1>7, <1>9 DEF Keeps
  <1>12. FieldOk(q)
    BY ONLY <1>9, <1>10, <1>11, InInput
  <1> QED BY ONLY <1>10, <1>12

\* The mouse goes down in the list.
LEMMA InListSound ==
    ASSUME FieldIs(field), NEW q, q = InList(field)
    PROVE  /\ FieldIs(q) /\ Keeps(q, field) /\ q.focus = List /\ q.mousedown
           /\ q.options = field.options
  <1>1. PICK m : m = [field EXCEPT !.mousedown = TRUE]
    OBVIOUS
  <1>2. DOMAIN field = Parts
    BY DEF FieldIs
  <1>3. /\ DOMAIN m = Parts /\ m.drop = field.drop
        /\ m.value = field.value /\ m.options = field.options /\ m.active = field.active
        /\ m.isOpen = field.isOpen /\ m.mousedown = TRUE /\ m.tabPressed = field.tabPressed
        /\ m.data = field.data /\ m.els = field.els /\ m.dom = field.dom
        /\ m.selected = field.selected /\ m.keydown = field.keydown /\ m.focus = field.focus
        /\ m.strayed = field.strayed /\ m.unseen = field.unseen
    BY ONLY <1>1, <1>2 DEF Parts
  <1>4. FieldIs(m)
    BY <1>3 DEF FieldIs, Flags, TextIs, DataIs, FocusIs
  <1>5. PICK place : place = List
    OBVIOUS
  <1>6. Spot(m, place) /\ place # Input
    BY ONLY <1>5, PlacesDiffer DEF Spot
  <1>7. q = FocusOn(m, place)
    BY <1>1, <1>5 DEF InList
  <1>8. Focused(q, m, place)
    BY ONLY <1>4, <1>6, <1>7, FocusesField
  <1>9. FieldIs(q) /\ Keeps(q, m) /\ q.focus = place /\ q.mousedown /\ q.options = m.options
    BY ONLY <1>3, <1>6, <1>8 DEF Focused
  <1> QED BY ONLY <1>3, <1>5, <1>9 DEF Keeps

\* A click on an option takes it.
LEMMA ClickOptionStep ==
    ASSUME FieldOk(field), NEW i, ClickOption(i)
    PROVE  FieldOk(field') /\ field'.unseen = field.unseen /\ held' = held
  <1>1. FieldIs(field)
    BY DEF FieldOk
  <1>2. PICK l : l = InList(field)
    OBVIOUS
  <1>3. FieldIs(l) /\ Keeps(l, field) /\ l.options = field.options
    BY ONLY <1>1, <1>2, InListSound
  <1>4. DOMAIN l = Parts
    BY <1>3 DEF FieldIs
  <1>5. PICK u : u = [l EXCEPT !.mousedown = FALSE]
    OBVIOUS
  <1>6. /\ DOMAIN u = Parts /\ u.drop = l.drop
        /\ u.value = l.value /\ u.options = l.options /\ u.active = l.active
        /\ u.isOpen = l.isOpen /\ u.mousedown = FALSE /\ u.tabPressed = l.tabPressed
        /\ u.data = l.data /\ u.els = l.els /\ u.dom = l.dom /\ u.selected = l.selected
        /\ u.keydown = l.keydown /\ u.focus = l.focus /\ u.strayed = l.strayed
        /\ u.unseen = l.unseen
    BY ONLY <1>4, <1>5 DEF Parts
  <1>7. FieldIs(u)
    BY <1>3, <1>6 DEF FieldIs, Flags, TextIs, DataIs, FocusIs
  <1>8. i \in DOMAIN u.options
    BY <1>3, <1>6 DEF ClickOption
  <1>9. PICK q : q = Complete(u, i)
    OBVIOUS
  <1>10. FieldIs(q) /\ q.value = <<>> /\ q.focus = Input /\ q.unseen = u.unseen
    BY ONLY <1>7, <1>8, <1>9, Completes
  <1>11. field' = q /\ WithinTimers(q.drop) /\ held' = held
    BY <1>2, <1>5, <1>9, Becomes DEF ClickOption
  <1>12. q.value \in Seq(Letters)
    BY ONLY <1>10, EmptySeq
  <1>13. FieldOk(q)
    BY ONLY <1>10, <1>11, <1>12, InInput
  <1> QED BY ONLY <1>3, <1>6, <1>10, <1>11, <1>13 DEF Keeps

\* The mouse comes up elsewhere.
LEMMA DragOffStep ==
    ASSUME FieldOk(field), NEW to \in {"around", "page", "window"}, DragOff(to)
    PROVE  FieldOk(field') /\ held' = held /\ (to = "window" => field'.unseen)
  <1>1. FieldIs(field) /\ field.value \in Seq(Letters)
    BY DEF FieldOk
  <1>2. PICK l : l = InList(field)
    OBVIOUS
  <1>3. FieldIs(l) /\ Keeps(l, field) /\ l.focus = List /\ l.mousedown
    BY ONLY <1>1, <1>2, InListSound
  <1>4. PICK s : s = Seen(l)
    OBVIOUS
  <1>5. FieldIs(s) /\ Listed(s) /\ s.value = l.value /\ s.focus = l.focus
    BY ONLY <1>3, <1>4, SeenSound
  <1>6. held' = held
    BY DEF DragOff
  <1>7. CASE to = "around"
    <2>1. PICK q : q = FocusOn(s, Input)
      OBVIOUS
    <2>2. FieldIs(q) /\ Keeps(q, s) /\ q.focus = Input
      BY ONLY <1>5, <2>1, FocusesInput
    <2>3. field' = q /\ WithinTimers(q.drop)
      BY <1>2, <1>4, <1>7, <2>1, Becomes DEF DragOff
    <2>4. q.value \in Seq(Letters)
      BY ONLY <1>1, <1>3, <1>5, <2>2 DEF Keeps
    <2>5. FieldOk(q)
      BY ONLY <2>2, <2>3, <2>4, InInput
    <2> QED BY <1>6, <1>7, <2>3, <2>5
  <1>8. CASE to = "page"
    <2>1. field' = s /\ WithinTimers(s.drop)
      BY <1>2, <1>4, <1>8, Becomes DEF DragOff
    <2>2. Selects(s)
      <3>1. s.focus \in {Away, Input, List}
        BY ONLY <1>3, <1>5
      <3> QED BY ONLY <1>5, <3>1, SelectsElsewhere
    <2>3. FieldOk(s)
      BY ONLY <1>1, <1>3, <1>5, <2>1, <2>2 DEF FieldOk, Keeps
    <2> QED BY <1>6, <1>8, <2>1, <2>3
  <1>9. CASE to = "window"
    <2>1. PICK q : q = [l EXCEPT !.unseen = TRUE]
      OBVIOUS
    <2>2. field' = q /\ WithinTimers(q.drop)
      BY <1>2, <1>9, <2>1, Becomes DEF DragOff
    <2>3. DOMAIN l = Parts
      BY <1>3 DEF FieldIs
    <2>4. /\ DOMAIN q = Parts /\ q.drop = l.drop
          /\ q.value = l.value /\ q.options = l.options /\ q.active = l.active
          /\ q.isOpen = l.isOpen /\ q.mousedown = l.mousedown /\ q.tabPressed = l.tabPressed
          /\ q.data = l.data /\ q.els = l.els /\ q.dom = l.dom /\ q.selected = l.selected
          /\ q.keydown = l.keydown /\ q.focus = l.focus /\ q.strayed = l.strayed
          /\ q.unseen = TRUE
      BY ONLY <2>1, <2>3 DEF Parts
    <2>5. FieldIs(q)
      BY <1>3, <2>4 DEF FieldIs, Flags, TextIs, DataIs, FocusIs
    <2>6. Selects(q)
      <3>1. q.focus \in {Away, Input, List}
        BY ONLY <1>3, <2>4
      <3> QED BY ONLY <2>5, <3>1, SelectsElsewhere
    <2>7. Listed(q)
      BY ONLY <1>3, <2>4 DEF Listed
    <2>8. q.value \in Seq(Letters)
      BY ONLY <1>1, <1>3, <2>4 DEF Keeps
    <2>9. FieldOk(q)
      BY ONLY <2>2, <2>5, <2>6, <2>7, <2>8 DEF FieldOk
    <2> QED BY <1>6, <2>2, <2>4, <2>9
  <1> QED BY <1>7, <1>8, <1>9

-----------------------------------------------------------------------------
(* The timers, and the animations *)

\* The list of the field changes by itself: it stays open only as it was.
LEMMA ListChanges ==
    ASSUME NEW w, FieldIs(w), w.value \in Seq(Letters), Listed(w), Selects(w),
           NEW p, ListIs(p), WithinTimers(p),
           p.isOpen => w.drop.isOpen /\ p.closes = w.drop.closes,
           NEW q, q = [w EXCEPT !.drop = p]
    PROVE  FieldOk(q) /\ q.unseen = w.unseen /\ q.focus = w.focus
  <1>1. /\ FieldIs(q) /\ q.drop = p /\ Keeps(q, w)
        /\ q.focus = w.focus /\ q.selected = w.selected /\ q.strayed = w.strayed
        /\ q.mousedown = w.mousedown
    BY ONLY FieldIs(w), ListIs(p), q = [w EXCEPT !.drop = p], DropPut
  <1>2. Listed(q)
    BY <1>1 DEF Listed
  <1>3. Selects(q)
    BY <1>1 DEF Selects, Keeps
  <1> QED BY <1>1, <1>2, <1>3 DEF FieldOk, Keeps

\* The item reached is one of the list, or none.
LEMMA StaysInList ==
    ASSUME NEW p, ListIs(p), NEW q, DropSound(q), q.focusedIndex \in {0, p.focusedIndex}
    PROVE  ListIs(q)
  BY FormAssumption, LenProperties DEF ListIs

\* The timer of a click fires.
LEMMA FieldClosesStep ==
    ASSUME FieldOk(field), FieldCloses
    PROVE  FieldOk(field') /\ field'.unseen = field.unseen /\ field'.focus = field.focus
           /\ held' = held
  <1>1. /\ FieldIs(field) /\ field.value \in Seq(Letters) /\ Listed(field) /\ Selects(field)
        /\ ListIs(field.drop) /\ WithinTimers(field.drop)
    BY DEF FieldOk, FieldIs
  <1>2. PICK p : p = DeferredClose(field.drop)
    OBVIOUS
  <1>3. DropSound(field.drop) /\ field.drop.closes > 0 /\ field.drop.closes \in Nat
    BY <1>1 DEF ListIs, DropSound, DropRecord, FieldCloses
  <1>4. DropSound(p) /\ ~p.isOpen /\ p.resets = field.drop.resets
        /\ p.closes \in 0..field.drop.closes /\ p.focusedIndex \in {0, field.drop.focusedIndex}
    BY ONLY <1>2, <1>3, DeferredSound
  <1>5. ListIs(p)
    BY ONLY <1>1, <1>4, StaysInList
  <1>6. WithinTimers(p)
    BY <1>1, <1>3, <1>4, FormAssumption DEF WithinTimers
  <1>7. field' = [field EXCEPT !.drop = p] /\ held' = held
    BY <1>2 DEF FieldCloses
  <1> QED BY <1>1, <1>4, <1>5, <1>6, <1>7, ListChanges

\* The letters typed in the list are forgotten.
LEMMA FieldForgetsStep ==
    ASSUME FieldOk(field), FieldForgets
    PROVE  FieldOk(field') /\ field'.unseen = field.unseen /\ field'.focus = field.focus
           /\ held' = held
  <1>1. /\ FieldIs(field) /\ field.value \in Seq(Letters) /\ Listed(field) /\ Selects(field)
        /\ ListIs(field.drop) /\ WithinTimers(field.drop)
    BY DEF FieldOk, FieldIs
  <1>2. PICK p : p = ResetQuery(field.drop)
    OBVIOUS
  <1>3. DropSound(field.drop) /\ field.drop.resets > 0 /\ field.drop.resets \in Nat
    BY <1>1 DEF ListIs, DropSound, DropRecord, FieldForgets
  <1>4. DropSound(p) /\ p.isOpen = field.drop.isOpen /\ p.closes = field.drop.closes
        /\ p.resets \in 0..field.drop.resets /\ p.focusedIndex = field.drop.focusedIndex
    BY ONLY <1>2, <1>3, ResetSound
  <1>5. ListIs(p)
    BY ONLY <1>1, <1>4, StaysInList
  <1>6. WithinTimers(p)
    BY <1>1, <1>3, <1>4, FormAssumption DEF WithinTimers
  <1>7. field' = [field EXCEPT !.drop = p] /\ held' = held
    BY <1>2 DEF FieldForgets
  <1> QED BY <1>1, <1>4, <1>5, <1>6, <1>7, ListChanges

\* The list has come in.
LEMMA FieldOpenedStep ==
    ASSUME FieldOk(field), FieldOpened
    PROVE  FieldOk(field') /\ field'.unseen = field.unseen /\ field'.focus = field.focus
           /\ held' = held
  <1>1. /\ FieldIs(field) /\ field.value \in Seq(Letters) /\ Listed(field) /\ Selects(field)
        /\ ListIs(field.drop) /\ WithinTimers(field.drop)
    BY DEF FieldOk, FieldIs
  <1>2. PICK p : p = AnimatedIn(field.drop)
    OBVIOUS
  <1>3. DropSound(field.drop)
    BY <1>1 DEF ListIs
  <1>4. DropSound(p) /\ p.isOpen = field.drop.isOpen /\ SameList(p, field.drop)
    BY ONLY <1>2, <1>3, AnimatedSound
  <1>5. ListIs(p) /\ WithinTimers(p)
    BY ONLY <1>1, <1>4 DEF ListIs, SameList, WithinTimers
  <1>6. field' = [field EXCEPT !.drop = p] /\ held' = held
    BY <1>2 DEF FieldOpened
  <1> QED BY <1>1, <1>4, <1>5, <1>6, ListChanges DEF SameList

\* The list is gone, and the focus it had.
LEMMA FieldHiddenStep ==
    ASSUME FieldOk(field), FieldHidden
    PROVE  FieldOk(field') /\ field'.unseen = field.unseen
           /\ field'.focus \in {field.focus, Away} /\ held' = held
  <1>1. /\ FieldIs(field) /\ field.value \in Seq(Letters) /\ Listed(field) /\ Selects(field)
        /\ ListIs(field.drop) /\ WithinTimers(field.drop)
    BY DEF FieldOk, FieldIs
  <1>2. PICK blurs \in BOOLEAN :
            field' = [(IF field.focus # List THEN field
                       ELSE IF blurs THEN Leave(field)
                            ELSE [field EXCEPT !.focus = Away, !.strayed = FALSE])
                      EXCEPT !.drop = AnimatedOut(@)]
    BY DEF FieldHidden
  <1>3. PICK w : w = IF field.focus # List THEN field
                     ELSE IF blurs THEN Leave(field)
                          ELSE [field EXCEPT !.focus = Away, !.strayed = FALSE]
    OBVIOUS
  <1>4. /\ FieldIs(w) /\ Keeps(w, field) /\ Timers(w, field)
        /\ w.focus \in {field.focus, Away} /\ Selects(w)
        /\ w.drop = field.drop
    <2>1. CASE field.focus # List
      <3>1. w = field
        BY ONLY <1>3, <2>1
      <3> QED BY ONLY <1>1, <3>1 DEF Keeps, Timers
    <2>2. CASE field.focus = List /\ blurs
      <3>1. w = Leave(field)
        BY ONLY <1>3, <2>2
      <3>2. FieldIs(w) /\ Keeps(w, field) /\ Timers(w, field) /\ w.focus = Away
        BY ONLY <1>1, <3>1, LeavesField
      <3>3. Selects(w)
        <4>1. w.focus \in {Away, Input, List}
          BY ONLY <3>2
        <4> QED BY ONLY <3>2, <4>1, SelectsElsewhere
      <3>4. w.drop = field.drop
        <4>1. PICK c : w = [field EXCEPT !.focus = Away, !.strayed = FALSE, !.selected = c]
          BY <2>2, <3>1, PlacesDiffer DEF Leave
        <4>2. DOMAIN field = Parts
          BY <1>1 DEF FieldIs
        <4> QED BY ONLY <4>1, <4>2 DEF Parts
      <3> QED BY ONLY <3>2, <3>3, <3>4
    <2>3. CASE field.focus = List /\ ~blurs
      <3>1. w = [field EXCEPT !.focus = Away, !.strayed = FALSE]
        BY ONLY <1>3, <2>3
      <3>2. DOMAIN field = Parts
        BY <1>1 DEF FieldIs
      <3>3. /\ DOMAIN w = Parts /\ w.drop = field.drop
            /\ w.value = field.value /\ w.options = field.options /\ w.active = field.active
            /\ w.isOpen = field.isOpen /\ w.mousedown = field.mousedown
            /\ w.tabPressed = field.tabPressed
            /\ w.data = field.data /\ w.els = field.els /\ w.dom = field.dom
            /\ w.selected = field.selected /\ w.keydown = field.keydown
            /\ w.focus = Away /\ w.strayed = FALSE /\ w.unseen = field.unseen
        BY ONLY <3>1, <3>2 DEF Parts
      <3>4. FieldIs(w)
        BY <1>1, <3>3 DEF FieldIs, Flags, TextIs, DataIs, FocusIs
      <3>5. Selects(w)
        <4>1. w.focus \in {Away, Input, List}
          BY ONLY <3>3
        <4> QED BY ONLY <3>4, <4>1, SelectsElsewhere
      <3> QED BY ONLY <3>3, <3>4, <3>5 DEF Keeps, Timers
    <2> QED BY ONLY <2>1, <2>2, <2>3
  <1>5. PICK p : p = AnimatedOut(w.drop)
    OBVIOUS
  <1>6. DropSound(w.drop) /\ "out" \in w.drop.anim
    BY <1>1, <1>4 DEF ListIs, FieldHidden
  <1>7. DropSound(p) /\ ~p.isOpen /\ SameList(p, w.drop)
    BY ONLY <1>5, <1>6, AnimatedSound
  <1>8. ListIs(p) /\ WithinTimers(p)
    BY ONLY <1>1, <1>4, <1>7 DEF ListIs, SameList, WithinTimers
  <1>9. field' = [w EXCEPT !.drop = p] /\ held' = held
    BY <1>2, <1>3, <1>5 DEF FieldHidden
  <1>10. /\ FieldIs(field') /\ field'.drop = p /\ Keeps(field', w)
         /\ field'.focus = w.focus /\ field'.selected = w.selected
         /\ field'.strayed = w.strayed
    BY ONLY <1>4, <1>8, <1>9, DropPut
  <1>11. Listed(field') /\ Selects(field')
    BY ONLY <1>4, <1>7, <1>10 DEF Listed, Selects, Keeps
  <1> QED BY ONLY <1>1, <1>4, <1>8, <1>9, <1>10, <1>11 DEF FieldOk, Keeps

-----------------------------------------------------------------------------
(* The form *)

UserRecord == [names : Seq(Names), works : SUBSET {"field", "select"}, acts : Nat]

\* What every step keeps: the select and the field are in order, and one of them
\* at most has the focus.
FormInv == /\ SelectOk(select, field.unseen) /\ FieldOk(field)
           /\ held \subseteq Keys
           /\ select.focus = NotHere \/ field.focus = Away
           /\ user \in UserRecord

\* A select that has the keyboard has it whatever was seen.
LEMMA SeenOk ==
    ASSUME NEW s, NEW unseen, SelectOk(s, FALSE)
    PROVE  SelectOk(s, unseen)
  BY DEF SelectOk, Keyboard

\* The page opens.
LEMMA FormStarts == Init => FormInv
  <1> SUFFICES ASSUME Init
               PROVE  FormInv
    OBVIOUS
  <1>1. user \in UserRecord /\ user.names \in Seq(Names) /\ OneOnly(user.names)
    BY FormAssumption DEF Init, UserRecord, OneOnly
  <1>2. /\ DropSound(Folded) /\ ~Folded.isOpen /\ Folded.focusedIndex = 0
        /\ Folded.closes = 0 /\ Folded.resets = 0
    BY FoldedSound
  <1>3. MaxTimers \in Nat /\ Len(Components) \in Nat
    BY FormAssumption, LenProperties
  <1>4. PICK i \in Items : select = [drop |-> Folded, value |-> i, text |-> i, marked |-> {i},
                                     focus |-> NotHere]
    BY DEF Init, SelectInit
  <1>5. SelectOk(select, FALSE) /\ select.focus = NotHere
    <2>1. select \in SelectRecord
      BY <1>2, <1>4, ItemsType DEF SelectRecord, DropSound, NotHere
    <2>2. WithinTimers(select.drop)
      BY <1>2, <1>3, <1>4 DEF WithinTimers
    <2>3. SelectIs(select)
      BY <1>2, <1>4, <2>1, ItemsType DEF SelectIs
    <2> QED BY <1>2, <1>4, <2>2, <2>3 DEF SelectOk, Shows, Keyboard
  <1>6. PICK e : e = <<>> /\ Len(e) = 0 /\ e \in Seq(STRING) /\ e \in Seq(Names)
                 /\ e \in Seq(Letters)
    BY EmptySeq
  <1>7. PICK names : names = user.names
    OBVIOUS
  <1>8. /\ DOMAIN field = Parts /\ field.value = e /\ field.options = e /\ field.active = 0
        /\ field.isOpen = FALSE /\ field.mousedown = FALSE /\ field.drop = Folded
        /\ field.data = names /\ field.els = names /\ field.dom = names
        /\ field.selected = NoChip /\ field.keydown = FALSE /\ field.tabPressed = FALSE
        /\ field.focus = Away /\ field.strayed = FALSE /\ field.unseen = FALSE
    BY <1>6, <1>7 DEF Init, ChipsInit, NoField, Parts
  <1>9. FieldIs(field)
    <2>1. TextIs(field)
      BY ONLY <1>3, <1>6, <1>8 DEF TextIs
    <2>2. DataIs(field)
      BY ONLY <1>1, <1>7, <1>8 DEF DataIs
    <2>3. FocusIs(field)
      BY ONLY <1>8 DEF FocusIs
    <2>4. ListIs(field.drop)
      BY ONLY <1>2, <1>3, <1>8 DEF ListIs
    <2>5. Flags(field)
      BY ONLY <1>8 DEF Flags
    <2> QED BY ONLY <1>8, <2>1, <2>2, <2>3, <2>4, <2>5 DEF FieldIs
  <1>10. FieldOk(field)
    <2>1. Selects(field)
      <3>1. field.focus \in {Away, Input, List}
        BY ONLY <1>8
      <3> QED BY ONLY <1>9, <3>1, SelectsElsewhere
    <2>2. Listed(field) /\ WithinTimers(field.drop)
      BY ONLY <1>2, <1>3, <1>8 DEF Listed, WithinTimers
    <2> QED BY ONLY <1>6, <1>8, <1>9, <2>1, <2>2 DEF FieldOk
  <1>11. held = {}
    BY DEF Init, ChipsInit
  <1> QED BY <1>1, <1>5, <1>10, <1>11, SeenOk DEF FormInv

\* The mouse, in the select.
LEMMA UseSelectKeeps ==
    ASSUME FormInv, UseSelect
    PROVE  SelectOk(select', field'.unseen) /\ FieldOk(field') /\ held' \subseteq Keys
           /\ (select'.focus = NotHere \/ field'.focus = Away)
  <1>1. field.unseen \in BOOLEAN
    BY DEF FormInv, FieldOk, FieldIs, Flags
  <1>2. SelectOk(select', FALSE)
    <2>1. CASE ClickSelect
      BY <1>1, <2>1, ClickSelectStep DEF FormInv
    <2>2. CASE \E item \in Items : ClickItem(item)
      BY <1>1, <2>2, ClickItemStep DEF FormInv
    <2> QED BY <2>1, <2>2 DEF UseSelect
  <1>3. FieldOk(field') /\ field'.focus = Away /\ held' = held
    BY LeaveFieldStep DEF FormInv, UseSelect
  <1> QED BY <1>2, <1>3, SeenOk DEF FormInv

\* The mouse, in the field.
LEMMA UseFieldKeeps ==
    ASSUME FormInv, UseField
    PROVE  SelectOk(select', field'.unseen) /\ FieldOk(field') /\ held' \subseteq Keys
           /\ (select'.focus = NotHere \/ field'.focus = Away)
  <1>1. field.unseen \in BOOLEAN /\ FieldOk(field) /\ SelectOk(select, field.unseen)
        /\ held \subseteq Keys
    BY DEF FormInv, FieldOk, FieldIs, Flags
  <1>2. CASE /\ \/ ClickOnInput \/ ClickAround
                \/ \E i \in DOMAIN field.dom :
                      ClickChip(i) \/ \E blurs \in BOOLEAN : ClickClose(i, blurs)
                \/ \E i \in DOMAIN field.options : ClickOption(i)
                \/ \E to \in {"around", "page"} : DragOff(to)
             /\ SelectBecomes(ClickBeside(select))
    <2>1. SelectOk(select', FALSE) /\ select'.focus = NotHere
      BY ONLY <1>1, <1>2, ClickBesideStep
    <2>2. FieldOk(field') /\ held' = held
      <3>1. CASE ClickOnInput
        BY ONLY <1>1, <3>1, ClickOnInputStep
      <3>2. CASE ClickAround
        BY ONLY <1>1, <3>2, ClickAroundStep
      <3>3. CASE \E i \in DOMAIN field.dom : ClickChip(i)
        BY ONLY <1>1, <3>3, ClickChipStep
      <3>4. CASE \E i \in DOMAIN field.dom : \E blurs \in BOOLEAN : ClickClose(i, blurs)
        BY ONLY <1>1, <3>4, ClickCloseStep
      <3>5. CASE \E i \in DOMAIN field.options : ClickOption(i)
        BY ONLY <1>1, <3>5, ClickOptionStep
      <3>6. CASE \E to \in {"around", "page"} : DragOff(to)
        <4>1. PICK to \in {"around", "page", "window"} : DragOff(to)
          BY ONLY <3>6
        <4> QED BY ONLY <1>1, <4>1, DragOffStep
      <3> QED BY ONLY <1>2, <3>1, <3>2, <3>3, <3>4, <3>5, <3>6
    <2> QED BY ONLY <1>1, <2>1, <2>2, SeenOk
  <1>3. CASE DragOff("window") /\ select' = [select EXCEPT !.focus = NotHere]
    <2>1. PICK to \in {"around", "page", "window"} : to = "window" /\ DragOff(to)
      BY ONLY <1>3
    <2>2. FieldOk(field') /\ held' = held /\ field'.unseen
      BY ONLY <1>1, <2>1, DragOffStep
    <2>3. field'.unseen \in BOOLEAN
      BY ONLY <2>2 DEF FieldOk, FieldIs, Flags
    <2>4. select'.focus = NotHere /\ SelectOk(select', TRUE)
      BY ONLY <1>1, <1>3, LeaveSelectStep
    <2>5. SelectOk(select', field'.unseen)
      BY ONLY <2>2, <2>3, <2>4
    <2> QED BY ONLY <1>1, <2>2, <2>4, <2>5
  <1> QED BY <1>2, <1>3 DEF UseField

\* The mouse, elsewhere.
LEMMA UsePageKeeps ==
    ASSUME FormInv, UsePage
    PROVE  SelectOk(select', field'.unseen) /\ FieldOk(field') /\ held' \subseteq Keys
           /\ (select'.focus = NotHere \/ field'.focus = Away)
  <1>1. field.unseen \in BOOLEAN
    BY DEF FormInv, FieldOk, FieldIs, Flags
  <1>2. SelectOk(select', FALSE)
    BY <1>1, ClickBesideStep DEF FormInv, UsePage
  <1>3. FieldOk(field') /\ field'.focus = Away /\ held' = held
    BY LeaveFieldStep DEF FormInv, UsePage
  <1> QED BY <1>2, <1>3, SeenOk DEF FormInv

\* A key goes down while the field has not the focus.
LEMMA PressedOk ==
    ASSUME FieldOk(field), NEW key, field' = Pressed(field, key)
    PROVE  FieldOk(field') /\ field'.unseen = field.unseen /\ field'.focus = field.focus
  <1>1. FieldIs(field) /\ field.value \in Seq(Letters) /\ Listed(field) /\ Selects(field)
        /\ WithinTimers(field.drop)
    BY DEF FieldOk
  <1>2. Handled(field', field) /\ field'.focus = field.focus /\ field'.drop = field.drop
    BY ONLY <1>1, PressedSound, field' = Pressed(field, key)
  <1>3. FieldOk(field')
    <2>1. WithinTimers(field'.drop)
      BY ONLY <1>1, <1>2
    <2> QED BY ONLY <1>2, <2>1, HandledOk
  <1> QED BY <1>2, <1>3 DEF Handled

\* The keyboard, in the select.
LEMMA TypeInSelectKeeps ==
    ASSUME FormInv, TypeInSelect
    PROVE  SelectOk(select', field'.unseen) /\ FieldOk(field') /\ held' \subseteq Keys
           /\ (select'.focus = NotHere \/ field'.focus = Away)
  <1>1. field.unseen \in BOOLEAN /\ FieldOk(field) /\ SelectOk(select, field.unseen)
        /\ held \subseteq Keys
    BY DEF FormInv, FieldOk, FieldIs, Flags
  <1>2. PICK key : /\ key \in {"down", "up", "enter", "esc", "tab"} \cup Letters
                   /\ KeyTrigger(key) \/ KeyList(key)
                   /\ field' = Pressed(field, key)
                   /\ held' = held \cup {key}
    BY DEF TypeInSelect
  <1>3. key \in Keys
    BY ONLY <1>2 DEF Keys
  <1>4. FieldOk(field') /\ field'.unseen = field.unseen /\ field'.focus = field.focus
    BY ONLY <1>1, <1>2, PressedOk
  <1>5. SelectOk(select', field.unseen) /\ select.focus # NotHere
    <2>1. CASE KeyTrigger(key)
      <3>1. SelectOk(select', field.unseen)
        BY ONLY <1>1, <2>1, KeyTriggerStep
      <3>2. select.focus # NotHere
        BY ONLY <2>1 DEF KeyTrigger, OnTrigger, NotHere
      <3> QED BY ONLY <3>1, <3>2
    <2>2. CASE KeyList(key)
      <3>1. SelectOk(select', field.unseen)
        BY ONLY <1>1, <1>3, <2>2, KeyListStep
      <3>2. select.focus # NotHere
        BY ONLY <2>2 DEF KeyList, OnList, NotHere
      <3> QED BY ONLY <3>1, <3>2
    <2> QED BY ONLY <1>2, <2>1, <2>2
  <1>6. field.focus = Away
    BY <1>5 DEF FormInv
  <1> QED BY ONLY <1>1, <1>2, <1>3, <1>4, <1>5, <1>6

\* The keyboard, in the field.
LEMMA TypeInFieldKeeps ==
    ASSUME FormInv, TypeInField
    PROVE  SelectOk(select', field'.unseen) /\ FieldOk(field') /\ held' \subseteq Keys
           /\ (select'.focus = NotHere \/ field'.focus = Away)
  <1>1. FieldOk(field) /\ SelectOk(select, field.unseen) /\ held \subseteq Keys
        /\ (select.focus = NotHere \/ field.focus = Away)
    BY DEF FormInv
  <1>2. PICK key : Key(key)
    BY DEF TypeInField
  <1>3. /\ FieldOk(field') /\ field'.unseen = field.unseen
        /\ field.focus # Away /\ held' = held \cup {key}
        /\ key \in {"enter", "back", "down", "up", "left", "right", "esc"} \cup Letters
    BY ONLY <1>1, <1>2, KeyStep
  <1>4. held' \subseteq Keys
    BY ONLY <1>1, <1>3 DEF Keys
  <1>5. select' = select
    BY DEF TypeInField
  <1> QED BY ONLY <1>1, <1>3, <1>4, <1>5

\* Tab.
LEMMA TabsKeep ==
    ASSUME FormInv, Tabs
    PROVE  SelectOk(select', field'.unseen) /\ FieldOk(field') /\ held' \subseteq Keys
           /\ (select'.focus = NotHere \/ field'.focus = Away)
  <1>1. field.unseen \in BOOLEAN /\ FieldOk(field) /\ SelectOk(select, field.unseen)
        /\ held \subseteq Keys
    BY DEF FormInv, FieldOk, FieldIs, Flags
  <1>2. PICK key \in {"tab", "shift-tab"} :
            IF select.focus = NotHere THEN Tab(key) /\ UNCHANGED select
            ELSE /\ ~(select.drop.isOpen /\ select.focus >= OnList)
                 /\ select' = [select EXCEPT !.focus = NotHere]
                 /\ field' = Pressed(field, key)
                 /\ held' = held \cup {key}
    BY DEF Tabs
  <1>3. key \in Keys
    BY ONLY <1>2 DEF Keys
  <1>4. CASE select.focus = NotHere
    <2>1. Tab(key) /\ select' = select
      BY ONLY <1>2, <1>4
    <2>2. FieldOk(field') /\ field'.unseen = field.unseen /\ held' = held \cup {key}
      BY ONLY <1>1, <2>1, TabStep
    <2> QED BY ONLY <1>1, <1>3, <1>4, <2>1, <2>2
  <1>5. CASE select.focus # NotHere
    <2>1. /\ ~(select.drop.isOpen /\ select.focus >= OnList)
          /\ select' = [select EXCEPT !.focus = NotHere]
          /\ field' = Pressed(field, key)
          /\ held' = held \cup {key}
      BY ONLY <1>2, <1>5
    <2>2. FieldOk(field') /\ field'.unseen = field.unseen
      BY ONLY <1>1, <2>1, PressedOk
    <2>3. select'.focus = NotHere /\ SelectOk(select', field.unseen)
      BY ONLY <1>1, <2>1, LeaveSelectStep
    <2> QED BY ONLY <1>1, <1>3, <2>1, <2>2, <2>3
  <1> QED BY ONLY <1>4, <1>5

\* A key comes up.
LEMMA ReleasesKeep ==
    ASSUME FormInv, Releases
    PROVE  FormInv'
  <1>1. FieldOk(field) /\ SelectOk(select, field.unseen) /\ held \subseteq Keys
        /\ (select.focus = NotHere \/ field.focus = Away)
    BY DEF FormInv
  <1>2. PICK key : KeyUp(key) /\ select' = select /\ user' = user
    BY DEF Releases
  <1>3. /\ FieldOk(field') /\ field'.unseen = field.unseen /\ field'.focus = field.focus
        /\ held' \subseteq held
    BY ONLY <1>1, <1>2, KeyUpStep
  <1>4. SelectOk(select', field'.unseen) /\ held' \subseteq Keys
        /\ (select'.focus = NotHere \/ field'.focus = Away)
    BY ONLY <1>1, <1>2, <1>3
  <1> QED BY <1>2, <1>3, <1>4 DEF FormInv

\* The timers and the animations of the select.
LEMMA SelectTimesKeep ==
    ASSUME FormInv, SelectTimes
    PROVE  FormInv'
  <1>1. field.unseen \in BOOLEAN /\ FieldOk(field) /\ SelectOk(select, field.unseen)
        /\ held \subseteq Keys /\ (select.focus = NotHere \/ field.focus = Away)
    BY DEF FormInv, FieldOk, FieldIs, Flags
  <1>2. SelectOk(select', field.unseen)
    <2>1. CASE SelectCloses
      BY ONLY <1>1, <2>1, SelectClosesStep
    <2>2. CASE SelectForgets
      BY ONLY <1>1, <2>2, SelectForgetsStep
    <2>3. CASE SelectOpened
      BY ONLY <1>1, <2>3, SelectOpenedStep
    <2>4. CASE SelectHidden
      BY ONLY <1>1, <2>4, SelectHiddenStep
    <2> QED BY <2>1, <2>2, <2>3, <2>4 DEF SelectTimes
  <1>3. PICK l : l = Leave(field)
    OBVIOUS
  <1>4. FieldIs(field) /\ field.value \in Seq(Letters) /\ Listed(field)
        /\ WithinTimers(field.drop)
    BY ONLY <1>1 DEF FieldOk
  <1>5. FieldIs(l) /\ Keeps(l, field) /\ Timers(l, field) /\ l.focus = Away /\ Listed(l)
    BY ONLY <1>3, <1>4, LeavesField
  <1>6. Selects(l)
    <2>1. l.focus \in {Away, Input, List}
      BY ONLY <1>5
    <2> QED BY ONLY <1>5, <2>1, SelectsElsewhere
  <1>7. FieldOk(l) /\ l.unseen = field.unseen
    BY ONLY <1>4, <1>5, <1>6 DEF FieldOk, Keeps, Timers, WithinTimers
  <1>8. field' = IF select'.focus # select.focus /\ select'.focus # NotHere THEN l ELSE field
    BY <1>3 DEF SelectTimes
  <1>9. held' = held /\ user' = user
    BY DEF SelectTimes
  <1>10. /\ FieldOk(field') /\ field'.unseen = field.unseen
         /\ select'.focus = NotHere \/ field'.focus = Away
    BY ONLY <1>1, <1>5, <1>7, <1>8
  <1> QED BY <1>1, <1>2, <1>9, <1>10 DEF FormInv

\* Those of the field.
LEMMA FieldTimesKeep ==
    ASSUME FormInv, FieldTimes
    PROVE  FormInv'
  <1>1. FieldOk(field) /\ SelectOk(select, field.unseen) /\ held \subseteq Keys
        /\ (select.focus = NotHere \/ field.focus = Away)
    BY DEF FormInv
  <1>2. /\ FieldOk(field') /\ field'.unseen = field.unseen
        /\ field'.focus \in {field.focus, Away} /\ held' = held
    <2>1. CASE FieldCloses
      BY ONLY <1>1, <2>1, FieldClosesStep
    <2>2. CASE FieldForgets
      BY ONLY <1>1, <2>2, FieldForgetsStep
    <2>3. CASE FieldOpened
      BY ONLY <1>1, <2>3, FieldOpenedStep
    <2>4. CASE FieldHidden
      BY ONLY <1>1, <2>4, FieldHiddenStep
    <2> QED BY <2>1, <2>2, <2>3, <2>4 DEF FieldTimes
  <1>3. select' = select /\ user' = user
    BY DEF FieldTimes
  <1>4. SelectOk(select', field'.unseen) /\ held' \subseteq Keys
        /\ (select'.focus = NotHere \/ field'.focus = Away)
    BY ONLY <1>1, <1>2, <1>3
  <1> QED BY <1>2, <1>3, <1>4 DEF FormInv

\* The user acts.
LEMMA UserActsKeep ==
    ASSUME FormInv, UserActs
    PROVE  FormInv'
  <1>1. user \in UserRecord /\ user.acts > 0 /\ user' = [user EXCEPT !.acts = @ - 1]
    BY DEF FormInv, UserActs
  <1>2. user' \in UserRecord
    BY ONLY <1>1 DEF UserRecord
  <1>3. /\ SelectOk(select', field'.unseen) /\ FieldOk(field') /\ held' \subseteq Keys
        /\ select'.focus = NotHere \/ field'.focus = Away
    <2>1. CASE UseSelect
      BY ONLY <2>1, UseSelectKeeps, FormInv
    <2>2. CASE TypeInSelect
      BY ONLY <2>2, TypeInSelectKeeps, FormInv
    <2>3. CASE UseField
      BY ONLY <2>3, UseFieldKeeps, FormInv
    <2>4. CASE TypeInField
      BY ONLY <2>4, TypeInFieldKeeps, FormInv
    <2>5. CASE UsePage
      BY ONLY <2>5, UsePageKeeps, FormInv
    <2>6. CASE Tabs
      BY ONLY <2>6, TabsKeep, FormInv
    <2> QED BY <2>1, <2>2, <2>3, <2>4, <2>5, <2>6 DEF UserActs
  <1> QED BY <1>2, <1>3 DEF FormInv

\* Every step keeps the invariant.
LEMMA FormKeeps == FormInv /\ [Next]_vars => FormInv'
  <1>1. FormInv /\ UNCHANGED vars => FormInv'
    BY DEF FormInv, vars
  <1>2. FormInv /\ Next => FormInv'
    BY ONLY UserActsKeep, ReleasesKeep, SelectTimesKeep, FieldTimesKeep DEF Next
  <1> QED BY <1>1, <1>2

\* The invariant holds in every behaviour of the form.
THEOREM FormHolds == Spec => []FormInv
  BY FormStarts, FormKeeps, PTL DEF Spec

-----------------------------------------------------------------------------
(* What it means *)

\* The types hold, and the focus is in one place at a time.
THEOREM TypesHold == Spec => []TypeOK
  <1>1. FormInv => TypeOK
    <2> SUFFICES ASSUME FormInv
                 PROVE  TypeOK
      OBVIOUS
    <2>1. SelectOk(select, field.unseen) /\ FieldOk(field) /\ held \subseteq Keys
          /\ (select.focus = NotHere \/ field.focus = Away) /\ user \in UserRecord
      BY DEF FormInv
    <2>2. MaxTimers \in Nat /\ Len(Components) \in Nat
      BY FormAssumption, LenProperties
    <2>3. ASSUME NEW p, DropSound(p), WithinTimers(p), NEW n, p.focusedIndex \in 0..n
          PROVE  DropTypeOK(p, n)
      <3>1. p \in DropRecord
        BY <2>3 DEF DropSound
      <3> QED BY <2>2, <2>3, <3>1 DEF DropRecord, DropTypeOK, WithinTimers
    <2>4. SelectTypeOK
      <3>1. /\ SelectIs(select) /\ WithinTimers(select.drop)
            /\ DropSound(select.drop) /\ select.drop.focusedIndex \in 0..LastItem
            /\ select \in SelectRecord
        BY ONLY <2>1 DEF SelectOk, SelectIs
      <3>2. DropTypeOK(select.drop, LastItem)
        BY ONLY <2>3, <3>1
      <3>3. select.focus \in {NotHere, OnTrigger, OnList} \cup Items
        BY ONLY <3>1, ItemsType DEF SelectRecord, NotHere, OnTrigger, OnList
      <3>4. select.value \in Items /\ select.text \in Items /\ select.marked \subseteq Items
        BY ONLY <3>1 DEF SelectRecord
      <3> QED BY ONLY <3>2, <3>3, <3>4 DEF SelectTypeOK, LastItem
    <2>5. ChipsTypeOK
      <3>1. /\ FieldIs(field) /\ WithinTimers(field.drop)
            /\ DropSound(field.drop) /\ field.drop.focusedIndex \in 0..Len(Components)
        BY ONLY <2>1 DEF FieldOk, FieldIs, ListIs
      <3>2. DropTypeOK(field.drop, Len(Components))
        BY ONLY <2>3, <3>1
      <3>3. field.active \in 0..Len(Components)
        BY ONLY <2>2, <3>1 DEF FieldIs, TextIs
      <3>4. /\ field.dom = field.data
            /\ field.focus \in ToSet(field.data) \cup {Away, Input, List}
            /\ field.selected \in ToSet(field.data) \cup {NoChip, Gone}
        BY ONLY <3>1 DEF FieldIs, DataIs, FocusIs
      <3> QED BY ONLY <3>2, <3>3, <3>4 DEF ChipsTypeOK, OnChip
    <2>6. user.acts \in Nat
      BY ONLY <2>1 DEF UserRecord
    <2>7. held \subseteq {"down", "up", "enter", "esc", "tab", "shift-tab", "back",
                          "left", "right"} \cup Letters
      BY ONLY <2>1 DEF Keys
    <2> QED BY ONLY <2>1, <2>4, <2>5, <2>6, <2>7 DEF TypeOK
  <1> QED BY <1>1, FormHolds, PTL

\* What is submitted is what is seen, each name once.
THEOREM ChipsSoundHolds == Spec => []ChipsSound
  <1>1. FormInv => ChipsSound
    <2> SUFFICES ASSUME FormInv
                 PROVE  ChipsSound
      OBVIOUS
    <2>1. FieldIs(field) /\ DataIs(field)
      BY DEF FormInv, FieldOk, FieldIs
    <2>2. ChipsShown
      BY ONLY <2>1 DEF DataIs, ChipsShown
    <2>3. <<>> \notin ToSet(field.data)
      <3>1. ToSet(field.data) \cap {Away, Input, List, NoChip, Gone} = {}
        BY ONLY <2>1, NoPlace
      <3> QED BY ONLY <3>1 DEF Away
    <2>4. NamesUnique
      BY ONLY <2>1, <2>3 DEF DataIs, OneOnly, NamesUnique
    <2> QED BY ONLY <2>2, <2>4 DEF ChipsSound
  <1> QED BY <1>1, FormHolds, PTL

\* The list of the completion follows the field.
THEOREM ListFollowsFieldHolds == Spec => []ListFollowsField
  <1>1. FormInv => ListFollowsField
    BY DEF FormInv, FieldOk, FieldIs, TextIs, Listed, ListFollowsField, ListNeedsFocus,
           ActiveIsListed
  <1> QED BY <1>1, FormHolds, PTL

\* A chip that has the focus is the selected one.
THEOREM FocusIsSelectedHolds == Spec => []FocusIsSelected
  <1>1. FormInv => FocusIsSelected
    BY DEF FormInv, FieldOk, FieldIs, DataIs, Selects, FocusIsSelected, OnChip
  <1> QED BY <1>1, FormHolds, PTL

\* The select submits what it shows, and its open list answers the keyboard.
THEOREM SelectSoundHolds == Spec => []SelectSound
  <1>1. FormInv => SelectSound
    BY DEF FormInv, SelectOk, SelectIs, Shows, Keyboard, DropSound,
           SelectSound, SelectShowsValue, ListHasKeyboard
  <1> QED BY <1>1, FormHolds, PTL

=============================================================================
