--------------------------- MODULE PickersProofs ---------------------------
(***************************************************************************)
(* Theorems about MaintenanceForm: its types; the flags of pickers, modals *)
(* and page agree; the grid drawn is a calendar of its month, for every    *)
(* month of every year; late timers of the dial are harmless; the fields   *)
(* follow what was picked.                                                 *)
(***************************************************************************)
EXTENDS MaintenanceForm, SequenceTheorems, FiniteSetTheorems, TLAPS

-----------------------------------------------------------------------------
(* The modals *)

ModalRecord == [isOpen : BOOLEAN, nth : 0..Cardinality(Modals),
                anim : SUBSET {"in", "out"}, shown : BOOLEAN]

\* The inductive invariant of the class: a modal is displayed while it is open
\* and until the animation that closes it ends, and the page's counter and lock
\* are those of the open ones.
ModalInv ==
    /\ modal \in [Modals -> ModalRecord]
    /\ \A m \in Modals :
          /\ modal[m].shown <=> modal[m].isOpen \/ "out" \in modal[m].anim
          /\ modal[m].isOpen => "out" \notin modal[m].anim
    /\ modalsOpen = Cardinality(OpenModals)
    /\ scrollLocked = (OpenModals # {})

\* The open modals are counted.
LEMMA OpenCounted ==
    ASSUME ModalInv
    PROVE  /\ IsFiniteSet(OpenModals) /\ modalsOpen \in 0..Cardinality(Modals)
           /\ Cardinality(Modals) \in Nat
           /\ OpenModals # Modals => modalsOpen < Cardinality(Modals)
  <1>1. OpenModals \subseteq Modals
    BY DEF OpenModals
  <1> QED
    BY <1>1, ModalsAssumption, FS_Subset, FS_CardinalityType DEF ModalInv

\* A modal opens.
LEMMA OpenKeeps ==
    ASSUME ModalInv, NEW m \in Modals, Open(m)
    PROVE  ModalInv'
  <1>1. CASE modal[m].isOpen
    BY <1>1 DEF Open, modalVars, ModalInv, OpenModals
  <1>2. CASE ~modal[m].isOpen
    <2>1. /\ modalsOpen' = modalsOpen + 1 /\ scrollLocked' = TRUE
          /\ modal' = [modal EXCEPT ![m] = [isOpen |-> TRUE, nth |-> modalsOpen + 1,
                                            anim |-> {"in"}, shown |-> TRUE]]
      BY <1>2 DEF Open, Animate
    <2>2. modalsOpen + 1 \in 0..Cardinality(Modals)
      <3>1. m \notin OpenModals
        BY <1>2 DEF OpenModals
      <3> QED BY <3>1, OpenCounted
    <2>3. modal' \in [Modals -> ModalRecord]
      <3>1. [isOpen |-> TRUE, nth |-> modalsOpen + 1, anim |-> {"in"}, shown |-> TRUE] \in ModalRecord
        BY <2>2 DEF ModalRecord
      <3> QED BY <2>1, <3>1 DEF ModalInv
    <2>4. /\ modal'[m].isOpen /\ modal'[m].shown /\ modal'[m].anim = {"in"}
          /\ \A n \in Modals \ {m} : modal'[n] = modal[n]
      BY <2>1 DEF ModalInv
    <2>5. OpenModals' = OpenModals \cup {m} /\ m \notin OpenModals
      BY <1>2, <2>4 DEF OpenModals
    <2>6. Cardinality(OpenModals') = modalsOpen'
      BY <2>1, <2>5, OpenCounted, FS_AddElement DEF ModalInv
    <2>7. scrollLocked' = (OpenModals' # {})
      BY <2>1, <2>5
    <2>8. \A n \in Modals : /\ modal'[n].shown <=> modal'[n].isOpen \/ "out" \in modal'[n].anim
                            /\ modal'[n].isOpen => "out" \notin modal'[n].anim
      BY <2>4 DEF ModalInv
    <2> QED BY <2>3, <2>6, <2>7, <2>8 DEF ModalInv
  <1> QED BY <1>1, <1>2

\* Modals are closed.
LEMMA CloseKeeps ==
    ASSUME ModalInv, NEW S, Close(S)
    PROVE  ModalInv'
  <1> DEFINE closing == S \cap OpenModals
  <1>1. /\ modalsOpen' = modalsOpen - Cardinality(closing)
        /\ scrollLocked' = (scrollLocked /\ ~(closing # {} /\ modalsOpen' = 0))
        /\ modal' = [m \in Modals |->
              IF m \in closing
                THEN [modal[m] EXCEPT !.isOpen = FALSE, !.nth = 0, !.anim = {"out"}]
                ELSE modal[m]]
    BY DEF Close, Animate
  <1>2. closing \subseteq OpenModals /\ OpenModals \subseteq Modals
    BY DEF OpenModals
  <1> HIDE DEF closing
  <1>3. ASSUME NEW m \in closing
        PROVE  /\ modal'[m] \in ModalRecord
               /\ ~modal'[m].isOpen /\ modal'[m].anim = {"out"} /\ modal'[m].shown
    <2>1. modal[m] \in ModalRecord /\ modal[m].shown
      BY <1>2, <1>3 DEF ModalInv, OpenModals
    <2>2. modal'[m] = [modal[m] EXCEPT !.isOpen = FALSE, !.nth = 0, !.anim = {"out"}]
      BY <1>1, <1>2, <1>3
    <2>3. 0 \in 0..Cardinality(Modals)
      BY OpenCounted
    <2>4. modal'[m] \in ModalRecord
      BY <2>1, <2>2, <2>3 DEF ModalRecord
    <2>5. ~modal'[m].isOpen /\ modal'[m].shown
      BY <2>1, <2>2 DEF ModalRecord
    <2>6. modal'[m].anim = {"out"}
      BY <2>1, <2>2 DEF ModalRecord
    <2> QED BY <2>4, <2>5, <2>6
  <1>4. \A m \in Modals \ closing : modal'[m] = modal[m]
    BY <1>1
  <1>5. modal' \in [Modals -> ModalRecord]
    BY <1>1, <1>3, <1>4 DEF ModalInv
  <1>6. OpenModals' = OpenModals \ closing
    BY <1>2, <1>3, <1>4 DEF OpenModals
  <1>7. IsFiniteSet(closing) /\ Cardinality(OpenModals') = modalsOpen'
    <2>1. IsFiniteSet(OpenModals) /\ OpenModals \cap closing = closing
      BY <1>2, OpenCounted
    <2>2. IsFiniteSet(closing)
      BY <1>2, <2>1, FS_Subset
    <2>3. Cardinality(OpenModals \ closing) = Cardinality(OpenModals) - Cardinality(closing)
      BY <2>1, FS_Difference
    <2> QED BY <1>1, <1>6, <2>2, <2>3 DEF ModalInv
  <1>8. scrollLocked' = (OpenModals' # {})
    <2>1. IsFiniteSet(OpenModals')
      BY <1>6, OpenCounted, FS_Difference
    <2>2. modalsOpen' = 0 <=> OpenModals' = {}
      BY <1>7, <2>1, FS_EmptySet
    <2>3. scrollLocked = (OpenModals # {})
      BY DEF ModalInv
    <2> QED BY <1>1, <1>2, <1>6, <2>2, <2>3
  <1>9. \A m \in Modals : /\ modal'[m].shown <=> modal'[m].isOpen \/ "out" \in modal'[m].anim
                          /\ modal'[m].isOpen => "out" \notin modal'[m].anim
    BY <1>3, <1>4 DEF ModalInv
  <1> QED BY <1>5, <1>7, <1>8, <1>9 DEF ModalInv

\* An animation ends.
LEMMA EndsKeep ==
    ASSUME ModalInv, NEW m \in Modals, OpenEnds(m) \/ CloseEnds(m)
    PROVE  ModalInv'
  <1>1. modal[m] \in ModalRecord
    BY DEF ModalInv
  <1>2. modalsOpen' = modalsOpen /\ scrollLocked' = scrollLocked
    BY DEF OpenEnds, CloseEnds
  <1>3. PICK new : /\ modal' = [modal EXCEPT ![m] = new]
                   /\ \/ new = [modal[m] EXCEPT !.anim = modal[m].anim \ {"in"}]
                      \/ /\ "out" \in modal[m].anim
                         /\ new = [modal[m] EXCEPT !.anim = modal[m].anim \ {"out"}, !.shown = FALSE]
    <2>1. CASE OpenEnds(m)
      BY <2>1 DEF OpenEnds
    <2>2. CASE CloseEnds(m)
      BY <2>2 DEF CloseEnds
    <2> QED BY <2>1, <2>2
  <1>4. new \in ModalRecord /\ new.isOpen = modal[m].isOpen
    BY <1>1, <1>3 DEF ModalRecord
  <1>5. /\ new.shown <=> new.isOpen \/ "out" \in new.anim
        /\ new.isOpen => "out" \notin new.anim
    <2>1. CASE new = [modal[m] EXCEPT !.anim = modal[m].anim \ {"in"}]
      <3>1. new.anim = modal[m].anim \ {"in"}
        BY <1>1, <2>1 DEF ModalRecord
      <3>2. new.shown = modal[m].shown
        BY <1>1, <2>1 DEF ModalRecord
      <3> QED BY <1>4, <3>1, <3>2 DEF ModalInv
    <2>2. CASE /\ "out" \in modal[m].anim
               /\ new = [modal[m] EXCEPT !.anim = modal[m].anim \ {"out"}, !.shown = FALSE]
      <3>1. new.anim = modal[m].anim \ {"out"}
        BY <1>1, <2>2 DEF ModalRecord
      <3>2. ~new.shown
        BY <1>1, <2>2 DEF ModalRecord
      <3> QED BY <1>4, <2>2, <3>1, <3>2 DEF ModalInv
    <2> QED BY <1>3, <2>1, <2>2
  <1>6. modal' \in [Modals -> ModalRecord] /\ modal'[m] = new
        /\ \A n \in Modals \ {m} : modal'[n] = modal[n]
    BY <1>3, <1>4 DEF ModalInv
  <1>7. OpenModals' = OpenModals
    BY <1>4, <1>6 DEF OpenModals
  <1>8. \A n \in Modals : /\ modal'[n].shown <=> modal'[n].isOpen \/ "out" \in modal'[n].anim
                          /\ modal'[n].isOpen => "out" \notin modal'[n].anim
    BY <1>5, <1>6 DEF ModalInv
  <1> QED BY <1>2, <1>6, <1>7, <1>8 DEF ModalInv

\* Every modal is closed: as the page is loaded.
LEMMA ClosedIsSound ==
    ASSUME modal = [m \in Modals |-> Closed], modalsOpen = 0, scrollLocked = FALSE
    PROVE  ModalInv
  <1>1. Closed \in ModalRecord
    BY ModalsAssumption, FS_CardinalityType DEF Closed, ModalRecord
  <1>2. OpenModals = {}
    BY DEF OpenModals, Closed
  <1> QED BY <1>1, <1>2, FS_EmptySet DEF ModalInv, Closed

-----------------------------------------------------------------------------
(* The flag of a picker and that of its modal *)

\* The flags agree but while the modal closes.
FlagsInv ==
    /\ ModalInv
    /\ \A m \in Modals :
          /\ modal[m].isOpen => PickerOpen(m)
          /\ PickerOpen(m) /\ ~modal[m].isOpen => "out" \in modal[m].anim

\* No other picker's flag changes.
OthersKeep(m) == \A n \in Modals \ {m} : PickerOpen(n)' = PickerOpen(n)

\* A picker that was closed opens with its modal.
LEMMA FlagsOpen ==
    ASSUME FlagsInv, NEW m \in Modals, ~PickerOpen(m),
           Open(m), PickerOpen(m)', OthersKeep(m)
    PROVE  FlagsInv'
  <1>1. ModalInv'
    BY OpenKeeps DEF FlagsInv
  <1>2. ~modal[m].isOpen
    BY DEF FlagsInv
  <1>3. modal' = [modal EXCEPT ![m] = [isOpen |-> TRUE, nth |-> modalsOpen + 1,
                                       anim |-> {"in"}, shown |-> TRUE]]
    BY <1>2 DEF Open, Animate
  <1>4. modal'[m].isOpen /\ \A n \in Modals \ {m} : modal'[n] = modal[n]
    BY <1>3 DEF FlagsInv, ModalInv
  <1>5. \A n \in Modals :
           /\ modal'[n].isOpen => PickerOpen(n)'
           /\ PickerOpen(n)' /\ ~modal'[n].isOpen => "out" \in modal'[n].anim
    <2> TAKE n \in Modals
    <2>1. CASE n = m
      BY <1>4, <2>1
    <2>2. CASE n # m
      <3>1. modal'[n] = modal[n] /\ PickerOpen(n)' = PickerOpen(n)
        BY <1>4, <2>2 DEF OthersKeep
      <3> QED BY <3>1 DEF FlagsInv
    <2> QED BY <2>1, <2>2
  <1> QED BY <1>1, <1>5 DEF FlagsInv

\* What close() leaves of a modal: those it was called for are closed, or on
\* their way.
LEMMA CloseLeaves ==
    ASSUME ModalInv, NEW S, Close(S)
    PROVE  /\ ModalInv'
           /\ \A n \in Modals :
                 \/ modal'[n] = modal[n] /\ (n \in S => ~modal'[n].isOpen)
                 \/ n \in S /\ modal[n].isOpen /\ ~modal'[n].isOpen /\ modal'[n].anim = {"out"}
  <1>1. ModalInv'
    BY CloseKeeps
  <1>2. ASSUME NEW n \in Modals
        PROVE  \/ modal'[n] = modal[n] /\ (n \in S => ~modal'[n].isOpen)
               \/ n \in S /\ modal[n].isOpen /\ ~modal'[n].isOpen /\ modal'[n].anim = {"out"}
    <2>1. modal[n] \in ModalRecord
      BY DEF ModalInv
    <2>2. modal'[n] = IF n \in S \cap OpenModals
                        THEN [modal[n] EXCEPT !.isOpen = FALSE, !.nth = 0, !.anim = {"out"}]
                        ELSE modal[n]
      BY DEF Close, Animate
    <2>3. CASE n \in S \cap OpenModals
      <3>1. modal'[n] = [modal[n] EXCEPT !.isOpen = FALSE, !.nth = 0, !.anim = {"out"}]
        BY <2>2, <2>3
      <3>2. ~modal'[n].isOpen
        BY <2>1, <3>1 DEF ModalRecord
      <3>3. modal'[n].anim = {"out"}
        BY <2>1, <3>1 DEF ModalRecord
      <3> QED BY <2>3, <3>2, <3>3 DEF OpenModals
    <2>4. CASE n \notin S \cap OpenModals
      BY <2>2, <2>4 DEF OpenModals
    <2> QED BY <2>3, <2>4
  <1> QED BY <1>1, <1>2

\* close() of a picker: the modal is closed if the picker was open, and the
\* picker's own flag goes down.
LEMMA FlagsClose ==
    ASSUME FlagsInv, NEW m \in Modals,
           IF PickerOpen(m) THEN Close({m}) ELSE UNCHANGED modalVars,
           ~PickerOpen(m)', OthersKeep(m)
    PROVE  FlagsInv'
  <1>1. ModalInv' /\ ~modal'[m].isOpen /\ \A n \in Modals \ {m} : modal'[n] = modal[n]
    <2>1. CASE PickerOpen(m)
      <3>1. Close({m})
        BY <2>1
      <3> QED BY <3>1, CloseLeaves DEF FlagsInv
    <2>2. CASE ~PickerOpen(m)
      <3>1. UNCHANGED modalVars
        BY <2>2
      <3>2. ModalInv'
        BY <3>1 DEF FlagsInv, ModalInv, OpenModals, modalVars
      <3> QED BY <2>2, <3>1, <3>2 DEF FlagsInv, modalVars
    <2> QED BY <2>1, <2>2
  <1>2. \A n \in Modals :
           /\ modal'[n].isOpen => PickerOpen(n)'
           /\ PickerOpen(n)' /\ ~modal'[n].isOpen => "out" \in modal'[n].anim
    <2> TAKE n \in Modals
    <2>1. CASE n = m
      BY <1>1, <2>1
    <2>2. CASE n # m
      <3>1. modal'[n] = modal[n] /\ PickerOpen(n)' = PickerOpen(n)
        BY <1>1, <2>2 DEF OthersKeep
      <3> QED BY <3>1 DEF FlagsInv
    <2> QED BY <2>1, <2>2
  <1> QED BY <1>1, <1>2 DEF FlagsInv

\* The user dismisses open modals: the pickers do not know yet.
LEMMA FlagsDismiss ==
    ASSUME FlagsInv, NEW S, Close(S), \A n \in Modals : PickerOpen(n)' = PickerOpen(n)
    PROVE  FlagsInv'
  <1>1. ModalInv'
    BY CloseLeaves DEF FlagsInv
  <1>2. \A n \in Modals :
           /\ modal'[n].isOpen => PickerOpen(n)'
           /\ PickerOpen(n)' /\ ~modal'[n].isOpen => "out" \in modal'[n].anim
    <2> TAKE n \in Modals
    <2>1. \/ modal'[n] = modal[n]
          \/ ~modal'[n].isOpen /\ modal'[n].anim = {"out"}
      BY CloseLeaves DEF FlagsInv
    <2> QED BY <2>1 DEF FlagsInv
  <1> QED BY <1>1, <1>2 DEF FlagsInv

\* What the end of an animation leaves of the modals.
LEMMA EndLeaves ==
    ASSUME ModalInv, NEW m \in Modals
    PROVE  /\ OpenEnds(m) =>
                /\ modal'[m].isOpen = modal[m].isOpen
                /\ "out" \in modal[m].anim => "out" \in modal'[m].anim
                /\ \A n \in Modals \ {m} : modal'[n] = modal[n]
           /\ CloseEnds(m) =>
                /\ ~modal'[m].isOpen
                /\ \A n \in Modals \ {m} : modal'[n] = modal[n]
  <1>1. modal[m] \in ModalRecord
    BY DEF ModalInv
  <1>2. ASSUME OpenEnds(m)
        PROVE  /\ modal'[m].isOpen = modal[m].isOpen
               /\ "out" \in modal[m].anim => "out" \in modal'[m].anim
               /\ \A n \in Modals \ {m} : modal'[n] = modal[n]
    <2>1. modal' = [modal EXCEPT ![m] = [modal[m] EXCEPT !.anim = modal[m].anim \ {"in"}]]
      BY <1>2 DEF OpenEnds
    <2>2. modal'[m] = [modal[m] EXCEPT !.anim = modal[m].anim \ {"in"}]
          /\ \A n \in Modals \ {m} : modal'[n] = modal[n]
      BY <2>1 DEF ModalInv
    <2>3. modal'[m].anim = modal[m].anim \ {"in"}
      BY <1>1, <2>2 DEF ModalRecord
    <2>4. modal'[m].isOpen = modal[m].isOpen
      BY <1>1, <2>2 DEF ModalRecord
    <2> QED BY <2>2, <2>3, <2>4
  <1>3. ASSUME CloseEnds(m)
        PROVE  /\ ~modal'[m].isOpen
               /\ \A n \in Modals \ {m} : modal'[n] = modal[n]
    <2>1. modal' = [modal EXCEPT ![m] = [modal[m] EXCEPT !.anim = modal[m].anim \ {"out"},
                                                         !.shown = FALSE]]
      BY <1>3 DEF CloseEnds
    <2>2. modal'[m] = [modal[m] EXCEPT !.anim = modal[m].anim \ {"out"}, !.shown = FALSE]
          /\ \A n \in Modals \ {m} : modal'[n] = modal[n]
      BY <2>1 DEF ModalInv
    <2>3. modal'[m].isOpen = modal[m].isOpen
      BY <1>1, <2>2 DEF ModalRecord
    <2>4. ~modal[m].isOpen
      BY <1>3 DEF CloseEnds, ModalInv
    <2> QED BY <2>2, <2>3, <2>4
  <1> QED BY <1>2, <1>3

\* An animation that opens a modal ends.
LEMMA FlagsOpenEnds ==
    ASSUME FlagsInv, NEW m \in Modals, OpenEnds(m),
           \A n \in Modals : PickerOpen(n)' = PickerOpen(n)
    PROVE  FlagsInv'
  <1>1. ModalInv'
    BY EndsKeep DEF FlagsInv
  <1>2. /\ modal'[m].isOpen = modal[m].isOpen
        /\ "out" \in modal[m].anim => "out" \in modal'[m].anim
        /\ \A n \in Modals \ {m} : modal'[n] = modal[n]
    BY EndLeaves DEF FlagsInv
  <1>3. \A n \in Modals :
           /\ modal'[n].isOpen => PickerOpen(n)'
           /\ PickerOpen(n)' /\ ~modal'[n].isOpen => "out" \in modal'[n].anim
    <2> TAKE n \in Modals
    <2>1. CASE n = m
      BY <1>2, <2>1 DEF FlagsInv
    <2>2. CASE n # m
      BY <1>2, <2>2 DEF FlagsInv
    <2> QED BY <2>1, <2>2
  <1> QED BY <1>1, <1>3 DEF FlagsInv

\* An animation that closes one ends, and its picker is told.
LEMMA FlagsShut ==
    ASSUME FlagsInv, NEW m \in Modals, CloseEnds(m), ~PickerOpen(m)', OthersKeep(m)
    PROVE  FlagsInv'
  <1>1. ModalInv'
    BY EndsKeep DEF FlagsInv
  <1>2. ~modal'[m].isOpen /\ \A n \in Modals \ {m} : modal'[n] = modal[n]
    BY EndLeaves DEF FlagsInv
  <1>3. \A n \in Modals :
           /\ modal'[n].isOpen => PickerOpen(n)'
           /\ PickerOpen(n)' /\ ~modal'[n].isOpen => "out" \in modal'[n].anim
    <2> TAKE n \in Modals
    <2>1. CASE n = m
      BY <1>2, <2>1
    <2>2. CASE n # m
      <3>1. modal'[n] = modal[n] /\ PickerOpen(n)' = PickerOpen(n)
        BY <1>2, <2>2 DEF OthersKeep
      <3> QED BY <3>1 DEF FlagsInv
    <2> QED BY <2>1, <2>2
  <1> QED BY <1>1, <1>3 DEF FlagsInv

\* Nothing happens to the modals.
LEMMA FlagsStay ==
    ASSUME FlagsInv, UNCHANGED modalVars, \A n \in Modals : PickerOpen(n)' = PickerOpen(n)
    PROVE  FlagsInv'
  BY DEF FlagsInv, ModalInv, OpenModals, modalVars

-----------------------------------------------------------------------------
(* The date pickers *)

MonthRecord == [year : Int, month : 0..11]
DateOrNone == DateTexts \cup {NoDate}

DateRecord == [isOpen : BOOLEAN, date : DateOrNone, typed : BOOLEAN,
               calendar : MonthRecord,
               drawn : [calendar : MonthRecord, date : DateOrNone]]

\* What an open picker has drawn is what it holds.
UpToDate(p) == p.isOpen => p.drawn = [calendar |-> p.calendar, date |-> p.date]

\* p is a picker that has drawn what it holds.
Sound(p) == p \in DateRecord /\ UpToDate(p)

\* The pickers hold dates, and the open ones show what they hold.
DatesInv ==
    /\ dates \in [DatePickers -> DateRecord]
    /\ \A d \in DatePickers : UpToDate(dates[d])
    /\ dateField \in [DatePickers -> DateOrNone]

\* The month of a date, and of no date, is a month.
LEMMA MonthType ==
    ASSUME NEW dt \in DateOrNone
    PROVE  Month(dt) \in MonthRecord
  BY DEF DateOrNone, DateTexts, NoDate, Month, MonthRecord

\* No date is no date.
LEMMA DateIsSome ==
    ASSUME NEW dt \in DateTexts
    PROVE  dt # NoDate /\ dt \in DateOrNone /\ dt.day \in 1..31
  BY DEF DateTexts, NoDate, DateOrNone

\* A month has 28 to 31 days.
LEMMA DaysType ==
    ASSUME NEW y \in Int, NEW m \in 0..11
    PROVE  DaysInMonth(y, m) \in 28..31
  BY DEF DaysInMonth

\* The day before a date is a date.
LEMMA PrevDayType ==
    ASSUME NEW dt \in DateTexts
    PROVE  PrevDay(dt) \in DateTexts
  <1>1. dt.year \in Int /\ dt.month \in 0..11 /\ dt.day \in 1..31
        /\ dt = [year |-> dt.year, month |-> dt.month, day |-> dt.day]
    BY DEF DateTexts
  <1>2. CASE dt.day > 1
    <2>1. PrevDay(dt) = [year |-> dt.year, month |-> dt.month, day |-> dt.day - 1]
      BY <1>1, <1>2 DEF PrevDay
    <2> QED BY <1>1, <1>2, <2>1 DEF DateTexts
  <1>3. CASE ~(dt.day > 1)
    <2> DEFINE m == (dt.month + 11) % 12
               y == IF dt.month = 0 THEN dt.year - 1 ELSE dt.year
               gregorian == (y % 4 = 0 /\ y % 100 # 0) \/ y % 400 = 0
               n == IF m = 1 THEN IF gregorian THEN 29 ELSE 28
                    ELSE IF m \in {3, 5, 8, 10} THEN 30 ELSE 31
    <2>1. PrevDay(dt) = [year |-> y, month |-> m, day |-> n]
      BY <1>3 DEF PrevDay, Date
    <2>2. m \in 0..11 /\ y \in Int
      BY <1>1
    <2>3. n \in 1..31
      OBVIOUS
    <2> QED BY <2>1, <2>2, <2>3 DEF DateTexts
  <1> QED BY <1>2, <1>3

\* What a text is read as.
LEMMA ParsedType ==
    ASSUME NEW dt \in DateTexts
    PROVE  Parsed(dt) \in DateTexts /\ (~West => Parsed(dt) = dt)
  BY PrevDayType, UserAssumption DEF Parsed

\* draw() brings the modal up to date.
LEMMA DrawnSound ==
    ASSUME NEW p \in DateRecord
    PROVE  /\ Sound(Drawn(p))
           /\ Drawn(p).isOpen = p.isOpen /\ Drawn(p).typed = p.typed
           /\ Drawn(p).date = p.date /\ Drawn(p).calendar = p.calendar
  <1>1. CASE p.isOpen
    <2>1. PICK u : u = [calendar |-> p.calendar, date |-> p.date]
      OBVIOUS
    <2>2. u \in [calendar : MonthRecord, date : DateOrNone]
      BY <2>1 DEF DateRecord
    <2>3. Drawn(p) = [p EXCEPT !.drawn = u]
      BY <1>1, <2>1 DEF Drawn
    <2>4. Drawn(p) \in DateRecord
      BY ONLY <2>2, <2>3, p \in DateRecord DEF DateRecord
    <2>5. Drawn(p).isOpen = p.isOpen /\ Drawn(p).typed = p.typed
      BY ONLY <2>2, <2>3, p \in DateRecord, Zenon DEF DateRecord
    <2>6. Drawn(p).date = p.date /\ Drawn(p).calendar = p.calendar /\ Drawn(p).drawn = u
      BY ONLY <2>2, <2>3, p \in DateRecord, Zenon DEF DateRecord
    <2> QED BY <2>1, <2>4, <2>5, <2>6 DEF Sound, UpToDate
  <1>2. CASE ~p.isOpen
    BY <1>2 DEF Drawn, Sound, UpToDate
  <1> QED BY <1>1, <1>2

\* adjustCalendars: a month at most one step out of its year is brought back.
LEMMA AdjustedType ==
    ASSUME NEW cal \in [year : Int, month : -1..12]
    PROVE  Adjusted(cal) \in MonthRecord
  <1>1. cal.year \in Int /\ cal.month \in -1..12
    OBVIOUS
  <1>2. CASE cal.month < 0
    <2>1. Adjusted(cal) = [year |-> cal.year - (11 - cal.month) \div 12, month |-> cal.month + 12]
      BY <1>2 DEF Adjusted
    <2>2. cal.month + 12 \in 0..11 /\ cal.year - (11 - cal.month) \div 12 \in Int
      BY <1>1, <1>2
    <2> QED BY <2>1, <2>2 DEF MonthRecord
  <1>3. CASE cal.month > 11
    <2>1. Adjusted(cal) = [year |-> cal.year + cal.month \div 12, month |-> cal.month - 12]
      BY <1>1, <1>3 DEF Adjusted
    <2>2. cal.month - 12 \in 0..11 /\ cal.year + cal.month \div 12 \in Int
      BY <1>1, <1>3
    <2> QED BY <2>1, <2>2 DEF MonthRecord
  <1>4. CASE cal.month \in 0..11
    <2>1. Adjusted(cal) = cal
      BY <1>1, <1>4 DEF Adjusted
    <2> QED BY <1>1, <1>4, <2>1 DEF MonthRecord
  <1> QED BY <1>1, <1>2, <1>3, <1>4

\* The calendar of a picker moves.
LEMMA AdjustSound ==
    ASSUME NEW p \in DateRecord, NEW cal \in [year : Int, month : -1..12],
           NEW q, q = Adjust([p EXCEPT !.calendar = cal])
    PROVE  /\ Sound(q)
           /\ q.isOpen = p.isOpen /\ q.typed = p.typed /\ q.date = p.date
  <1>1. PICK u : u = [p EXCEPT !.calendar = Adjusted(cal)]
    OBVIOUS
  <1>2. Adjusted(cal) \in MonthRecord
    BY AdjustedType
  <1>3. u \in DateRecord
    BY ONLY <1>1, <1>2, p \in DateRecord DEF DateRecord
  <1>4. u.isOpen = p.isOpen /\ u.typed = p.typed /\ u.date = p.date
    BY ONLY <1>1, <1>2, p \in DateRecord, Zenon DEF DateRecord
  <1>5. q = Drawn(u)
    <2>1. [[p EXCEPT !.calendar = cal] EXCEPT !.calendar = Adjusted(cal)] = u
      BY <1>1, Zenon DEF DateRecord
    <2>2. [p EXCEPT !.calendar = cal].calendar = cal
      BY Zenon DEF DateRecord
    <2> QED BY <2>1, <2>2 DEF Adjust
  <1> QED BY <1>3, <1>4, <1>5, DrawnSound

\* setDate.
LEMMA SetDateSound ==
    ASSUME NEW p \in DateRecord, NEW dt \in DateTexts
    PROVE  /\ Sound(SetDate(p, dt))
           /\ SetDate(p, dt).isOpen = p.isOpen /\ SetDate(p, dt).typed = p.typed
           /\ SetDate(p, dt).date = dt
  <1>1. PICK u : u = [p EXCEPT !.date = dt]
    OBVIOUS
  <1>2. dt \in DateOrNone
    BY DateIsSome
  <1>3. u \in DateRecord
    BY ONLY <1>1, <1>2, p \in DateRecord DEF DateRecord
  <1>4. u.isOpen = p.isOpen /\ u.typed = p.typed /\ u.date = dt
    BY ONLY <1>1, <1>2, p \in DateRecord, Zenon DEF DateRecord
  <1>5. Month(dt) \in [year : Int, month : -1..12]
    BY <1>2, MonthType DEF MonthRecord
  <1>6. SetDate(p, dt) = Adjust([u EXCEPT !.calendar = Month(dt)])
    BY <1>1 DEF SetDate
  <1> QED BY <1>3, <1>4, <1>5, <1>6, AdjustSound

\* The flag of a picker goes down.
LEMMA ShutSound ==
    ASSUME NEW p, Sound(p), NEW q, q = [p EXCEPT !.isOpen = FALSE]
    PROVE  Sound(q) /\ ~q.isOpen /\ q.date = p.date /\ q.typed = p.typed
  <1>1. p \in DateRecord
    BY DEF Sound
  <1>2. /\ q \in DateRecord /\ q.isOpen = FALSE
        /\ q.date = p.date /\ q.typed = p.typed
    BY ONLY <1>1, q = [p EXCEPT !.isOpen = FALSE], Zenon DEF DateRecord
  <1> QED BY ONLY <1>2 DEF Sound, UpToDate

\* The text of a picker is noted as typed.
LEMMA TypedSound ==
    ASSUME NEW p, Sound(p), NEW q, q = [p EXCEPT !.typed = TRUE]
    PROVE  Sound(q) /\ q.isOpen = p.isOpen /\ q.date = p.date /\ q.typed = TRUE
  <1>1. p \in DateRecord /\ UpToDate(p)
    BY DEF Sound
  <1>2. /\ q \in DateRecord /\ q.typed = TRUE
        /\ q.isOpen = p.isOpen /\ q.date = p.date
    BY ONLY <1>1, q = [p EXCEPT !.typed = TRUE], Zenon DEF DateRecord
  <1>3. q.drawn = p.drawn /\ q.calendar = p.calendar
    BY ONLY <1>1, q = [p EXCEPT !.typed = TRUE], Zenon DEF DateRecord
  <1> QED BY ONLY <1>1, <1>2, <1>3 DEF Sound, UpToDate

\* The flag goes down, and the text is not a typed one.
Chosen(p) == [p EXCEPT !.isOpen = FALSE, !.typed = FALSE]

\* A picker stays sound when a date was chosen.
LEMMA ChosenSound ==
    ASSUME NEW p, Sound(p), NEW q, q = Chosen(p)
    PROVE  Sound(q) /\ ~q.isOpen /\ q.date = p.date /\ q.typed = FALSE
  <1>1. p \in DateRecord
    BY DEF Sound
  <1>2. /\ q \in DateRecord /\ q.isOpen = FALSE
        /\ q.date = p.date /\ q.typed = FALSE
    BY ONLY <1>1, q = Chosen(p), Zenon DEF DateRecord, Chosen
  <1> QED BY ONLY <1>2 DEF Sound, UpToDate

-----------------------------------------------------------------------------
(* What the user and the browser do to a date picker *)

\* Both invariants of a date picker.
DateInv == FlagsInv /\ DatesInv

\* The pickers other than d stay as they are.
Alone(d) == \A e \in DatePickers \ {d} : dates'[e] = dates[e]

\* The date of d, and how it came about, stay.
DateKept(d) ==
    /\ dates'[d].date = dates[d].date /\ dates'[d].typed = dates[d].typed
    /\ Alone(d) /\ dateField' = dateField

\* A date picker is a modal, and no time picker.
LEMMA DateIsModal ==
    ASSUME NEW d \in DatePickers
    PROVE  d \in Modals /\ (PickerOpen(d) <=> dates[d].isOpen) /\ d \notin TimePickers
  BY PickersAssumption DEF PickerOpen

\* One date picker changes.
LEMMA DateMoves ==
    ASSUME DatesInv, NEW d \in DatePickers, NEW u, Sound(u),
           dates' = [dates EXCEPT ![d] = u],
           dateField' \in [DatePickers -> DateOrNone], UNCHANGED timeVars
    PROVE  /\ DatesInv' /\ dates'[d] = u /\ Alone(d)
           /\ (PickerOpen(d)' <=> u.isOpen) /\ OthersKeep(d)
  <1>1. u \in DateRecord /\ UpToDate(u)
    BY DEF Sound
  <1>2. dates' \in [DatePickers -> DateRecord] /\ dates'[d] = u
        /\ \A e \in DatePickers \ {d} : dates'[e] = dates[e]
    BY <1>1 DEF DatesInv
  <1>3. \A e \in DatePickers : UpToDate(dates'[e])
    BY <1>1, <1>2 DEF DatesInv
  <1>4. DatesInv'
    BY <1>2, <1>3 DEF DatesInv, UpToDate
  <1>5. times' = times
    BY DEF timeVars
  <1>6. PickerOpen(d)' <=> u.isOpen
    BY <1>2 DEF PickerOpen
  <1>7. OthersKeep(d)
    BY <1>2, <1>5 DEF OthersKeep, PickerOpen
  <1> QED BY <1>2, <1>4, <1>6, <1>7 DEF Alone

\* Nothing happens to the pickers.
LEMMA DatesStay ==
    ASSUME DatesInv, UNCHANGED dates, UNCHANGED dateField
    PROVE  DatesInv'
  BY DEF DatesInv, UpToDate

\* The picker is opened.
LEMMA OpenDateStep ==
    ASSUME DateInv, NEW d \in DatePickers, OpenDate(d), UNCHANGED timeVars
    PROVE  DateInv' /\ DateKept(d)
  <1>1. d \in Modals /\ dateField' = dateField /\ times' = times
    BY DateIsModal DEF OpenDate, timeVars
  <1>2. CASE dates[d].isOpen
    <2>1. UNCHANGED <<dates, modalVars>>
      BY <1>2 DEF OpenDate
    <2>2. \A n \in Modals : PickerOpen(n)' = PickerOpen(n)
      BY <1>1, <2>1 DEF PickerOpen
    <2> QED BY <1>1, <2>1, <2>2, FlagsStay, DatesStay DEF DateInv, DateKept, Alone
  <1>3. CASE ~dates[d].isOpen
    <2>1. PICK v : v = [dates[d] EXCEPT !.isOpen = TRUE]
      OBVIOUS
    <2>2. dates' = [dates EXCEPT ![d] = Drawn(v)] /\ Open(d)
      BY <1>3, <2>1 DEF OpenDate
    <2>3. dates[d] \in DateRecord
      BY DEF DateInv, DatesInv
    <2>4. v \in DateRecord /\ v.isOpen /\ v.date = dates[d].date /\ v.typed = dates[d].typed
      BY ONLY <2>1, <2>3, Zenon DEF DateRecord
    <2>5. /\ Sound(Drawn(v)) /\ Drawn(v).isOpen
          /\ Drawn(v).date = dates[d].date /\ Drawn(v).typed = dates[d].typed
      BY <2>4, DrawnSound
    <2>6. /\ DatesInv' /\ dates'[d] = Drawn(v) /\ Alone(d)
          /\ PickerOpen(d)' /\ OthersKeep(d)
      BY <1>1, <2>2, <2>5, DateMoves DEF DateInv, DatesInv
    <2>7. FlagsInv'
      BY <1>1, <1>3, <2>2, <2>6, FlagsOpen, DateIsModal DEF DateInv
    <2> QED BY <1>1, <2>5, <2>6, <2>7 DEF DateInv, DateKept
  <1> QED BY <1>2, <1>3

\* The picker is closed.
LEMMA CloseDateStep ==
    ASSUME DateInv, NEW d \in DatePickers, NEW u, Sound(u), ~u.isOpen,
           dates' = [dates EXCEPT ![d] = u], CloseDate(d),
           dateField' \in [DatePickers -> DateOrNone], UNCHANGED timeVars
    PROVE  DateInv' /\ dates'[d] = u /\ Alone(d)
  <1>1. /\ DatesInv' /\ dates'[d] = u /\ Alone(d)
        /\ ~PickerOpen(d)' /\ OthersKeep(d)
    BY DateMoves DEF DateInv
  <1>2. d \in Modals /\ (PickerOpen(d) <=> dates[d].isOpen)
    BY DateIsModal
  <1>3. IF PickerOpen(d) THEN Close({d}) ELSE UNCHANGED modalVars
    BY <1>2 DEF CloseDate
  <1>4. FlagsInv'
    BY <1>1, <1>2, <1>3, FlagsClose DEF DateInv
  <1> QED BY <1>1, <1>4 DEF DateInv

\* Cancel closes it.
LEMMA CancelStep ==
    ASSUME DateInv, NEW d \in DatePickers, Cancel(d), UNCHANGED timeVars
    PROVE  DateInv' /\ DateKept(d)
  <1>1. PICK u : u = [dates[d] EXCEPT !.isOpen = FALSE]
    OBVIOUS
  <1>2. dates' = [dates EXCEPT ![d] = u] /\ CloseDate(d) /\ dateField' = dateField
    BY <1>1, Zenon DEF Cancel
  <1>3. Sound(dates[d])
    BY DEF DateInv, DatesInv, Sound
  <1>4. Sound(u) /\ ~u.isOpen /\ u.date = dates[d].date /\ u.typed = dates[d].typed
    BY ONLY <1>1, <1>3, ShutSound
  <1>5. DateInv' /\ dates'[d] = u /\ Alone(d)
    BY <1>2, <1>4, CloseDateStep DEF DateInv, DatesInv
  <1> QED BY <1>2, <1>4, <1>5 DEF DateKept

\* Ok: the text becomes the date.
LEMMA PressOkStep ==
    ASSUME DateInv, NEW d \in DatePickers, PressOk(d), UNCHANGED timeVars
    PROVE  /\ DateInv' /\ Alone(d)
           /\ dates'[d].date = dates[d].date /\ dates'[d].typed = FALSE
           /\ dateField' = [dateField EXCEPT ![d] = dates[d].date]
  <1>1. PICK u : u = Chosen(dates[d])
    OBVIOUS
  <1>2. /\ dates' = [dates EXCEPT ![d] = u] /\ CloseDate(d)
        /\ dateField' = [dateField EXCEPT ![d] = dates[d].date]
    <2>1. dates' = [dates EXCEPT ![d].isOpen = FALSE, ![d].typed = FALSE]
      BY DEF PressOk
    <2>2. [dates EXCEPT ![d].isOpen = FALSE, ![d].typed = FALSE] = [dates EXCEPT ![d] = u]
      BY ONLY <1>1, DateInv, d \in DatePickers, Zenon DEF DateInv, DatesInv, DateRecord, Chosen
    <2> QED BY <2>1, <2>2 DEF PressOk
  <1>3. Sound(dates[d]) /\ dates[d].date \in DateOrNone
    BY DEF DateInv, DatesInv, Sound, DateRecord
  <1>4. Sound(u) /\ ~u.isOpen /\ u.date = dates[d].date /\ u.typed = FALSE
    BY ONLY <1>1, <1>3, ChosenSound
  <1>5. dateField' \in [DatePickers -> DateOrNone]
    BY <1>2, <1>3 DEF DateInv, DatesInv
  <1>6. DateInv' /\ dates'[d] = u /\ Alone(d)
    BY <1>2, <1>4, <1>5, CloseDateStep
  <1> QED BY <1>2, <1>4, <1>6

\* A day is clicked.
LEMMA ClickDayStep ==
    ASSUME DateInv, NEW d \in DatePickers, NEW day, NEW followers,
           ClickDay(d, day, followers), UNCHANGED timeVars
    PROVE  /\ DateInv' /\ Alone(d)
           /\ dates'[d].date \in DateTexts /\ dates'[d].typed = FALSE
           /\ dateField' = Filled(dateField, {d} \cup followers, dates'[d].date)
  <1> DEFINE cal == dates[d].drawn.calendar
             dt == Date(cal.year, cal.month, day)
  <1>1. Sound(dates[d]) /\ dates[d] \in DateRecord /\ cal \in MonthRecord
    BY DEF DateInv, DatesInv, Sound, DateRecord
  <1>2. cal.year \in Int /\ cal.month \in 0..11
    BY <1>1 DEF MonthRecord
  <1>3. /\ day \in 1..DaysInMonth(cal.year, cal.month)
        /\ dates' = [dates EXCEPT ![d] = [SetDate(dates[d], dt) EXCEPT !.isOpen = FALSE,
                                                                       !.typed = FALSE]]
        /\ dateField' = Filled(dateField, {d} \cup followers, dt)
        /\ dates[d].isOpen /\ Close({d})
    BY DEF ClickDay
  <1>4. dt \in DateTexts
    <2>1. DaysInMonth(cal.year, cal.month) \in 28..31
      BY <1>2, DaysType
    <2>2. day \in 1..31
      BY <1>3, <2>1
    <2> QED BY <1>2, <2>2 DEF Date, DateTexts
  <1> HIDE DEF dt
  <1>5. PICK u : u = Chosen(SetDate(dates[d], dt))
    OBVIOUS
  <1>6. Sound(SetDate(dates[d], dt)) /\ SetDate(dates[d], dt).date = dt
    BY <1>1, <1>4, SetDateSound
  <1>7. Sound(u) /\ ~u.isOpen /\ u.date = dt /\ u.typed = FALSE
    BY ONLY <1>5, <1>6, ChosenSound
  <1>8. CloseDate(d)
    BY <1>3 DEF CloseDate
  <1>9. dateField' \in [DatePickers -> DateOrNone]
    <2>1. dt \in DateOrNone
      BY <1>4, DateIsSome
    <2> QED BY <1>3, <2>1 DEF Filled, DateInv, DatesInv
  <1>10. DateInv' /\ dates'[d] = u /\ Alone(d)
    <2>1. dates' = [dates EXCEPT ![d] = u]
      BY <1>3, <1>5 DEF Chosen
    <2> QED BY <1>7, <1>8, <1>9, <2>1, CloseDateStep
  <1> QED BY <1>3, <1>4, <1>7, <1>10

\* The picker neither opens nor closes.
LEMMA StayStep ==
    ASSUME DateInv, NEW d \in DatePickers, NEW u, Sound(u), u.isOpen = dates[d].isOpen,
           dates' = [dates EXCEPT ![d] = u], UNCHANGED modalVars,
           dateField' \in [DatePickers -> DateOrNone], UNCHANGED timeVars
    PROVE  DateInv' /\ dates'[d] = u /\ Alone(d)
  <1>1. /\ DatesInv' /\ dates'[d] = u /\ Alone(d)
        /\ (PickerOpen(d)' <=> u.isOpen) /\ OthersKeep(d)
    BY DateMoves DEF DateInv
  <1>2. PickerOpen(d)' = PickerOpen(d)
    BY <1>1 DEF PickerOpen
  <1>3. \A n \in Modals : PickerOpen(n)' = PickerOpen(n)
    BY <1>1, <1>2 DEF OthersKeep
  <1>4. FlagsInv'
    BY <1>3, FlagsStay DEF DateInv
  <1> QED BY <1>1, <1>4 DEF DateInv

\* The calendar is turned.
LEMMA TurnStep ==
    ASSUME DateInv, NEW d \in DatePickers, NEW cal \in [year : Int, month : -1..12],
           Turn(d, cal), UNCHANGED timeVars
    PROVE  DateInv' /\ DateKept(d)
  <1>1. PICK u : u = Adjust([dates[d] EXCEPT !.calendar = cal])
    OBVIOUS
  <1>2. dates' = [dates EXCEPT ![d] = u] /\ UNCHANGED modalVars /\ dateField' = dateField
    BY <1>1 DEF Turn
  <1>3. dates[d] \in DateRecord
    BY DEF DateInv, DatesInv
  <1>4. /\ Sound(u) /\ u.isOpen = dates[d].isOpen
        /\ u.typed = dates[d].typed /\ u.date = dates[d].date
    BY <1>1, <1>3, AdjustSound
  <1>5. DateInv' /\ dates'[d] = u /\ Alone(d)
    BY <1>2, <1>4, StayStep DEF DateInv, DatesInv
  <1> QED BY <1>2, <1>4, <1>5 DEF DateKept

\* Every way to turn it.
LEMMA TurnsStep ==
    ASSUME DateInv, NEW d \in DatePickers, UNCHANGED timeVars,
           \/ PrevMonth(d) \/ NextMonth(d)
           \/ \E m \in Months : GotoMonth(d, m)
           \/ \E y \in Years : GotoYear(d, y)
    PROVE  DateInv' /\ DateKept(d)
  <1> DEFINE cal == dates[d].calendar
  <1>1. cal \in MonthRecord /\ dates[d].drawn.calendar \in MonthRecord
    BY DEF DateInv, DatesInv, DateRecord
  <1>2. cal.year \in Int /\ cal.month \in 0..11
    BY <1>1 DEF MonthRecord
  <1>3. ASSUME NEW n \in -1..12
        PROVE  [cal EXCEPT !.month = n] \in [year : Int, month : -1..12]
    BY <1>1, <1>3 DEF MonthRecord
  <1> HIDE DEF cal
  <1>4. CASE PrevMonth(d)
    <2>1. Turn(d, [cal EXCEPT !.month = cal.month - 1]) /\ cal.month - 1 \in -1..12
      BY <1>2, <1>4 DEF PrevMonth, cal
    <2> QED BY <1>3, <2>1, TurnStep
  <1>5. CASE NextMonth(d)
    <2>1. Turn(d, [cal EXCEPT !.month = cal.month + 1]) /\ cal.month + 1 \in -1..12
      BY <1>2, <1>5 DEF NextMonth, cal
    <2> QED BY <1>3, <2>1, TurnStep
  <1>6. ASSUME NEW m \in Months, GotoMonth(d, m)
        PROVE  DateInv' /\ DateKept(d)
    <2>1. Turn(d, [cal EXCEPT !.month = m]) /\ m \in -1..12
      BY <1>6 DEF GotoMonth, MonthOptions, cal
    <2> QED BY <1>3, <2>1, TurnStep
  <1>7. ASSUME NEW y \in Years, GotoYear(d, y)
        PROVE  DateInv' /\ DateKept(d)
    <2>1. Turn(d, [cal EXCEPT !.year = y]) /\ y \in Int
      <3>1. y \in YearOptions(dates[d].drawn.calendar.year)
        BY <1>7 DEF GotoYear
      <3>2. y \in Int
        BY <3>1 DEF YearOptions
      <3> QED BY <1>7, <3>2, Zenon DEF GotoYear, cal
    <2>2. [cal EXCEPT !.year = y] \in [year : Int, month : -1..12]
      BY <1>1, <2>1 DEF MonthRecord, cal
    <2> QED BY <2>1, <2>2, TurnStep
  <1> QED BY <1>4, <1>5, <1>6, <1>7

\* A text is typed.
LEMMA TypeDateStep ==
    ASSUME DateInv, NEW d \in DatePickers, NEW text \in DateOrNone, NEW followers,
           TypeDate(d, text, followers), UNCHANGED timeVars
    PROVE  /\ DateInv' /\ Alone(d) /\ dates'[d].typed = TRUE
           /\ text = NoDate => /\ dates'[d].date = dates[d].date
                               /\ dateField' = [dateField EXCEPT ![d] = text]
           /\ text # NoDate => /\ dates'[d].date = Parsed(text)
                               /\ dateField' = Filled([dateField EXCEPT ![d] = text],
                                                      followers, Parsed(text))
  <1>1. Sound(dates[d]) /\ dates[d] \in DateRecord /\ UNCHANGED modalVars
    BY DEF DateInv, DatesInv, Sound, TypeDate
  <1>2. [dateField EXCEPT ![d] = text] \in [DatePickers -> DateOrNone]
    BY DEF DateInv, DatesInv
  <1>3. CASE text = NoDate
    <2>1. PICK u : u = [dates[d] EXCEPT !.typed = TRUE]
      OBVIOUS
    <2>2. dates' = [dates EXCEPT ![d] = u] /\ dateField' = [dateField EXCEPT ![d] = text]
      BY <1>3, <2>1, Zenon DEF TypeDate
    <2>3. Sound(u) /\ u.isOpen = dates[d].isOpen /\ u.date = dates[d].date /\ u.typed = TRUE
      BY ONLY <1>1, <2>1, TypedSound
    <2>4. DateInv' /\ dates'[d] = u /\ Alone(d)
      BY <1>1, <1>2, <2>2, <2>3, StayStep
    <2> QED BY <1>3, <2>2, <2>3, <2>4
  <1>4. CASE text # NoDate
    <2>1. PICK v : v = SetDate(dates[d], Parsed(text))
      OBVIOUS
    <2>2. PICK u : u = [v EXCEPT !.typed = TRUE]
      OBVIOUS
    <2>3. /\ dates' = [dates EXCEPT ![d] = u]
          /\ dateField' = Filled([dateField EXCEPT ![d] = text], followers, Parsed(text))
      BY <1>4, <2>1, <2>2 DEF TypeDate
    <2>4. Parsed(text) \in DateTexts
      BY <1>4, ParsedType DEF DateOrNone
    <2>5. Sound(v) /\ v.isOpen = dates[d].isOpen /\ v.date = Parsed(text)
      BY <1>1, <2>1, <2>4, SetDateSound
    <2>6. Sound(u) /\ u.isOpen = dates[d].isOpen /\ u.date = Parsed(text) /\ u.typed = TRUE
      BY ONLY <2>2, <2>5, TypedSound
    <2>7. dateField' \in [DatePickers -> DateOrNone]
      BY <1>2, <2>3, <2>4, DateIsSome DEF Filled
    <2>8. DateInv' /\ dates'[d] = u /\ Alone(d)
      BY <1>1, <2>3, <2>6, <2>7, StayStep
    <2> QED BY <1>4, <2>3, <2>6, <2>8
  <1> QED BY <1>3, <1>4

\* The closing animation of the picker's modal ends.
LEMMA DateShutStep ==
    ASSUME DateInv, NEW d \in DatePickers, DateShut(d), UNCHANGED timeVars
    PROVE  DateInv' /\ DateKept(d)
  <1>1. PICK u : u = [dates[d] EXCEPT !.isOpen = FALSE]
    OBVIOUS
  <1>2. dates' = [dates EXCEPT ![d] = u] /\ CloseEnds(d) /\ dateField' = dateField
    BY <1>1, Zenon DEF DateShut
  <1>3. Sound(dates[d])
    BY DEF DateInv, DatesInv, Sound
  <1>4. Sound(u) /\ ~u.isOpen /\ u.date = dates[d].date /\ u.typed = dates[d].typed
    BY ONLY <1>1, <1>3, ShutSound
  <1>5. /\ DatesInv' /\ dates'[d] = u /\ Alone(d)
        /\ ~PickerOpen(d)' /\ OthersKeep(d)
    BY <1>2, <1>4, DateMoves DEF DateInv, DatesInv
  <1>6. FlagsInv'
    BY <1>2, <1>5, FlagsShut, DateIsModal DEF DateInv
  <1> QED BY <1>2, <1>4, <1>5, <1>6 DEF DateInv, DateKept

-----------------------------------------------------------------------------
(* The time pickers *)

Views == {"hours", "minutes"}
PlaceRecord == [angle : 0..59, ring : {"inner", "outer", "none"}]
HandRecord == [place : PlaceRecord, view : Views, touched : BOOLEAN]

TimeRecord == [isOpen : BOOLEAN, hours : 0..23, minutes : 0..59, currentView : Views,
               press : PlaceRecord, moved : BOOLEAN,
               visible : SUBSET Views, hiding : SUBSET Views,
               soon : Seq(HandRecord), later : Seq(HandRecord), done : 0..MaxTimers]

\* A hand movement nobody touched since goes where the hand of p is.
AtRest(p, hand) ==
    ~hand.touched => /\ hand.view = p.currentView
                     /\ hand.place = PlaceOf(p.currentView, ValueOf(p))

HandsRest(p) ==
    /\ \A i \in DOMAIN p.soon : AtRest(p, p.soon[i])
    /\ \A i \in DOMAIN p.later : AtRest(p, p.later[i])

AllTouched(p) ==
    /\ \A i \in DOMAIN p.soon : p.soon[i].touched
    /\ \A i \in DOMAIN p.later : p.later[i].touched

\* The view in use is visible and not about to be hidden.
ViewStays(p) == p.currentView \in p.visible /\ p.currentView \notin p.hiding

TimeSound(p) == p \in TimeRecord /\ HandsRest(p) /\ ViewStays(p)

TimesInv ==
    /\ times \in [TimePickers -> TimeRecord]
    /\ \A t \in TimePickers : HandsRest(times[t]) /\ ViewStays(times[t])
    /\ timeField \in [TimePickers -> TimeTexts \cup {NoTime}]

\* p and q differ in nothing but the fields of the hand movements.
SameFace(p, q) ==
    /\ p.currentView = q.currentView /\ p.hours = q.hours /\ p.minutes = q.minutes
    /\ p.visible = q.visible /\ p.hiding = q.hiding
    /\ p.isOpen = q.isOpen

-----------------------------------------------------------------------------
(* The dial *)

\* A place of the dial for each value.
LEMMA PlaceType ==
    ASSUME NEW view \in Views, NEW value \in 0..59
    PROVE  PlaceOf(view, value) \in PlaceRecord
  <1>1. RingOf(view, value) \in {"inner", "outer", "none"}
    BY DEF RingOf
  <1>2. (IF view = "hours" THEN 5 * value ELSE value) % 60 \in 0..59
    OBVIOUS
  <1> QED BY <1>1, <1>2 DEF PlaceOf, Place, PlaceRecord

\* A value for each place.
LEMMA ValueType ==
    ASSUME NEW place \in PlaceRecord, NEW roundBy5 \in BOOLEAN
    PROVE  /\ ValueAt("hours", place, FALSE) \in 0..23
           /\ ValueAt("minutes", place, roundBy5) \in 0..59
  <1>1. place.angle \in 0..59
    BY DEF PlaceRecord
  <1>2. PICK v : v = Tick(place.angle)
    OBVIOUS
  <1>3. v \in 0..11
    BY <1>1, <1>2 DEF Tick
  <1>4. ValueAt("hours", place, FALSE) \in 0..23
    BY <1>2, <1>3 DEF ValueAt
  <1>5. ValueAt("minutes", place, roundBy5) \in 0..59
    BY <1>1, <1>2, <1>3 DEF ValueAt
  <1> QED BY <1>4, <1>5

\* The dial is read back as it is drawn: every hour, on two rings, and every
\* minute.
LEMMA HoursReadBack ==
    ASSUME NEW h \in 0..23
    PROVE  ValueAt("hours", PlaceOf("hours", h), FALSE) = h
  <1>1. PICK a : a = (5 * h) % 60
    OBVIOUS
  <1>2. PICK r : r = (IF h > 0 /\ h < 13 THEN "inner" ELSE "outer")
    OBVIOUS
  <1>3. PlaceOf("hours", h) = [angle |-> a, ring |-> r]
    BY <1>1, <1>2 DEF PlaceOf, Place, RingOf
  <1>4. PICK v : v = Tick(a)
    OBVIOUS
  <1>5. v = IF h < 12 THEN h ELSE h - 12
    <2>1. a = IF h < 12 THEN 5 * h ELSE 5 * (h - 12)
      BY <1>1
    <2>2. CASE h < 12
      <3>1. (2 * a + 5) \div 10 = h
        BY <2>1, <2>2
      <3> QED BY <1>4, <2>2, <3>1 DEF Tick
    <2>3. CASE h >= 12
      <3>1. (2 * a + 5) \div 10 = h - 12
        BY <2>1, <2>3
      <3> QED BY <1>4, <2>3, <3>1 DEF Tick
    <2> QED BY <2>2, <2>3
  <1>6. ValueAt("hours", [angle |-> a, ring |-> r], FALSE) =
          IF r = "inner" THEN IF v = 0 THEN 12 ELSE v ELSE IF v = 0 THEN 0 ELSE v + 12
    BY <1>4 DEF ValueAt
  <1>7. CASE h > 0 /\ h < 13
    <2>1. r = "inner"
      BY <1>2, <1>7
    <2>2. ValueAt("hours", PlaceOf("hours", h), FALSE) = IF v = 0 THEN 12 ELSE v
      BY <1>3, <1>6, <2>1
    <2>3. (IF v = 0 THEN 12 ELSE v) = h
      BY <1>5, <1>7
    <2> QED BY <2>2, <2>3
  <1>8. CASE ~(h > 0 /\ h < 13)
    <2>1. r # "inner"
      BY <1>2, <1>8
    <2>2. ValueAt("hours", PlaceOf("hours", h), FALSE) = IF v = 0 THEN 0 ELSE v + 12
      BY <1>3, <1>6, <2>1
    <2>3. (IF v = 0 THEN 0 ELSE v + 12) = h
      BY <1>5, <1>8
    <2> QED BY <2>2, <2>3
  <1> QED BY <1>7, <1>8

LEMMA MinutesReadBack ==
    ASSUME NEW m \in 0..59
    PROVE  ValueAt("minutes", PlaceOf("minutes", m), FALSE) = m
  BY DEF ValueAt, PlaceOf, Place

\* The hand set where it is changes nothing.
LEMMA SetHandRests ==
    ASSUME NEW p \in TimeRecord
    PROVE  SetHand(p, PlaceOf(p.currentView, ValueOf(p)), FALSE) = p
  <1>1. p.hours \in 0..23 /\ p.minutes \in 0..59 /\ p.currentView \in {"hours", "minutes"}
    BY DEF TimeRecord, Views
  <1>2. CASE p.currentView = "hours"
    <2>1. ValueAt("hours", PlaceOf(p.currentView, ValueOf(p)), FALSE) = p.hours
      BY <1>1, <1>2, HoursReadBack DEF ValueOf
    <2>2. SetHand(p, PlaceOf(p.currentView, ValueOf(p)), FALSE) = [p EXCEPT !.hours = p.hours]
      BY <1>2, <2>1 DEF SetHand
    <2> QED BY <2>2, Zenon DEF TimeRecord
  <1>3. CASE p.currentView = "minutes"
    <2>1. ValueAt("minutes", PlaceOf(p.currentView, ValueOf(p)), FALSE) = p.minutes
      BY <1>1, <1>3, MinutesReadBack DEF ValueOf
    <2>2. SetHand(p, PlaceOf(p.currentView, ValueOf(p)), FALSE) = [p EXCEPT !.minutes = p.minutes]
      BY <1>3, <2>1 DEF SetHand
    <2> QED BY <2>2, Zenon DEF TimeRecord
  <1> QED BY <1>1, <1>2, <1>3

\* The hand set anywhere gives a time, and leaves the rest.
LEMMA SetHandType ==
    ASSUME NEW p \in TimeRecord, NEW place \in PlaceRecord, NEW b \in BOOLEAN,
           NEW q, q = SetHand(p, place, b)
    PROVE  /\ q \in TimeRecord /\ q.isOpen = p.isOpen /\ q.currentView = p.currentView
           /\ q.visible = p.visible /\ q.hiding = p.hiding
           /\ q.soon = p.soon /\ q.later = p.later
           /\ q.press = p.press /\ q.done = p.done
  <1>1. CASE p.currentView = "hours"
    <2>1. PICK v \in 0..23 : q = [p EXCEPT !.hours = v]
      BY <1>1, ValueType DEF SetHand
    <2> QED BY ONLY <2>1, p \in TimeRecord, Zenon DEF TimeRecord
  <1>2. CASE p.currentView # "hours"
    <2>1. PICK v \in 0..59 : q = [p EXCEPT !.minutes = v]
      BY <1>2, ValueType DEF SetHand
    <2> QED BY ONLY <2>1, p \in TimeRecord, Zenon DEF TimeRecord
  <1> QED BY <1>1, <1>2

\* Movements touched stay movements.
LEMMA TouchedType ==
    ASSUME NEW hands \in Seq(HandRecord)
    PROVE  /\ Touched(hands) \in Seq(HandRecord)
           /\ \A i \in DOMAIN Touched(hands) : Touched(hands)[i].touched
  <1>1. \A i \in DOMAIN hands : hands[i] \in HandRecord
    OBVIOUS
  <1>2. \A i \in DOMAIN hands : /\ [hands[i] EXCEPT !.touched = TRUE] \in HandRecord
                                /\ [hands[i] EXCEPT !.touched = TRUE].touched
    BY <1>1, Zenon DEF HandRecord
  <1>3. PICK n \in Nat : DOMAIN hands = 1..n
    BY LenProperties
  <1>4. Touched(hands) \in [1..n -> HandRecord]
    BY <1>2, <1>3 DEF Touched
  <1>5. Touched(hands) \in Seq(HandRecord)
    BY <1>4, IsASeq
  <1> QED BY <1>2, <1>5 DEF Touched

\* A touch disturbs every movement that waits, and nothing else.
LEMMA TouchType ==
    ASSUME NEW p \in TimeRecord, NEW q, q = Touch(p)
    PROVE  /\ q \in TimeRecord /\ AllTouched(q) /\ SameFace(q, p)
           /\ q.press = p.press /\ q.done = p.done /\ q.moved = p.moved
  <1>1. p.soon \in Seq(HandRecord) /\ p.later \in Seq(HandRecord)
    BY DEF TimeRecord
  <1>2. PICK s : s = Touched(p.soon)
    OBVIOUS
  <1>3. PICK l : l = Touched(p.later)
    OBVIOUS
  <1>4. q = [p EXCEPT !.soon = s, !.later = l]
    BY <1>2, <1>3 DEF Touch
  <1>5. s \in Seq(HandRecord) /\ l \in Seq(HandRecord)
    BY <1>1, <1>2, <1>3, TouchedType
  <1>6. q \in TimeRecord
    BY ONLY <1>4, <1>5, p \in TimeRecord, Zenon DEF TimeRecord
  <1>7. q.soon = s /\ q.later = l
    BY ONLY <1>4, <1>5, p \in TimeRecord, Zenon DEF TimeRecord
  <1>8. /\ q.currentView = p.currentView /\ q.hours = p.hours /\ q.minutes = p.minutes
        /\ q.visible = p.visible /\ q.hiding = p.hiding /\ q.isOpen = p.isOpen
    BY ONLY <1>4, <1>5, p \in TimeRecord, Zenon DEF TimeRecord
  <1>9. q.press = p.press /\ q.done = p.done /\ q.moved = p.moved
    BY ONLY <1>4, <1>5, p \in TimeRecord, Zenon DEF TimeRecord
  <1>10. AllTouched(q)
    BY <1>1, <1>2, <1>3, <1>7, TouchedType DEF AllTouched
  <1> QED BY <1>6, <1>8, <1>9, <1>10 DEF SameFace

\* Where all movements were touched none is late.
LEMMA TouchedRest ==
    ASSUME NEW p, AllTouched(p)
    PROVE  HandsRest(p)
  BY DEF AllTouched, HandsRest, AtRest

\* The mouse sets the hand.
LEMMA MouseSound ==
    ASSUME NEW p, p \in TimeRecord, AllTouched(p), ViewStays(p),
           NEW place \in PlaceRecord, NEW b \in BOOLEAN, NEW q, q = SetHand(p, place, b)
    PROVE  /\ TimeSound(q) /\ AllTouched(q) /\ q.isOpen = p.isOpen
           /\ q.currentView = p.currentView /\ q.done = p.done
  <1>1. /\ q \in TimeRecord /\ q.isOpen = p.isOpen /\ q.currentView = p.currentView
        /\ q.visible = p.visible /\ q.hiding = p.hiding
        /\ q.soon = p.soon /\ q.later = p.later /\ q.done = p.done
    BY SetHandType
  <1>2. AllTouched(q) /\ ViewStays(q)
    BY <1>1 DEF AllTouched, ViewStays
  <1> QED BY <1>1, <1>2, TouchedRest DEF TimeSound

-----------------------------------------------------------------------------
(* What the user and the timers do to a time picker *)

\* A view is shown: the hand of the new view rests where its value is.
LEMMA ShowViewSound ==
    ASSUME NEW p \in TimeRecord, NEW view \in Views, NEW delay \in {"none", "soon", "later"},
           NEW q, q = ShowView(p, view, delay)
    PROVE  TimeSound(q) /\ q.isOpen = p.isOpen
  <1>1. PICK r : r = Touch(p)
    OBVIOUS
  <1>2. r \in TimeRecord /\ AllTouched(r) /\ SameFace(r, p)
    BY <1>1, TouchType
  <1>3. PICK w : w = r.visible \cup {view}
    OBVIOUS
  <1>4. PICK h : h = {Other(view)}
    OBVIOUS
  <1>5. w \in SUBSET Views /\ h \in SUBSET Views /\ view \in w /\ view \notin h
    <2>1. r.visible \in SUBSET Views
      BY <1>2 DEF TimeRecord
    <2> QED BY <1>3, <1>4, <2>1 DEF Other, Views
  <1>6. PICK u : u = [r EXCEPT !.currentView = view, !.visible = w, !.hiding = h]
    OBVIOUS
  <1>7. u \in TimeRecord
    BY ONLY <1>2, <1>5, <1>6, view \in Views, Zenon DEF TimeRecord
  <1>8. u.currentView = view /\ u.visible = w /\ u.hiding = h /\ u.isOpen = r.isOpen
    BY ONLY <1>2, <1>5, <1>6, view \in Views, Zenon DEF TimeRecord
  <1>9. u.soon = r.soon /\ u.later = r.later
    BY ONLY <1>2, <1>5, <1>6, view \in Views, Zenon DEF TimeRecord
  <1>10. AllTouched(u) /\ ViewStays(u) /\ u.isOpen = p.isOpen
    BY <1>2, <1>5, <1>8, <1>9 DEF AllTouched, ViewStays, SameFace
  <1>11. q = ResetClock(u, delay)
    BY <1>1, <1>3, <1>4, <1>6 DEF ShowView, HideLater
  <1>12. PICK place : place = PlaceOf(u.currentView, ValueOf(u))
    OBVIOUS
  <1>13. u.soon \in Seq(HandRecord) /\ u.later \in Seq(HandRecord)
    BY <1>7 DEF TimeRecord
  <1>14. PICK hand : hand = Hand(place, view)
    OBVIOUS
  <1>15. /\ hand \in HandRecord /\ hand.view = view /\ hand.place = place
    <2>1. u.hours \in 0..59 /\ u.minutes \in 0..59 /\ u.currentView \in Views
      BY <1>7 DEF TimeRecord
    <2>2. ValueOf(u) \in 0..59
      BY <2>1 DEF ValueOf
    <2>3. place \in PlaceRecord
      BY <1>12, <2>1, <2>2, PlaceType
    <2> QED BY <1>14, <2>3 DEF Hand, HandRecord
  <1>16. CASE delay = "none"
    <2>1. q = u
      BY <1>7, <1>11, <1>16, SetHandRests DEF ResetClock
    <2> QED BY <1>7, <1>10, <2>1, TouchedRest DEF TimeSound
  <1>17. CASE delay = "soon"
    <2>1. PICK s : s = Append(u.soon, hand)
      OBVIOUS
    <2>2. q = [u EXCEPT !.soon = s]
      BY <1>8, <1>11, <1>12, <1>14, <1>17, <2>1 DEF ResetClock
    <2>3. s \in Seq(HandRecord)
      BY <1>13, <1>15, <2>1
    <2>4. q \in TimeRecord /\ q.soon = s
      BY ONLY <1>7, <2>2, <2>3, Zenon DEF TimeRecord
    <2>5. /\ q.currentView = u.currentView /\ q.visible = u.visible /\ q.hiding = u.hiding
          /\ q.isOpen = u.isOpen
      BY ONLY <1>7, <2>2, <2>3, Zenon DEF TimeRecord
    <2>6. q.hours = u.hours /\ q.minutes = u.minutes /\ q.later = u.later
      BY ONLY <1>7, <2>2, <2>3, Zenon DEF TimeRecord
    <2>7. \A i \in DOMAIN s : s[i] = hand \/ s[i].touched
      BY <1>10, <1>13, <1>15, <2>1 DEF AllTouched
    <2>8. place = PlaceOf(q.currentView, ValueOf(q))
      BY <1>12, <2>5, <2>6 DEF ValueOf
    <2>9. HandsRest(q)
      BY <1>8, <1>10, <1>15, <2>4, <2>5, <2>6, <2>7, <2>8 DEF HandsRest, AtRest, AllTouched
    <2> QED BY <1>10, <2>4, <2>5, <2>9 DEF TimeSound, ViewStays
  <1>18. CASE delay = "later"
    <2>1. PICK s : s = Append(u.later, hand)
      OBVIOUS
    <2>2. q = [u EXCEPT !.later = s]
      BY <1>8, <1>11, <1>12, <1>14, <1>18, <2>1 DEF ResetClock
    <2>3. s \in Seq(HandRecord)
      BY <1>13, <1>15, <2>1
    <2>4. q \in TimeRecord /\ q.later = s
      BY ONLY <1>7, <2>2, <2>3, Zenon DEF TimeRecord
    <2>5. /\ q.currentView = u.currentView /\ q.visible = u.visible /\ q.hiding = u.hiding
          /\ q.isOpen = u.isOpen
      BY ONLY <1>7, <2>2, <2>3, Zenon DEF TimeRecord
    <2>6. q.hours = u.hours /\ q.minutes = u.minutes /\ q.soon = u.soon
      BY ONLY <1>7, <2>2, <2>3, Zenon DEF TimeRecord
    <2>7. \A i \in DOMAIN s : s[i] = hand \/ s[i].touched
      BY <1>10, <1>13, <1>15, <2>1 DEF AllTouched
    <2>8. place = PlaceOf(q.currentView, ValueOf(q))
      BY <1>12, <2>5, <2>6 DEF ValueOf
    <2>9. HandsRest(q)
      BY <1>8, <1>10, <1>15, <2>4, <2>5, <2>6, <2>7, <2>8 DEF HandsRest, AtRest, AllTouched
    <2> QED BY <1>10, <2>4, <2>5, <2>9 DEF TimeSound, ViewStays
  <1> QED BY <1>16, <1>17, <1>18

\* The flag of a picker goes down.
LEMMA TimeShutSound ==
    ASSUME NEW p, TimeSound(p), NEW q, q = [p EXCEPT !.isOpen = FALSE]
    PROVE  TimeSound(q) /\ ~q.isOpen /\ q.done = p.done
  <1>1. p \in TimeRecord
    BY DEF TimeSound
  <1>2. q \in TimeRecord /\ ~q.isOpen /\ q.done = p.done
    BY ONLY <1>1, q = [p EXCEPT !.isOpen = FALSE], Zenon DEF TimeRecord
  <1>3. /\ q.currentView = p.currentView /\ q.visible = p.visible /\ q.hiding = p.hiding
        /\ q.hours = p.hours /\ q.minutes = p.minutes
        /\ q.soon = p.soon /\ q.later = p.later
    BY ONLY <1>1, q = [p EXCEPT !.isOpen = FALSE], Zenon DEF TimeRecord
  <1> QED BY <1>2, <1>3 DEF TimeSound, ViewStays, HandsRest, AtRest, ValueOf

\* Both invariants of a time picker.
TimeInv == FlagsInv /\ TimesInv

\* A time picker is a modal, and no date picker.
LEMMA TimeIsModal ==
    ASSUME NEW t \in TimePickers
    PROVE  t \in Modals /\ (PickerOpen(t) <=> times[t].isOpen) /\ t \notin DatePickers
  BY PickersAssumption DEF PickerOpen

\* A picker is sound, and its values have their types.
LEMMA TimeIsSound ==
    ASSUME TimesInv, NEW t \in TimePickers
    PROVE  /\ TimeSound(times[t]) /\ times[t] \in TimeRecord
           /\ Time(times[t].hours, times[t].minutes) \in TimeTexts
  BY DEF TimesInv, TimeSound, TimeRecord, Time, TimeTexts

\* One time picker changes.
LEMMA TimeMoves ==
    ASSUME TimesInv, NEW t \in TimePickers, NEW u, TimeSound(u),
           times' = [times EXCEPT ![t] = u],
           timeField' \in [TimePickers -> TimeTexts \cup {NoTime}], UNCHANGED dateVars
    PROVE  /\ TimesInv' /\ (PickerOpen(t)' <=> u.isOpen) /\ OthersKeep(t)
  <1>1. u \in TimeRecord /\ HandsRest(u) /\ ViewStays(u)
    BY DEF TimeSound
  <1>2. times' \in [TimePickers -> TimeRecord] /\ times'[t] = u
        /\ \A e \in TimePickers \ {t} : times'[e] = times[e]
    BY <1>1 DEF TimesInv
  <1>3. \A e \in TimePickers : HandsRest(times'[e]) /\ ViewStays(times'[e])
    BY <1>1, <1>2 DEF TimesInv
  <1>4. TimesInv'
    BY <1>2, <1>3 DEF TimesInv, HandsRest, ViewStays, AtRest, ValueOf
  <1>5. dates' = dates
    BY DEF dateVars
  <1>6. PickerOpen(t)' <=> u.isOpen
    BY <1>2, TimeIsModal DEF PickerOpen
  <1>7. OthersKeep(t)
    BY <1>2, <1>5, PickersAssumption DEF OthersKeep, PickerOpen
  <1> QED BY <1>4, <1>6, <1>7

\* Nothing happens to the pickers.
LEMMA TimesStay ==
    ASSUME TimesInv, UNCHANGED times, timeField' \in [TimePickers -> TimeTexts \cup {NoTime}]
    PROVE  TimesInv'
  BY DEF TimesInv, HandsRest, ViewStays, AtRest, ValueOf

\* The picker is opened.
LEMMA OpenTimeStep ==
    ASSUME TimeInv, NEW t \in TimePickers, OpenTime(t), UNCHANGED dateVars
    PROVE  TimeInv'
  <1>1. t \in Modals /\ timeField' = timeField /\ dates' = dates
        /\ timeField' \in [TimePickers -> TimeTexts \cup {NoTime}]
    BY TimeIsModal DEF OpenTime, dateVars, TimeInv, TimesInv
  <1>2. CASE times[t].isOpen
    <2>1. UNCHANGED <<times, modalVars>>
      BY <1>2 DEF OpenTime
    <2>2. \A n \in Modals : PickerOpen(n)' = PickerOpen(n)
      BY <1>1, <2>1 DEF PickerOpen
    <2> QED BY <1>1, <2>1, <2>2, FlagsStay, TimesStay DEF TimeInv
  <1>3. CASE ~times[t].isOpen
    <2>1. PICK now \in (IF timeField[t] = NoTime THEN Now ELSE {timeField[t]}) :
             times' = [times EXCEPT ![t] =
                 ShowView([@ EXCEPT !.isOpen = TRUE, !.hours = now.hours,
                                    !.minutes = now.minutes], "hours", "none")]
      BY <1>3 DEF OpenTime
    <2>2. now \in TimeTexts
      BY <2>1, UserAssumption DEF TimeInv, TimesInv
    <2>3. now.hours \in 0..23 /\ now.minutes \in 0..59
      BY <2>2 DEF TimeTexts
    <2>4. PICK v : v = [times[t] EXCEPT !.isOpen = TRUE, !.hours = now.hours,
                                        !.minutes = now.minutes]
      OBVIOUS
    <2>5. times[t] \in TimeRecord
      BY TimeIsSound DEF TimeInv
    <2>6. v \in TimeRecord /\ v.isOpen
      BY ONLY <2>3, <2>4, <2>5, Zenon DEF TimeRecord
    <2>7. PICK u : u = ShowView(v, "hours", "none")
      OBVIOUS
    <2>8. TimeSound(u) /\ u.isOpen
      BY <2>6, <2>7, ShowViewSound DEF Views
    <2>9. times' = [times EXCEPT ![t] = u] /\ Open(t)
      BY <1>3, <2>1, <2>4, <2>7 DEF OpenTime
    <2>10. TimesInv' /\ PickerOpen(t)' /\ OthersKeep(t)
      BY <1>1, <2>8, <2>9, TimeMoves DEF TimeInv
    <2>11. FlagsInv'
      BY <1>1, <1>3, <2>9, <2>10, FlagsOpen, TimeIsModal DEF TimeInv
    <2> QED BY <2>10, <2>11 DEF TimeInv
  <1> QED BY <1>2, <1>3

\* The picker is closed.
LEMMA CloseTimeStep ==
    ASSUME TimeInv, NEW t \in TimePickers, NEW u, TimeSound(u), ~u.isOpen,
           times' = [times EXCEPT ![t] = u], CloseTime(t),
           timeField' \in [TimePickers -> TimeTexts \cup {NoTime}], UNCHANGED dateVars
    PROVE  TimeInv'
  <1>1. TimesInv' /\ ~PickerOpen(t)' /\ OthersKeep(t)
    BY TimeMoves DEF TimeInv
  <1>2. t \in Modals /\ (PickerOpen(t) <=> times[t].isOpen)
    BY TimeIsModal
  <1>3. IF PickerOpen(t) THEN Close({t}) ELSE UNCHANGED modalVars
    BY <1>2 DEF CloseTime
  <1>4. FlagsInv'
    BY <1>1, <1>2, <1>3, FlagsClose DEF TimeInv
  <1> QED BY <1>1, <1>4 DEF TimeInv

\* Cancel closes it.
LEMMA CancelTimeStep ==
    ASSUME TimeInv, NEW t \in TimePickers, CancelTime(t), UNCHANGED dateVars
    PROVE  TimeInv'
  <1>1. PICK u : u = [times[t] EXCEPT !.isOpen = FALSE]
    OBVIOUS
  <1>2. times' = [times EXCEPT ![t] = u] /\ CloseTime(t) /\ timeField' = timeField
    BY <1>1, Zenon DEF CancelTime
  <1>3. TimeSound(u) /\ ~u.isOpen
    BY <1>1, TimeIsSound, TimeShutSound DEF TimeInv
  <1> QED BY <1>2, <1>3, CloseTimeStep DEF TimeInv, TimesInv

\* done() writes a time.
LEMMA DoneWrites ==
    ASSUME TimesInv, NEW t \in TimePickers, Done(t)
    PROVE  CloseTime(t) /\ timeField' \in [TimePickers -> TimeTexts \cup {NoTime}]
  BY TimeIsSound DEF Done, TimesInv

\* Ok.
LEMMA PressOkTimeStep ==
    ASSUME TimeInv, NEW t \in TimePickers, PressOkTime(t), UNCHANGED dateVars
    PROVE  TimeInv'
  <1>1. PICK u : u = [times[t] EXCEPT !.isOpen = FALSE]
    OBVIOUS
  <1>2. times' = [times EXCEPT ![t] = u] /\ Done(t)
    BY <1>1, Zenon DEF PressOkTime
  <1>3. TimeSound(u) /\ ~u.isOpen
    BY <1>1, TimeIsSound, TimeShutSound DEF TimeInv
  <1> QED BY <1>2, <1>3, DoneWrites, CloseTimeStep DEF TimeInv

\* The timer of done() fires.
LEMMA DoneFiresStep ==
    ASSUME TimeInv, NEW t \in TimePickers, DoneFires(t), UNCHANGED dateVars
    PROVE  TimeInv'
  <1>1. PICK v : v = [times[t] EXCEPT !.isOpen = FALSE]
    OBVIOUS
  <1>2. PICK n : n = times[t].done - 1
    OBVIOUS
  <1>3. PICK u : u = [v EXCEPT !.done = n]
    OBVIOUS
  <1>4. TimeSound(v) /\ ~v.isOpen /\ times[t] \in TimeRecord
    BY <1>1, TimeIsSound, TimeShutSound DEF TimeInv
  <1>5. times' = [times EXCEPT ![t] = u] /\ Done(t)
    <2>1. times' = [times EXCEPT ![t].isOpen = FALSE, ![t].done = @ - 1]
      BY DEF DoneFires
    <2>2. times' = [times EXCEPT ![t] = u]
      BY ONLY <1>1, <1>2, <1>3, <1>4, <2>1, t \in TimePickers, TimeInv, Zenon
         DEF TimeInv, TimesInv, TimeRecord
    <2> QED BY <2>2 DEF DoneFires
  <1>6. n \in 0..MaxTimers
    <2>1. times[t].done \in 0..MaxTimers /\ times[t].done > 0
      BY <1>4 DEF DoneFires, TimeRecord
    <2> QED BY <1>2, <2>1, UserAssumption
  <1>7. TimeSound(u) /\ ~u.isOpen
    <2>1. v \in TimeRecord
      BY <1>4 DEF TimeSound
    <2>2. u \in TimeRecord /\ u.isOpen = v.isOpen
      BY ONLY <1>3, <1>6, <2>1, Zenon DEF TimeRecord
    <2>3. /\ u.currentView = v.currentView /\ u.visible = v.visible /\ u.hiding = v.hiding
          /\ u.hours = v.hours /\ u.minutes = v.minutes
          /\ u.soon = v.soon /\ u.later = v.later
      BY ONLY <1>3, <1>6, <2>1, Zenon DEF TimeRecord
    <2> QED BY <1>4, <2>2, <2>3 DEF TimeSound, ViewStays, HandsRest, AtRest, ValueOf
  <1> QED BY <1>5, <1>7, DoneWrites, CloseTimeStep DEF TimeInv

\* The picker neither opens nor closes.
LEMMA TimeStayStep ==
    ASSUME TimeInv, NEW t \in TimePickers, NEW u, TimeSound(u), u.isOpen = times[t].isOpen,
           times' = [times EXCEPT ![t] = u], UNCHANGED modalVars,
           timeField' \in [TimePickers -> TimeTexts \cup {NoTime}], UNCHANGED dateVars
    PROVE  TimeInv'
  <1>1. TimesInv' /\ (PickerOpen(t)' <=> u.isOpen) /\ OthersKeep(t)
    BY TimeMoves DEF TimeInv
  <1>2. PickerOpen(t)' = PickerOpen(t)
    BY <1>1, TimeIsModal DEF PickerOpen
  <1>3. \A n \in Modals : PickerOpen(n)' = PickerOpen(n)
    BY <1>1, <1>2 DEF OthersKeep
  <1>4. FlagsInv'
    BY <1>3, FlagsStay DEF TimeInv
  <1> QED BY <1>1, <1>4 DEF TimeInv

\* The mouse goes down or moves.
LEMMA MouseStep ==
    ASSUME TimeInv, NEW t \in TimePickers, NEW place \in Places,
           Press(t, place) \/ Drag(t, place), UNCHANGED dateVars
    PROVE  TimeInv'
  <1>1. times[t] \in TimeRecord /\ TimeSound(times[t])
    BY TimeIsSound DEF TimeInv
  <1>2. PICK r : r = Touch(times[t])
    OBVIOUS
  <1>3. r \in TimeRecord /\ AllTouched(r) /\ SameFace(r, times[t])
    BY <1>1, <1>2, TouchType
  <1>4. place \in PlaceRecord
    BY UserAssumption DEF PlaceRecord
  <1>5. PICK v, b : /\ b \in BOOLEAN
                    /\ \/ v = [r EXCEPT !.press = place, !.moved = FALSE]
                       \/ v = [r EXCEPT !.moved = TRUE]
                    /\ times' = [times EXCEPT ![t] = SetHand(v, place, b)]
                    /\ UNCHANGED <<timeField, modalVars>>
    <2>1. CASE Press(t, place)
      <3>1. /\ times' = [times EXCEPT ![t] =
                   SetHand([r EXCEPT !.press = place, !.moved = FALSE], place, FALSE)]
            /\ UNCHANGED <<timeField, modalVars>>
        BY <1>2, <2>1 DEF Press
      <3> QED BY <3>1
    <2>2. CASE Drag(t, place)
      <3>1. /\ times' = [times EXCEPT ![t] = SetHand([r EXCEPT !.moved = TRUE], place, TRUE)]
            /\ UNCHANGED <<timeField, modalVars>>
        BY <1>2, <2>2 DEF Drag
      <3> QED BY <3>1
    <2> QED BY <2>1, <2>2
  <1>6. v \in TimeRecord /\ v.soon = r.soon /\ v.later = r.later
    BY ONLY <1>3, <1>4, <1>5, Zenon DEF TimeRecord
  <1>7. v.currentView = r.currentView /\ v.visible = r.visible /\ v.hiding = r.hiding
        /\ v.isOpen = r.isOpen
    BY ONLY <1>3, <1>4, <1>5, Zenon DEF TimeRecord
  <1>8. AllTouched(v) /\ ViewStays(v) /\ v.isOpen = times[t].isOpen
    BY <1>1, <1>3, <1>6, <1>7 DEF AllTouched, ViewStays, SameFace, TimeSound
  <1>9. PICK u : u = SetHand(v, place, b)
    OBVIOUS
  <1>10. TimeSound(u) /\ u.isOpen = times[t].isOpen
    BY <1>4, <1>5, <1>6, <1>8, <1>9, MouseSound
  <1> QED BY <1>5, <1>9, <1>10, TimeStayStep DEF TimeInv, TimesInv

\* What the mouse that goes up leaves.
LEMMA DroppedSound ==
    ASSUME NEW p, TimeSound(p), NEW back \in BOOLEAN, NEW q, q = Dropped(p, back)
    PROVE  /\ TimeSound(q) /\ q.isOpen = p.isOpen
           /\ q.currentView = p.currentView /\ q.done = p.done
  <1>1. p \in TimeRecord
    BY DEF TimeSound
  <1>2. PICK r : r = Touch(p)
    OBVIOUS
  <1>3. r \in TimeRecord /\ AllTouched(r) /\ SameFace(r, p) /\ r.done = p.done
    BY <1>1, <1>2, TouchType
  <1>4. PICK v : v = [r EXCEPT !.press = Up]
    OBVIOUS
  <1>5. Up \in PlaceRecord
    BY DEF Up, Place, PlaceRecord
  <1>6. v \in TimeRecord /\ v.soon = r.soon /\ v.later = r.later /\ v.done = r.done
    BY ONLY <1>3, <1>4, <1>5, Zenon DEF TimeRecord
  <1>7. v.currentView = r.currentView /\ v.visible = r.visible /\ v.hiding = r.hiding
        /\ v.isOpen = r.isOpen
    BY ONLY <1>3, <1>4, <1>5, Zenon DEF TimeRecord
  <1>8. /\ AllTouched(v) /\ ViewStays(v) /\ v.isOpen = p.isOpen
        /\ v.currentView = p.currentView /\ v.done = p.done
    BY <1>3, <1>6, <1>7 DEF AllTouched, ViewStays, SameFace, TimeSound
  <1>9. q = SetHand(v, p.press, FALSE) \/ q = v
    BY <1>2, <1>4 DEF Dropped
  <1>10. p.press \in PlaceRecord
    BY <1>1 DEF TimeRecord
  <1>11. CASE q = v
    <2>1. TimeSound(v)
      BY <1>6, <1>8, TouchedRest DEF TimeSound
    <2> QED BY <1>8, <1>11, <2>1
  <1>12. CASE q = SetHand(v, p.press, FALSE)
    <2>1. PICK b \in BOOLEAN : b = FALSE
      OBVIOUS
    <2>2. q = SetHand(v, p.press, b)
      BY <1>12, <2>1
    <2>3. TimeSound(q) /\ q.isOpen = v.isOpen
          /\ q.currentView = v.currentView /\ q.done = v.done
      BY <1>6, <1>8, <1>10, <2>2, MouseSound
    <2> QED BY <1>8, <2>3
  <1> QED BY <1>9, <1>11, <1>12

\* The mouse goes up.
LEMMA ReleaseStep ==
    ASSUME TimeInv, NEW t \in TimePickers, NEW back \in BOOLEAN,
           Release(t, back), timeField' = StartsTime(t, back), UNCHANGED dateVars
    PROVE  TimeInv'
  <1>1. TimeSound(times[t])
    BY TimeIsSound DEF TimeInv
  <1>2. PICK q : q = Dropped(times[t], back)
    OBVIOUS
  <1>3. /\ TimeSound(q) /\ q.isOpen = times[t].isOpen
        /\ q.currentView = times[t].currentView /\ q.done = times[t].done
    BY <1>1, <1>2, DroppedSound
  <1>4. q \in TimeRecord
    BY <1>3 DEF TimeSound
  <1>5. PICK u : u = Released(q)
    OBVIOUS
  <1>6. times' = [times EXCEPT ![t] = u] /\ UNCHANGED modalVars
    BY <1>2, <1>5 DEF Release
  <1>7. TimeSound(u) /\ u.isOpen = times[t].isOpen
    <2>1. CASE q.currentView = "hours"
      <3>1. u = ShowView(q, "minutes", "later")
        BY <1>5, <2>1 DEF Released
      <3> QED BY <1>3, <1>4, <3>1, ShowViewSound DEF Views
    <2>2. CASE q.currentView # "hours"
      <3>1. PICK n : n = q.done + 1
        OBVIOUS
      <3>2. u = [q EXCEPT !.done = n]
        BY <1>5, <2>2, <3>1 DEF Released
      <3>3. n \in 0..MaxTimers
        <4>1. q.done < MaxTimers
          BY <1>3, <2>2 DEF Release
        <4>2. q.done \in 0..MaxTimers
          BY <1>4 DEF TimeRecord
        <4> QED BY <3>1, <4>1, <4>2, UserAssumption
      <3>4. u \in TimeRecord /\ u.isOpen = q.isOpen
        BY ONLY <1>4, <3>2, <3>3, Zenon DEF TimeRecord
      <3>5. /\ u.currentView = q.currentView /\ u.visible = q.visible /\ u.hiding = q.hiding
            /\ u.hours = q.hours /\ u.minutes = q.minutes
            /\ u.soon = q.soon /\ u.later = q.later
        BY ONLY <1>4, <3>2, <3>3, Zenon DEF TimeRecord
      <3> QED BY <1>3, <3>4, <3>5 DEF TimeSound, ViewStays, HandsRest, AtRest, ValueOf
    <2> QED BY <2>1, <2>2
  <1>8. timeField' \in [TimePickers -> TimeTexts \cup {NoTime}]
    <2>1. TimeSoFar(t, back) \in TimeTexts
      BY <1>2, <1>4 DEF TimeSoFar, TimeRecord, Time, TimeTexts
    <2>2. TwoHoursLater(TimeSoFar(t, back)) \in TimeTexts
      <3>1. PICK s \in TimeTexts : s = TimeSoFar(t, back)
        BY <2>1
      <3>2. (s.hours + 2) % 24 \in 0..23 /\ s.minutes \in 0..59
        BY DEF TimeTexts
      <3> QED BY <3>1, <3>2 DEF TwoHoursLater, Time, TimeTexts
    <2>3. timeField \in [TimePickers -> TimeTexts \cup {NoTime}] /\ EndTime \in TimePickers
      BY PickersAssumption DEF TimeInv, TimesInv
    <2>4. PICK s : timeField' = [timeField EXCEPT ![EndTime] = s]
                   /\ s \in TimeTexts \cup {NoTime}
      BY <2>2, <2>3 DEF StartsTime
    <2> QED BY <2>3, <2>4
  <1> QED BY <1>6, <1>7, <1>8, TimeStayStep

\* A view is clicked.
LEMMA ClickViewStep ==
    ASSUME TimeInv, NEW t \in TimePickers, NEW view \in Views,
           ClickView(t, view), UNCHANGED dateVars
    PROVE  TimeInv'
  <1>1. PICK u : u = ShowView(times[t], view, "soon")
    OBVIOUS
  <1>2. times' = [times EXCEPT ![t] = u] /\ UNCHANGED <<timeField, modalVars>>
    BY <1>1 DEF ClickView
  <1>3. TimeSound(u) /\ u.isOpen = times[t].isOpen
    BY <1>1, TimeIsSound, ShowViewSound DEF TimeInv
  <1> QED BY <1>2, <1>3, TimeStayStep DEF TimeInv, TimesInv

\* A hand movement that fires is harmless, or disturbs the others.
LEMMA HandMovesSound ==
    ASSUME NEW p, TimeSound(p), NEW hand \in HandRecord, AtRest(p, hand)
    PROVE  TimeSound(HandMoves(p, hand)) /\ HandMoves(p, hand).isOpen = p.isOpen
  <1>1. p \in TimeRecord /\ hand.place \in PlaceRecord /\ hand.touched \in BOOLEAN
    BY DEF TimeSound, HandRecord
  <1>2. CASE hand.touched
    <2>1. PICK r : r = Touch(p)
      OBVIOUS
    <2>2. r \in TimeRecord /\ AllTouched(r) /\ SameFace(r, p)
      BY <1>1, <2>1, TouchType
    <2>3. ViewStays(r) /\ r.isOpen = p.isOpen
      BY <2>2 DEF SameFace, TimeSound, ViewStays
    <2>4. HandMoves(p, hand) = SetHand(r, hand.place, FALSE)
      BY <1>2, <2>1 DEF HandMoves
    <2>5. PICK q : q = HandMoves(p, hand)
      OBVIOUS
    <2>6. PICK b \in BOOLEAN : b = FALSE
      OBVIOUS
    <2>7. q = SetHand(r, hand.place, b)
      BY ONLY <2>4, <2>5, <2>6
    <2>8. TimeSound(q) /\ q.isOpen = r.isOpen
      BY ONLY <1>1, <2>2, <2>3, <2>7, MouseSound
    <2> QED BY ONLY <2>3, <2>5, <2>8
  <1>3. CASE ~hand.touched
    <2>1. hand.place = PlaceOf(p.currentView, ValueOf(p))
      BY <1>3 DEF AtRest
    <2>2. HandMoves(p, hand) = p
      BY <1>1, <1>3, <2>1, SetHandRests DEF HandMoves
    <2> QED BY <2>2
  <1> QED BY <1>1, <1>2, <1>3

\* The first movement leaves its list.
LEMMA TailRests ==
    ASSUME NEW p, TimeSound(p), NEW hands \in {p.soon, p.later}, hands # <<>>
    PROVE  /\ Head(hands) \in HandRecord /\ AtRest(p, Head(hands))
           /\ Tail(hands) \in Seq(HandRecord)
           /\ \A i \in DOMAIN Tail(hands) : AtRest(p, Tail(hands)[i])
  <1>1. hands \in Seq(HandRecord) /\ \A i \in DOMAIN hands : AtRest(p, hands[i])
    BY DEF TimeSound, TimeRecord, HandsRest
  <1>2. Head(hands) = hands[1] /\ 1 \in DOMAIN hands
    BY <1>1
  <1>3. Tail(hands) \in Seq(HandRecord) /\ Len(Tail(hands)) = Len(hands) - 1
        /\ \A i \in 1..(Len(hands) - 1) : Tail(hands)[i] = hands[i + 1]
    BY <1>1, HeadTailProperties
  <1>4. \A i \in DOMAIN Tail(hands) : i + 1 \in DOMAIN hands /\ Tail(hands)[i] = hands[i + 1]
    BY <1>1, <1>3
  <1> QED BY <1>1, <1>2, <1>3, <1>4

\* A movement leaves its list and fires.
LEMMA FiredSound ==
    ASSUME NEW p, TimeSound(p), NEW hands \in {p.soon, p.later}, hands # <<>>, NEW q,
           \/ hands = p.soon /\ q = [p EXCEPT !.soon = Tail(hands)]
           \/ hands = p.later /\ q = [p EXCEPT !.later = Tail(hands)]
    PROVE  TimeSound(HandMoves(q, Head(hands))) /\ HandMoves(q, Head(hands)).isOpen = p.isOpen
  <1>1. PICK s : s = Tail(hands)
    OBVIOUS
  <1>2. p \in TimeRecord /\ (\/ q = [p EXCEPT !.soon = s] \/ q = [p EXCEPT !.later = s])
    BY <1>1 DEF TimeSound
  <1>3. /\ Head(hands) \in HandRecord /\ AtRest(p, Head(hands)) /\ s \in Seq(HandRecord)
        /\ \A i \in DOMAIN s : AtRest(p, s[i])
    BY <1>1, TailRests
  <1>4. /\ q \in TimeRecord /\ q.isOpen = p.isOpen /\ q.currentView = p.currentView
        /\ q.visible = p.visible /\ q.hiding = p.hiding
    <2>1. CASE q = [p EXCEPT !.soon = s]
      BY ONLY <1>2, <1>3, <2>1, Zenon DEF TimeRecord
    <2>2. CASE q = [p EXCEPT !.later = s]
      BY ONLY <1>2, <1>3, <2>2, Zenon DEF TimeRecord
    <2> QED BY ONLY <1>2, <2>1, <2>2
  <1>5. /\ q.hours = p.hours /\ q.minutes = p.minutes
        /\ \/ q.soon = s /\ q.later = p.later
           \/ q.soon = p.soon /\ q.later = s
    BY ONLY <1>2, <1>3, Zenon DEF TimeRecord
  <1>6. \A hand : AtRest(p, hand) => AtRest(q, hand)
    BY <1>4, <1>5 DEF AtRest, ValueOf
  <1>7. HandsRest(q)
    BY <1>3, <1>5, <1>6 DEF HandsRest, TimeSound
  <1>8. ViewStays(q)
    BY <1>4 DEF ViewStays, TimeSound
  <1>9. TimeSound(q) /\ AtRest(q, Head(hands))
    BY <1>3, <1>4, <1>6, <1>7, <1>8 DEF TimeSound
  <1> QED BY <1>3, <1>4, <1>9, HandMovesSound

\* A hand movement fires.
LEMMA HandFiresStep ==
    ASSUME TimeInv, NEW t \in TimePickers, HandFires(t), UNCHANGED dateVars
    PROVE  TimeInv'
  <1> DEFINE p == times[t]
  <1>1. TimeSound(p) /\ p \in TimeRecord /\ UNCHANGED <<timeField, modalVars>>
    BY TimeIsSound DEF TimeInv, HandFires
  <1>2. \/ /\ p.soon # <<>>
           /\ times' = [times EXCEPT ![t] = HandMoves([p EXCEPT !.soon = Tail(p.soon)], Head(p.soon))]
        \/ /\ p.later # <<>>
           /\ times' = [times EXCEPT ![t] = HandMoves([p EXCEPT !.later = Tail(p.later)], Head(p.later))]
    BY DEF HandFires
  <1>3. PICK u : times' = [times EXCEPT ![t] = u] /\ TimeSound(u) /\ u.isOpen = p.isOpen
    <2>1. CASE p.soon # <<>> /\ times' = [times EXCEPT ![t] =
                  HandMoves([p EXCEPT !.soon = Tail(p.soon)], Head(p.soon))]
      BY <1>1, <2>1, FiredSound
    <2>2. CASE p.later # <<>> /\ times' = [times EXCEPT ![t] =
                  HandMoves([p EXCEPT !.later = Tail(p.later)], Head(p.later))]
      BY <1>1, <2>2, FiredSound
    <2> QED BY <1>2, <2>1, <2>2
  <1> QED BY <1>1, <1>3, TimeStayStep DEF TimeInv, TimesInv

\* A view is hidden: not the one in use.
LEMMA HideFiresStep ==
    ASSUME TimeInv, NEW t \in TimePickers, HideFires(t), UNCHANGED dateVars
    PROVE  TimeInv'
  <1> DEFINE p == times[t]
  <1>1. TimeSound(p) /\ p \in TimeRecord /\ UNCHANGED <<timeField, modalVars>>
    BY TimeIsSound DEF TimeInv, HideFires
  <1>2. PICK view \in p.hiding :
           times' = [times EXCEPT ![t].hiding = p.hiding \ {view}, ![t].visible = p.visible \ {view}]
    BY DEF HideFires
  <1>3. PICK h, w : h = p.hiding \ {view} /\ w = p.visible \ {view}
    OBVIOUS
  <1>4. PICK u : u = [p EXCEPT !.hiding = h, !.visible = w]
    OBVIOUS
  <1>5. times' = [times EXCEPT ![t] = u]
    <2>1. times' = [times EXCEPT ![t].hiding = h, ![t].visible = w]
      BY <1>2, <1>3
    <2> QED BY ONLY <1>1, <1>4, <2>1, TimeInv, t \in TimePickers, Zenon
            DEF TimeInv, TimesInv, TimeRecord
  <1> HIDE DEF p
  <1>6. h \in SUBSET Views /\ w \in SUBSET Views /\ view \in Views
    BY <1>1, <1>2, <1>3 DEF TimeRecord
  <1>7. u \in TimeRecord /\ u.isOpen = p.isOpen /\ u.hiding = h /\ u.visible = w
    BY ONLY <1>1, <1>4, <1>6, Zenon DEF TimeRecord
  <1>8. u.currentView = p.currentView /\ u.hours = p.hours /\ u.minutes = p.minutes
        /\ u.soon = p.soon /\ u.later = p.later
    BY ONLY <1>1, <1>4, <1>6, Zenon DEF TimeRecord
  <1>9. TimeSound(u)
    <2>1. view # p.currentView
      BY <1>1, <1>2 DEF TimeSound, ViewStays
    <2>2. ViewStays(u)
      BY <1>1, <1>3, <1>7, <1>8, <2>1 DEF TimeSound, ViewStays
    <2>3. HandsRest(u)
      BY <1>1, <1>8 DEF TimeSound, HandsRest, AtRest, ValueOf
    <2> QED BY <1>7, <2>2, <2>3 DEF TimeSound
  <1> QED BY <1>1, <1>5, <1>7, <1>9, TimeStayStep DEF TimeInv, TimesInv, p

\* A text is typed.
LEMMA TypeTimeStep ==
    ASSUME TimeInv, NEW t \in TimePickers, NEW text \in Times \cup {NoTime},
           TypeTime(t, text), UNCHANGED dateVars
    PROVE  TimeInv'
  <1>1. /\ timeField' = [timeField EXCEPT ![t] = text]
        /\ times' = times /\ UNCHANGED modalVars /\ dates' = dates
    BY DEF TypeTime, dateVars
  <1>2. text \in TimeTexts \cup {NoTime}
    BY UserAssumption
  <1>3. timeField' \in [TimePickers -> TimeTexts \cup {NoTime}]
    BY <1>1, <1>2 DEF TimeInv, TimesInv
  <1>4. \A n \in Modals : PickerOpen(n)' = PickerOpen(n)
    BY <1>1 DEF PickerOpen
  <1> QED BY <1>1, <1>3, <1>4, FlagsStay, TimesStay DEF TimeInv

\* The closing animation of the picker's modal ends.
LEMMA TimeShutStep ==
    ASSUME TimeInv, NEW t \in TimePickers, TimeShut(t), UNCHANGED dateVars
    PROVE  TimeInv'
  <1>1. PICK u : u = [times[t] EXCEPT !.isOpen = FALSE]
    OBVIOUS
  <1>2. times' = [times EXCEPT ![t] = u] /\ CloseEnds(t) /\ timeField' = timeField
    BY <1>1, Zenon DEF TimeShut
  <1>3. TimeSound(u) /\ ~u.isOpen
    BY <1>1, TimeIsSound, TimeShutSound DEF TimeInv
  <1>4. TimesInv' /\ ~PickerOpen(t)' /\ OthersKeep(t)
    BY <1>2, <1>3, TimeMoves DEF TimeInv, TimesInv
  <1>5. FlagsInv'
    BY <1>2, <1>4, FlagsShut, TimeIsModal DEF TimeInv
  <1> QED BY <1>4, <1>5 DEF TimeInv

-----------------------------------------------------------------------------
(* The fields of the form *)

\* The start date the picker keeps, whether its text was typed, the texts of the
\* start and of the end, and whether the end was changed by hand: the end is the
\* start chosen last, and Ok would write what stands there; as long as no start
\* was chosen the order is that of the dates the page was served with.
Follows(date, typed, text, end, hand) ==
    /\ date # NoDate /\ ~typed => text = date
    /\ date # NoDate /\ ~hand => end = date
    /\ date # NoDate /\ typed /\ ~West /\ text # NoDate => text = date
    /\ date = NoDate /\ ~hand /\ text # NoDate /\ end # NoDate => Ordinal(text) <= Ordinal(end)

FollowInv ==
    Follows(dates[StartDate].date, dates[StartDate].typed,
            dateField[StartDate], dateField[EndDate], edited)

\* The days of a date are counted.
LEMMA OrdinalType ==
    ASSUME NEW dt \in DateTexts
    PROVE  Ordinal(dt) \in Int
  <1>1. dt.year \in Int /\ dt.month \in 0..11 /\ dt.day \in 1..31
    BY DEF DateTexts
  <1>2. PICK y \in Int : y = IF dt.month < 2 THEN dt.year - 1 ELSE dt.year
    BY <1>1
  <1>3. PICK m \in Int : m = (dt.month + 10) % 12
    BY <1>1
  <1>4. Ordinal(dt) = 365 * y + y \div 4 - y \div 100 + y \div 400
                        + (153 * m + 2) \div 5 + dt.day - 1
    BY <1>2, <1>3 DEF Ordinal
  <1> QED BY <1>1, <1>4

\* What the invariant says to the user.
LEMMA FollowsMeans ==
    ASSUME DatesInv, FollowInv
    PROVE  FieldsFollow
  <1>1. /\ StartDate \in DatePickers /\ EndDate \in DatePickers
        /\ \A d \in DatePickers \ {EndDate} : d = StartDate
    BY PickersAssumption
  <1>2. OkKeepsText
    BY <1>1 DEF OkKeepsText, FollowInv, Follows
  <1>3. EndNotBeforeStart
    <2> SUFFICES ASSUME ~edited, ~(West /\ dates[StartDate].typed),
                        dateField[StartDate] # NoDate, dateField[EndDate] # NoDate
                 PROVE  Ordinal(dateField[StartDate]) <= Ordinal(dateField[EndDate])
      BY DEF EndNotBeforeStart
    <2>1. CASE dates[StartDate].date = NoDate
      BY <2>1 DEF FollowInv, Follows
    <2>2. CASE dates[StartDate].date # NoDate
      <3>1. dateField[StartDate] = dates[StartDate].date
            /\ dateField[EndDate] = dates[StartDate].date
        BY <2>2 DEF FollowInv, Follows
      <3>2. dateField[StartDate] \in DateTexts
        BY <1>1 DEF DatesInv, DateOrNone
      <3>3. Ordinal(dateField[StartDate]) \in Int
        BY <3>2, OrdinalType
      <3> QED BY <3>1, <3>3
    <2> QED BY <2>1, <2>2
  <1> QED BY <1>2, <1>3 DEF FieldsFollow

\* Where neither the date, nor how it came about, nor the fields change, the
\* fields follow as before.
LEMMA KeptFollows ==
    ASSUME FollowInv, NEW d \in DatePickers, DateKept(d), edited' = edited
    PROVE  FollowInv'
  <1>1. /\ dates'[StartDate].date = dates[StartDate].date
        /\ dates'[StartDate].typed = dates[StartDate].typed
    BY PickersAssumption DEF DateKept, Alone
  <1>2. dateField' = dateField
    BY DEF DateKept
  <1> QED BY <1>1, <1>2 DEF FollowInv

\* A field that is filled.
LEMMA FilledAt ==
    ASSUME NEW fields, NEW pickers, NEW date, NEW d \in DatePickers
    PROVE  Filled(fields, pickers, date)[d] = IF d \in pickers THEN date ELSE fields[d]
  BY DEF Filled

\* A day is picked.
LEMMA PickDayFollows ==
    ASSUME DateInv, FollowInv, NEW d \in DatePickers, PickDay(d), UNCHANGED timeVars
    PROVE  DateInv' /\ FollowInv'
  <1>1. PICK day \in Days : ClickDay(d, day, StartsDate(d)) /\ edited' = (d # StartDate)
    BY DEF PickDay
  <1>2. /\ DateInv' /\ Alone(d)
        /\ dates'[d].date \in DateTexts /\ dates'[d].typed = FALSE
        /\ dateField' = Filled(dateField, {d} \cup StartsDate(d), dates'[d].date)
    BY <1>1, ClickDayStep
  <1>3. StartDate \in DatePickers /\ EndDate \in DatePickers /\ StartDate # EndDate
    BY PickersAssumption
  <1>4. CASE d = StartDate
    <2>1. dateField'[StartDate] = dates'[d].date /\ dateField'[EndDate] = dates'[d].date
      BY <1>2, <1>3, <1>4, FilledAt DEF StartsDate
    <2>2. dates'[d].date # NoDate
      BY <1>2, DateIsSome
    <2> QED BY <1>2, <1>4, <2>1, <2>2 DEF FollowInv, Follows
  <1>5. CASE d # StartDate
    <2>1. dates'[StartDate] = dates[StartDate] /\ edited'
      BY <1>1, <1>2, <1>3, <1>5 DEF Alone
    <2>2. dateField'[StartDate] = dateField[StartDate]
      BY <1>2, <1>3, <1>5, FilledAt DEF StartsDate
    <2> QED BY <1>2, <2>1, <2>2 DEF FollowInv, Follows
  <1> QED BY <1>4, <1>5

\* A date is typed.
LEMMA EnterDateFollows ==
    ASSUME DateInv, FollowInv, NEW d \in DatePickers, EnterDate(d), UNCHANGED timeVars
    PROVE  DateInv' /\ FollowInv'
  <1>1. PICK text \in Dates \cup {NoDate} :
           /\ TypeDate(d, text, StartsDate(d))
           /\ edited' = (d # StartDate \/ (edited /\ text = NoDate))
    BY DEF EnterDate
  <1>2. text \in DateOrNone
    BY UserAssumption DEF DateOrNone
  <1>3. /\ DateInv' /\ Alone(d) /\ dates'[d].typed = TRUE
        /\ text = NoDate => /\ dates'[d].date = dates[d].date
                            /\ dateField' = [dateField EXCEPT ![d] = text]
        /\ text # NoDate => /\ dates'[d].date = Parsed(text)
                            /\ dateField' = Filled([dateField EXCEPT ![d] = text],
                                                   StartsDate(d), Parsed(text))
    BY <1>1, <1>2, TypeDateStep
  <1>4. StartDate \in DatePickers /\ EndDate \in DatePickers /\ StartDate # EndDate
        /\ dateField \in [DatePickers -> DateOrNone]
    BY PickersAssumption DEF DateInv, DatesInv
  <1>5. CASE d = StartDate /\ text = NoDate
    <2>1. dateField'[StartDate] = NoDate /\ dateField'[EndDate] = dateField[EndDate]
      BY <1>3, <1>4, <1>5
    <2>2. dates'[StartDate].date = dates[StartDate].date /\ dates'[StartDate].typed = TRUE
      BY <1>3, <1>5
    <2>3. edited' <=> edited
      BY <1>1, <1>5
    <2> QED BY <1>3, <2>1, <2>2, <2>3 DEF FollowInv, Follows
  <1>6. CASE d = StartDate /\ text # NoDate
    <2>1. dateField'[StartDate] = text /\ dateField'[EndDate] = Parsed(text)
      <3>1. PICK fields : fields = [dateField EXCEPT ![d] = text]
        OBVIOUS
      <3>2. dateField' = Filled(fields, {EndDate}, Parsed(text)) /\ fields[StartDate] = text
        BY <1>3, <1>4, <1>6, <3>1 DEF StartsDate
      <3> QED BY <1>4, <3>2, FilledAt
    <2>2. Parsed(text) # NoDate /\ (~West => Parsed(text) = text)
      BY <1>2, <1>6, ParsedType, DateIsSome DEF DateOrNone
    <2>3. dates'[StartDate].date = Parsed(text) /\ dates'[StartDate].typed = TRUE
      BY <1>3, <1>6
    <2> QED BY <1>3, <2>1, <2>2, <2>3 DEF FollowInv, Follows
  <1>7. CASE d # StartDate
    <2>1. dates'[StartDate] = dates[StartDate] /\ edited'
      BY <1>1, <1>3, <1>4, <1>7 DEF Alone
    <2>2. dateField'[StartDate] = dateField[StartDate]
      <3>1. PICK fields : fields = [dateField EXCEPT ![d] = text]
        OBVIOUS
      <3>2. fields[StartDate] = dateField[StartDate]
        BY <1>4, <1>7, <3>1
      <3>3. CASE text = NoDate
        BY <1>3, <3>1, <3>2, <3>3
      <3>4. CASE text # NoDate
        <4>1. dateField' = Filled(fields, {}, Parsed(text))
          BY <1>3, <1>7, <3>1, <3>4 DEF StartsDate
        <4> QED BY <1>4, <3>2, <4>1, FilledAt
      <3> QED BY <3>3, <3>4
    <2> QED BY <1>3, <2>1, <2>2 DEF FollowInv, Follows
  <1> QED BY <1>5, <1>6, <1>7

\* Ok.
LEMMA ConfirmFollows ==
    ASSUME DateInv, FollowInv, NEW d \in DatePickers, ConfirmDate(d), UNCHANGED timeVars
    PROVE  DateInv' /\ FollowInv'
  <1>1. /\ DateInv' /\ Alone(d)
        /\ dates'[d].date = dates[d].date /\ dates'[d].typed = FALSE
        /\ dateField' = [dateField EXCEPT ![d] = dates[d].date]
        /\ edited' = (edited \/ d = EndDate)
    BY PressOkStep DEF ConfirmDate
  <1>2. StartDate \in DatePickers /\ EndDate \in DatePickers /\ StartDate # EndDate
        /\ (d = StartDate \/ d = EndDate) /\ dateField \in [DatePickers -> DateOrNone]
    BY PickersAssumption DEF DateInv, DatesInv
  <1>3. CASE d = StartDate
    <2>1. dateField'[StartDate] = dates[StartDate].date
          /\ dateField'[EndDate] = dateField[EndDate]
      BY <1>1, <1>2, <1>3
    <2>2. /\ dates'[StartDate].date = dates[StartDate].date
          /\ dates'[StartDate].typed = FALSE /\ (edited' <=> edited)
      BY <1>1, <1>2, <1>3
    <2> QED BY <1>1, <2>1, <2>2 DEF FollowInv, Follows
  <1>4. CASE d = EndDate
    <2>1. dates'[StartDate] = dates[StartDate] /\ edited'
      BY <1>1, <1>2, <1>4 DEF Alone
    <2>2. dateField'[StartDate] = dateField[StartDate]
      BY <1>1, <1>2, <1>4
    <2> QED BY <1>1, <2>1, <2>2 DEF FollowInv, Follows
  <1> QED BY <1>2, <1>3, <1>4

\* Whatever the user does to a date picker.
LEMMA OnDatesStep ==
    ASSUME DateInv, FollowInv, NEW d \in DatePickers, OnDates(d), UNCHANGED timeVars
    PROVE  DateInv' /\ FollowInv'
  <1>1. CASE PickDay(d) \/ EnterDate(d) \/ ConfirmDate(d)
    BY <1>1, PickDayFollows, EnterDateFollows, ConfirmFollows
  <1>2. CASE OpenDate(d) /\ UNCHANGED edited
    BY <1>2, OpenDateStep, KeptFollows
  <1>3. CASE Cancel(d) /\ UNCHANGED edited
    BY <1>3, CancelStep, KeptFollows
  <1>4. CASE /\ \/ PrevMonth(d) \/ NextMonth(d)
                \/ \E m \in Months : GotoMonth(d, m)
                \/ \E y \in Years : GotoYear(d, y)
             /\ UNCHANGED edited
    <2>1. DateInv' /\ DateKept(d)
      BY <1>4, TurnsStep
    <2> QED BY <1>4, <2>1, KeptFollows
  <1> QED BY <1>1, <1>2, <1>3, <1>4 DEF OnDates

-----------------------------------------------------------------------------
(* The calendar: for every month of every year *)

\* The days before the first of March of a year.
DaysBefore(y) == 365 * y + y \div 4 - y \div 100 + y \div 400

\* A year has 365 days, and one more if it is a leap year.
LEMMA YearLength ==
    ASSUME NEW y \in Int
    PROVE  DaysBefore(y) - DaysBefore(y - 1) = IF IsLeapYear(y) THEN 366 ELSE 365
  <1>1. y \div 4 - (y - 1) \div 4 = IF y % 4 = 0 THEN 1 ELSE 0
    OBVIOUS
  <1>2. y \div 100 - (y - 1) \div 100 = IF y % 100 = 0 THEN 1 ELSE 0
    OBVIOUS
  <1>3. y \div 400 - (y - 1) \div 400 = IF y % 400 = 0 THEN 1 ELSE 0
    OBVIOUS
  <1>4. /\ y % 100 = 0 => y % 4 = 0
        /\ y % 400 = 0 => y % 100 = 0
    OBVIOUS
  <1>5. DaysBefore(y) - DaysBefore(y - 1) =
           365 + (y \div 4 - (y - 1) \div 4) - (y \div 100 - (y - 1) \div 100)
               + (y \div 400 - (y - 1) \div 400)
    BY DEF DaysBefore
  <1>6. CASE y % 4 # 0
    BY <1>1, <1>2, <1>3, <1>4, <1>5, <1>6 DEF IsLeapYear
  <1>7. CASE y % 4 = 0 /\ y % 100 # 0
    BY <1>1, <1>2, <1>3, <1>4, <1>5, <1>7 DEF IsLeapYear
  <1>8. CASE y % 100 = 0 /\ y % 400 # 0
    BY <1>1, <1>2, <1>3, <1>4, <1>5, <1>8 DEF IsLeapYear
  <1>9. CASE y % 400 = 0
    BY <1>1, <1>2, <1>3, <1>4, <1>5, <1>9 DEF IsLeapYear
  <1> QED BY <1>4, <1>6, <1>7, <1>8, <1>9

\* The first days of the months, counted.
LEMMA FirstOfMonth ==
    ASSUME NEW y \in Int
    PROVE  /\ Ordinal(Date(y, 0, 1)) = DaysBefore(y - 1) + 306
           /\ Ordinal(Date(y, 1, 1)) = DaysBefore(y - 1) + 337
           /\ Ordinal(Date(y, 2, 1)) = DaysBefore(y)
           /\ Ordinal(Date(y, 3, 1)) = DaysBefore(y) + 31
           /\ Ordinal(Date(y, 4, 1)) = DaysBefore(y) + 61
           /\ Ordinal(Date(y, 5, 1)) = DaysBefore(y) + 92
           /\ Ordinal(Date(y, 6, 1)) = DaysBefore(y) + 122
           /\ Ordinal(Date(y, 7, 1)) = DaysBefore(y) + 153
           /\ Ordinal(Date(y, 8, 1)) = DaysBefore(y) + 184
           /\ Ordinal(Date(y, 9, 1)) = DaysBefore(y) + 214
           /\ Ordinal(Date(y, 10, 1)) = DaysBefore(y) + 245
           /\ Ordinal(Date(y, 11, 1)) = DaysBefore(y) + 275
  <1>1. ASSUME NEW m \in 0..1
        PROVE  Ordinal(Date(y, m, 1)) = DaysBefore(y - 1) + (153 * (m + 10) + 2) \div 5
    <2>1. (m + 10) % 12 = m + 10
      OBVIOUS
    <2> QED BY <2>1 DEF Ordinal, Date, DaysBefore
  <1>2. ASSUME NEW m \in 2..11
        PROVE  Ordinal(Date(y, m, 1)) = DaysBefore(y) + (153 * (m - 2) + 2) \div 5
    <2>1. (m + 10) % 12 = m - 2
      OBVIOUS
    <2> QED BY <2>1 DEF Ordinal, Date, DaysBefore
  <1>3. DaysBefore(y) \in Int /\ DaysBefore(y - 1) \in Int
    BY DEF DaysBefore
  <1>4. /\ Ordinal(Date(y, 0, 1)) = DaysBefore(y - 1) + 306
        /\ Ordinal(Date(y, 1, 1)) = DaysBefore(y - 1) + 337
    BY <1>1, <1>3
  <1>5. /\ Ordinal(Date(y, 2, 1)) = DaysBefore(y)
        /\ Ordinal(Date(y, 3, 1)) = DaysBefore(y) + 31
        /\ Ordinal(Date(y, 4, 1)) = DaysBefore(y) + 61
        /\ Ordinal(Date(y, 5, 1)) = DaysBefore(y) + 92
        /\ Ordinal(Date(y, 6, 1)) = DaysBefore(y) + 122
    BY <1>2, <1>3
  <1>6. /\ Ordinal(Date(y, 7, 1)) = DaysBefore(y) + 153
        /\ Ordinal(Date(y, 8, 1)) = DaysBefore(y) + 184
        /\ Ordinal(Date(y, 9, 1)) = DaysBefore(y) + 214
        /\ Ordinal(Date(y, 10, 1)) = DaysBefore(y) + 245
        /\ Ordinal(Date(y, 11, 1)) = DaysBefore(y) + 275
    BY <1>2, <1>3
  <1> QED BY <1>4, <1>5, <1>6

\* The picker's own table has the length of every month: from its first day to
\* that of the next one.
LEMMA MonthLength ==
    ASSUME NEW y \in Int, NEW m \in 0..11
    PROVE  Ordinal(Date(IF m = 11 THEN y + 1 ELSE y, (m + 1) % 12, 1)) - Ordinal(Date(y, m, 1))
             = DaysInMonth(y, m)
  <1>1. DaysBefore(y) \in Int /\ DaysBefore(y - 1) \in Int
    BY DEF DaysBefore
  <1>2. y + 1 \in Int /\ (y + 1) - 1 = y
    OBVIOUS
  <1>3. CASE m = 0
    BY <1>1, <1>3, FirstOfMonth DEF DaysInMonth
  <1>4. CASE m = 1
    <2>1. DaysInMonth(y, m) = IF IsLeapYear(y) THEN 29 ELSE 28
      BY <1>4 DEF DaysInMonth
    <2>2. /\ Ordinal(Date(IF m = 11 THEN y + 1 ELSE y, (m + 1) % 12, 1)) = DaysBefore(y)
          /\ Ordinal(Date(y, m, 1)) = DaysBefore(y - 1) + 337
      BY <1>4, FirstOfMonth
    <2> QED BY <1>1, <2>1, <2>2, YearLength
  <1>5. CASE m \in 2..6
    BY <1>1, <1>5, FirstOfMonth DEF DaysInMonth
  <1>6. CASE m \in 7..10
    BY <1>1, <1>6, FirstOfMonth DEF DaysInMonth
  <1>7. CASE m = 11
    <2>1. Ordinal(Date(y + 1, 0, 1)) = DaysBefore(y) + 306
      BY <1>2, FirstOfMonth
    <2>2. Ordinal(Date(y, 11, 1)) = DaysBefore(y) + 275
      BY FirstOfMonth
    <2> QED BY <1>1, <1>7, <2>1, <2>2 DEF DaysInMonth
  <1> QED BY <1>3, <1>4, <1>5, <1>6, <1>7

\* The grid is a calendar of its month.
LEMMA GridShowsMonth ==
    ASSUME NEW y \in Int, NEW m \in 0..11
    PROVE  ShowsMonth(Grid(y, m), y, m)
  <1>1. PICK days \in 28..31 : days = DaysInMonth(y, m)
    BY DaysType
  <1>2. PICK before \in 0..6 : before = Weekday(Date(y, m, 1))
    <2>1. Date(y, m, 1) \in DateTexts
      BY DEF Date, DateTexts
    <2>2. PICK o \in Int : o = Ordinal(Date(y, m, 1))
      BY <2>1, OrdinalType
    <2> QED BY <2>2 DEF Weekday
  <1>3. Cells(y, m) \div 7 = (before + days + 6) \div 7
    <2>1. PICK cells \in 28..37 : cells = days + before
      OBVIOUS
    <2>2. Cells(y, m) = cells + (7 - (((cells - 1) % 7) + 1))
      BY <1>1, <1>2, <2>1 DEF Cells, Before
    <2>3. (cells + (7 - (((cells - 1) % 7) + 1))) \div 7 = (cells + 6) \div 7
      OBVIOUS
    <2> QED BY <2>1, <2>2, <2>3
  <1>4. PICK n \in Nat : n = (before + days + 6) \div 7
    OBVIOUS
  <1>5. Grid(y, m) = [r \in 1..n |-> [c \in 1..7 |-> CellDay(y, m, 7 * (r - 1) + (c - 1))]]
    BY <1>3, <1>4 DEF Grid
  <1>6. Len(Grid(y, m)) = n /\ DOMAIN Grid(y, m) = 1..n
    BY <1>5
  <1>7. ASSUME NEW r \in 1..n, NEW c \in 1..7
        PROVE  Grid(y, m)[r][c] = IF 7 * (r - 1) + c - before \in 1..days
                                    THEN 7 * (r - 1) + c - before ELSE Blank
    <2>1. Grid(y, m)[r][c] = CellDay(y, m, 7 * (r - 1) + (c - 1))
      BY <1>5
    <2>2. PICK i \in Int : i = 7 * (r - 1) + (c - 1)
      BY <1>4
    <2>3. Grid(y, m)[r][c] = IF i < before \/ i >= days + before THEN Blank ELSE 1 + (i - before)
      BY <1>1, <1>2, <2>1, <2>2 DEF CellDay, Before
    <2>4. 7 * (r - 1) + c - before = 1 + (i - before)
      BY <1>4, <2>2
    <2>5. 1 + (i - before) \in 1..days <=> ~(i < before \/ i >= days + before)
      OBVIOUS
    <2> QED BY <2>3, <2>4, <2>5
  <1>8. days = Ordinal(Date(IF m = 11 THEN y + 1 ELSE y, (m + 1) % 12, 1)) - Ordinal(Date(y, m, 1))
    BY <1>1, MonthLength
  <1> QED BY <1>2, <1>4, <1>6, <1>7, <1>8 DEF ShowsMonth

-----------------------------------------------------------------------------
(* The form *)

Inv ==
    /\ FlagsInv /\ DatesInv /\ TimesInv /\ FollowInv
    /\ edited \in BOOLEAN /\ user \in [picks : SUBSET Modals, acts : Nat]

\* As the page is loaded.
LEMMA InitHolds == Init => Inv
  <1> SUFFICES ASSUME Init PROVE Inv
    OBVIOUS
  <1>1. ModalInv /\ \A m \in Modals : ~modal[m].isOpen
    BY ClosedIsSound DEF Init, ModalInit, Closed
  <1>2. dateField \in [DatePickers -> DateTexts]
    BY UserAssumption DEF Init, DateInit
  <1>3. PICK served \in [DatePickers -> DateTexts] :
          dates = [p \in DatePickers |->
             [isOpen |-> FALSE, date |-> NoDate, typed |-> FALSE,
              calendar |-> Month(Parsed(served[p])),
              drawn |-> [calendar |-> Month(NoDate), date |-> NoDate]]]
    BY UserAssumption DEF Init, DateInit
  <1>4. ASSUME NEW d \in DatePickers
        PROVE  /\ dates[d] \in DateRecord /\ ~dates[d].isOpen
               /\ dates[d].date = NoDate /\ ~dates[d].typed
    <2>1. PICK cal : cal = Month(Parsed(served[d]))
      OBVIOUS
    <2>2. dates[d] = [isOpen |-> FALSE, date |-> NoDate, typed |-> FALSE, calendar |-> cal,
                      drawn |-> [calendar |-> Month(NoDate), date |-> NoDate]]
      BY <1>3, <2>1
    <2>3. cal \in MonthRecord
      BY <2>1, ParsedType, DateIsSome, MonthType
    <2>4. NoDate \in DateOrNone
      BY DEF DateOrNone
    <2>5. Month(NoDate) \in MonthRecord
      BY <2>4, MonthType
    <2> QED BY <2>2, <2>3, <2>4, <2>5 DEF DateRecord
  <1>5. DatesInv
    <2>1. dates \in [DatePickers -> DateRecord]
      BY <1>3, <1>4
    <2> QED BY <1>2, <1>4, <2>1 DEF DatesInv, UpToDate, DateOrNone
  <1>6. ASSUME NEW t \in TimePickers
        PROVE  times[t] \in TimeRecord /\ HandsRest(times[t]) /\ ViewStays(times[t])
               /\ ~times[t].isOpen
    <2>1. times[t] = [isOpen |-> FALSE, hours |-> 0, minutes |-> 0, currentView |-> "hours",
                      press |-> Up, moved |-> FALSE, visible |-> {"hours"}, hiding |-> {},
                      soon |-> <<>>, later |-> <<>>, done |-> 0]
      BY DEF Init, TimeInit
    <2>2. Up \in PlaceRecord
      BY DEF Up, Place, PlaceRecord
    <2>3. times[t] \in TimeRecord
      BY <2>1, <2>2, UserAssumption DEF TimeRecord, Views
    <2>4. ViewStays(times[t]) /\ ~times[t].isOpen
      BY <2>1 DEF ViewStays
    <2>5. times[t].soon = <<>> /\ times[t].later = <<>>
      BY <2>1
    <2>6. HandsRest(times[t])
      BY <2>5 DEF HandsRest
    <2> QED BY <2>3, <2>4, <2>6
  <1>7. TimesInv
    <2>1. times \in [TimePickers -> TimeRecord]
      BY <1>6 DEF Init, TimeInit
    <2>2. timeField \in [TimePickers -> TimeTexts \cup {NoTime}]
      BY UserAssumption DEF Init, TimeInit
    <2> QED BY <1>6, <2>1, <2>2 DEF TimesInv
  <1>8. \A m \in Modals : ~PickerOpen(m)
    BY <1>4, <1>6, PickersAssumption DEF PickerOpen
  <1>9. FlagsInv
    BY <1>1, <1>8 DEF FlagsInv
  <1>10. FollowInv
    <2>1. Ordinal(dateField[StartDate]) <= Ordinal(dateField[EndDate])
      BY DEF Init
    <2>2. dates[StartDate].date = NoDate
      BY <1>4, PickersAssumption
    <2> QED BY <2>1, <2>2 DEF FollowInv, Follows
  <1>11. edited \in BOOLEAN /\ user \in [picks : SUBSET Modals, acts : Nat]
    BY UserAssumption DEF Init
  <1> QED BY <1>5, <1>7, <1>9, <1>10, <1>11 DEF Inv

\* What concerns date pickers leaves time pickers.
LEMMA TimesKept ==
    ASSUME TimesInv, UNCHANGED timeVars
    PROVE  TimesInv'
  BY TimesStay DEF timeVars, TimesInv

\* Time pickers leave date pickers, and the fields.
LEMMA DatesKept ==
    ASSUME DatesInv, FollowInv, UNCHANGED dateVars, UNCHANGED edited
    PROVE  DatesInv' /\ FollowInv'
  BY DatesStay DEF dateVars, FollowInv

\* Whatever the user does to a time picker.
LEMMA OnTimesStep ==
    ASSUME TimeInv, NEW t \in TimePickers, OnTimes(t), UNCHANGED dateVars
    PROVE  TimeInv' /\ UNCHANGED edited
  <1>1. UNCHANGED edited
    BY DEF OnTimes
  <1>2. CASE OpenTime(t) \/ CancelTime(t) \/ PressOkTime(t)
    BY <1>1, <1>2, OpenTimeStep, CancelTimeStep, PressOkTimeStep
  <1>3. ASSUME NEW place \in Places, Press(t, place) \/ Drag(t, place)
        PROVE  TimeInv'
    BY <1>3, MouseStep
  <1>4. ASSUME NEW back \in BOOLEAN, Release(t, back), timeField' = StartsTime(t, back)
        PROVE  TimeInv'
    BY <1>4, ReleaseStep
  <1>5. ASSUME NEW view \in {"hours", "minutes"}, ClickView(t, view)
        PROVE  TimeInv'
    BY <1>5, ClickViewStep DEF Views
  <1>6. ASSUME NEW text \in Times \cup {NoTime}, TypeTime(t, text)
        PROVE  TimeInv'
    BY <1>6, TypeTimeStep
  <1> QED BY <1>1, <1>2, <1>3, <1>4, <1>5, <1>6 DEF OnTimes

\* The user closes open modals.
LEMMA DismissStep ==
    ASSUME Inv, Dismiss
    PROVE  FlagsInv' /\ DatesInv' /\ TimesInv' /\ FollowInv' /\ UNCHANGED edited
  <1>1. PICK S : Close(S)
    BY DEF Dismiss
  <1>2. UNCHANGED <<dateVars, timeVars, edited>>
    BY DEF Dismiss
  <1>3. \A n \in Modals : PickerOpen(n)' = PickerOpen(n)
    BY <1>2 DEF dateVars, timeVars, PickerOpen
  <1>4. FlagsInv'
    BY <1>1, <1>3, FlagsDismiss DEF Inv
  <1> QED BY <1>2, <1>4, TimesKept, DatesKept DEF Inv

\* The user acts.
LEMMA UserStep ==
    ASSUME Inv, UserActs
    PROVE  Inv'
  <1>1. user' \in [picks : SUBSET Modals, acts : Nat]
    <2>1. user.acts > 0 /\ user' = [user EXCEPT !.acts = user.acts - 1]
      BY DEF UserActs
    <2>2. PICK n \in Nat : n = user.acts - 1
      BY <2>1 DEF Inv
    <2> QED BY <2>1, <2>2 DEF Inv
  <1>2. ASSUME NEW d \in DatePickers, OnDates(d), UNCHANGED timeVars
        PROVE  FlagsInv' /\ DatesInv' /\ TimesInv' /\ FollowInv' /\ edited' \in BOOLEAN
    <2>1. DateInv' /\ FollowInv'
      BY <1>2, OnDatesStep DEF Inv, DateInv
    <2>2. TimesInv'
      BY <1>2, TimesKept DEF Inv
    <2>3. edited' \in BOOLEAN
      BY <1>2 DEF Inv, OnDates, PickDay, EnterDate, ConfirmDate
    <2> QED BY <2>1, <2>2, <2>3 DEF DateInv
  <1>3. ASSUME NEW t \in TimePickers, OnTimes(t), UNCHANGED dateVars
        PROVE  FlagsInv' /\ DatesInv' /\ TimesInv' /\ FollowInv' /\ edited' \in BOOLEAN
    <2>1. TimeInv' /\ UNCHANGED edited
      BY <1>3, OnTimesStep DEF Inv, TimeInv
    <2>2. DatesInv' /\ FollowInv'
      BY <1>3, <2>1, DatesKept DEF Inv
    <2> QED BY <2>1, <2>2 DEF Inv, TimeInv
  <1>4. CASE Dismiss
    BY <1>1, <1>4, DismissStep DEF Inv
  <1> QED BY <1>1, <1>2, <1>3, <1>4 DEF UserActs, Inv

\* A closing animation ends.
LEMMA ShutStep ==
    ASSUME Inv, NEW m \in Modals, Shut(m), UNCHANGED edited
    PROVE  FlagsInv' /\ DatesInv' /\ TimesInv' /\ FollowInv'
  <1>1. CASE m \in DatePickers /\ DateShut(m) /\ UNCHANGED timeVars
    <2>1. DateInv' /\ DateKept(m)
      BY <1>1, DateShutStep DEF Inv, DateInv
    <2>2. FollowInv'
      BY <1>1, <2>1, KeptFollows DEF Inv
    <2> QED BY <1>1, <2>1, <2>2, TimesKept DEF Inv, DateInv
  <1>2. CASE m \in TimePickers /\ TimeShut(m) /\ UNCHANGED dateVars
    <2>1. TimeInv'
      BY <1>2, TimeShutStep DEF Inv, TimeInv
    <2> QED BY <1>2, <2>1, DatesKept DEF Inv, TimeInv
  <1> QED BY <1>1, <1>2 DEF Shut

\* A timer fires.
LEMMA TimerStep ==
    ASSUME Inv, NEW t \in TimePickers, Timer(t), UNCHANGED edited
    PROVE  FlagsInv' /\ DatesInv' /\ TimesInv' /\ FollowInv'
  <1>1. UNCHANGED dateVars
    BY DEF Timer
  <1>2. TimeInv'
    BY <1>1, HandFiresStep, HideFiresStep, DoneFiresStep DEF Inv, TimeInv, Timer
  <1> QED BY <1>1, <1>2, DatesKept DEF Inv, TimeInv

\* The browser acts.
LEMMA BrowserStep ==
    ASSUME Inv, Browser
    PROVE  Inv'
  <1>1. UNCHANGED <<edited, user>>
    BY DEF Browser
  <1>2. ASSUME NEW m \in Modals, OpenEnds(m), UNCHANGED <<dateVars, timeVars>>
        PROVE  FlagsInv' /\ DatesInv' /\ TimesInv' /\ FollowInv'
    <2>1. \A n \in Modals : PickerOpen(n)' = PickerOpen(n)
      BY <1>2 DEF dateVars, timeVars, PickerOpen
    <2>2. FlagsInv'
      BY <1>2, <2>1, FlagsOpenEnds DEF Inv
    <2> QED BY <1>1, <1>2, <2>2, TimesKept, DatesKept DEF Inv
  <1>3. FlagsInv' /\ DatesInv' /\ TimesInv' /\ FollowInv'
    BY <1>1, <1>2, ShutStep, TimerStep DEF Browser
  <1> QED BY <1>1, <1>3 DEF Inv

\* Every step.
LEMMA NextHolds == Inv /\ [Next]_vars => Inv'
  <1> SUFFICES ASSUME Inv, [Next]_vars PROVE Inv'
    OBVIOUS
  <1>1. CASE UNCHANGED vars
    <2>1. UNCHANGED <<modalVars, dateVars, timeVars, edited, user>>
      BY <1>1 DEF vars
    <2>2. \A n \in Modals : PickerOpen(n)' = PickerOpen(n)
      BY <2>1 DEF dateVars, timeVars, PickerOpen
    <2>3. FlagsInv'
      BY <2>1, <2>2, FlagsStay DEF Inv
    <2> QED BY <2>1, <2>3, TimesKept, DatesKept DEF Inv
  <1>2. CASE Next
    BY <1>2, UserStep, BrowserStep DEF Next
  <1> QED BY <1>1, <1>2

\* The invariant.
LEMMA InvHolds == Spec => []Inv
  BY InitHolds, NextHolds, PTL DEF Spec

-----------------------------------------------------------------------------
(* What follows from the invariant *)

\* The state of modals, pickers, fields and user is of the types the code gives
\* it; months stay in their year and hours in their day, however often the
\* calendar is turned and the dial used.
THEOREM PickersTypesHold == Spec => []TypeOK
  <1>1. ASSUME Inv
        PROVE  TypeOK
    <2>1. ModalTypeOK
      BY <1>1, OpenCounted DEF Inv, FlagsInv, ModalTypeOK, ModalInv, ModalRecord
    <2>2. DateTypeOK
      <3>1. ASSUME NEW d \in DatePickers
            PROVE  /\ dates[d].isOpen \in BOOLEAN /\ dates[d].calendar.month \in 0..11
                   /\ dates[d].date # NoDate => dates[d].date.day \in 1..31
        <4>1. dates[d] \in DateRecord
          BY <1>1 DEF Inv, DatesInv
        <4>2. dates[d].isOpen \in BOOLEAN /\ dates[d].calendar \in MonthRecord
              /\ dates[d].date \in DateOrNone
          BY <4>1 DEF DateRecord
        <4> QED BY <4>2, DateIsSome DEF MonthRecord, DateOrNone
      <3> QED BY <1>1, <3>1 DEF DateTypeOK, Inv, DatesInv
    <2>3. TimeTypeOK
      <3>1. \A t \in TimePickers : times[t] \in TimeRecord
        BY <1>1 DEF Inv, TimesInv
      <3>2. \A t \in TimePickers : timeField[t] \in TimeTexts \cup {NoTime}
        BY <1>1 DEF Inv, TimesInv
      <3> QED BY <3>1, <3>2 DEF TimeTypeOK, TimeRecord, Views, TimeTexts
    <2>4. edited \in BOOLEAN /\ user.acts \in Nat
      BY <1>1 DEF Inv
    <2> QED BY <2>1, <2>2, <2>3, <2>4 DEF TypeOK
  <1> QED BY <1>1, InvHolds, PTL

\* The flags of a picker, of its modal and of the page agree, through Escape,
\* overlays, timers and animations that end late or never.
THEOREM FlagsAgreeHolds == Spec => []FlagsAgree
  <1>1. ASSUME Inv
        PROVE  FlagsAgree
    <2>1. ASSUME NEW m \in Modals
          PROVE  modal[m].shown = (modal[m].isOpen \/ "out" \in modal[m].anim)
      <3>1. modal[m] \in ModalRecord
        BY <1>1 DEF Inv, FlagsInv, ModalInv
      <3>2. modal[m].shown \in BOOLEAN
        BY <3>1, Zenon DEF ModalRecord
      <3>3. modal[m].shown <=> modal[m].isOpen \/ "out" \in modal[m].anim
        BY <1>1 DEF Inv, FlagsInv, ModalInv
      <3> QED BY ONLY <3>2, <3>3, Zenon
    <2>2. ASSUME NEW m \in Modals
          PROVE  /\ modal[m].isOpen => PickerOpen(m)
                 /\ PickerOpen(m) /\ ~modal[m].isOpen => "out" \in modal[m].anim
      BY <1>1 DEF Inv, FlagsInv
    <2>3. modalsOpen = Cardinality(OpenModals) /\ scrollLocked = (OpenModals # {})
      BY <1>1, Zenon DEF Inv, FlagsInv, ModalInv
    <2> QED BY <2>1, <2>2, <2>3, Zenon DEF FlagsAgree
  <1> QED BY <1>1, InvHolds, PTL

\* What an open date picker shows is its own state, and a calendar of its month,
\* for every month of every year it can reach.
THEOREM GridIsCurrentHolds == Spec => []GridIsCurrent
  <1>1. ASSUME Inv
        PROVE  GridIsCurrent
    <2> SUFFICES ASSUME NEW d \in DatePickers, modal[d].isOpen
                 PROVE  /\ dates[d].drawn.calendar = dates[d].calendar
                        /\ dates[d].drawn.date = dates[d].date
                        /\ ShowsMonth(Grid(dates[d].drawn.calendar.year,
                                           dates[d].drawn.calendar.month),
                                      dates[d].drawn.calendar.year,
                                      dates[d].drawn.calendar.month)
      BY DEF GridIsCurrent
    <2>1. dates[d].isOpen
      BY <1>1, DateIsModal DEF Inv, FlagsInv
    <2>2. dates[d].drawn = [calendar |-> dates[d].calendar, date |-> dates[d].date]
      BY <1>1, <2>1 DEF Inv, DatesInv, UpToDate
    <2>3. dates[d].drawn.calendar \in MonthRecord
      BY <1>1 DEF Inv, DatesInv, DateRecord
    <2>4. dates[d].drawn.calendar.year \in Int /\ dates[d].drawn.calendar.month \in 0..11
      BY <2>3 DEF MonthRecord
    <2> QED BY <2>2, <2>4, GridShowsMonth
  <1> QED BY <1>1, InvHolds, PTL

\* Timers of the dial that fire late, in any number and order, change no time
\* and hide no view in use.
THEOREM TimersHarmlessHolds == Spec => []TimersHarmless
  <1>1. ASSUME Inv
        PROVE  TimersHarmless
    <2>1. LateHandIsHarmless
      <3> SUFFICES ASSUME NEW t \in TimePickers,
                          NEW hands \in {times[t].soon, times[t].later},
                          NEW i \in DOMAIN hands, ~hands[i].touched
                   PROVE  /\ hands[i].view = times[t].currentView
                          /\ SetHand(times[t], hands[i].place, FALSE) = times[t]
        BY DEF LateHandIsHarmless
      <3>1. AtRest(times[t], hands[i]) /\ times[t] \in TimeRecord
        BY <1>1 DEF Inv, TimesInv, HandsRest
      <3>2. hands[i].view = times[t].currentView
            /\ hands[i].place = PlaceOf(times[t].currentView, ValueOf(times[t]))
        BY <3>1 DEF AtRest
      <3> QED BY <3>1, <3>2, SetHandRests
    <2>2. CurrentViewVisible
      BY <1>1 DEF Inv, TimesInv, ViewStays, CurrentViewVisible
    <2> QED BY <2>1, <2>2 DEF TimersHarmless
  <1> QED BY <1>1, InvHolds, PTL

\* Ok keeps the text the user sees, and a maintenance does not end before it
\* starts, with the exceptions the properties name.
THEOREM FieldsFollowHolds == Spec => []FieldsFollow
  <1>1. Inv => FieldsFollow
    BY FollowsMeans DEF Inv
  <1> QED BY <1>1, InvHolds, PTL
=============================================================================
