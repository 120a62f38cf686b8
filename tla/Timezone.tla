------------------------------ MODULE Timezone ------------------------------
(***************************************************************************)
(* How a page guesses the timezone of the browser (moment-timezone.js):    *)
(* the name the browser gives if it is known, else the zone of the tables  *)
(* that suits best the offsets of the browser's clock at a few times.      *)
(* Times are minutes from the first of January two years ago; a name is    *)
(* its normalised form.                                                    *)
(***************************************************************************)
EXTENDS Integers, Sequences, SequencesExt, FiniteSetsExt

CONSTANTS
    ZoneData,     \* the packed zones, in the order of their names
    LinkData,     \* pairs of names that stand for one zone
    ShortNames,   \* names of three letters or less, such as UTC
    MonthLength,  \* bound: the minutes of a month
    Forever       \* later than any time

NoName == "undefined"

\* unpack: a packed zone lists abbreviations and offsets once, and the periods
\* that have them; the ends of the periods are given one after the other.
Unpack(packed) ==
    LET periods == DOMAIN packed.indices
        ends == FoldLeft(LAMBDA ends, d : Append(ends, d + (IF ends = <<>> THEN 0 ELSE Last(ends))),
                         <<>>, packed.untils)
    IN [name |-> packed.name,
        abbrs |-> [i \in periods |-> packed.abbrs[packed.indices[i]]],
        offsets |-> [i \in periods |-> packed.offsets[packed.indices[i]]],
        untils |-> Append(ends, Forever),
        population |-> packed.population]

\* Zone: the period of a time, its offset (minutes west of Greenwich) and its
\* abbreviation.
Index(zone, at) == Min({i \in DOMAIN zone.untils : at < zone.untils[i]})
UtcOffset(zone, at) == zone.offsets[Index(zone, at)]
Abbr(zone, at) == zone.abbrs[Index(zone, at)]

-----------------------------------------------------------------------------
(* The tables: zones, links (both ways, the last one wins) and, per        *)
(* offset, the zones that ever have it.                                    *)

ZoneNames == {ZoneData[i].name : i \in DOMAIN ZoneData}
Links ==
    FoldLeft(LAMBDA links, pair : (pair[1] :> pair[2]) @@ (pair[2] :> pair[1]) @@ links,
             <<>>, LinkData)
Names == ZoneNames \cup DOMAIN Links

Guesses(offset) ==
    {ZoneData[i].name : i \in {j \in DOMAIN ZoneData : offset \in ToSet(ZoneData[j].offsets)}}

\* getZone: a link is followed once.
Rank(name) == CHOOSE i \in DOMAIN ZoneData : ZoneData[i].name = name
Known(name) == name \in ZoneNames \/ (name \in DOMAIN Links /\ Links[name] \in ZoneNames)
GetZone(name) ==
    IF name \in ZoneNames THEN Unpack(ZoneData[Rank(name)])
    ELSE [Unpack(ZoneData[Rank(Links[name])]) EXCEPT !.name = name]

-----------------------------------------------------------------------------
(* The browser is its clock, a zone, the name it gives for it, '' if none, *)
(* and whether it writes abbreviations.                                    *)

OffsetAt(browser, at) ==
    [at |-> at, offset |-> UtcOffset(browser.clock, at),
     abbr |-> IF browser.writes /\ Abbr(browser.clock, at) # "GMT"
                THEN Abbr(browser.clock, at) ELSE NoName]

\* findChange: the last minute with the offset of low, by halving.
FindChange(browser, low, high) ==
    LET Offset(at) == UtcOffset(browser.clock, at)
        change[l \in Int, h \in Int] ==
            LET diff == (h - l) \div 2 IN
            IF diff = 0 THEN l
            ELSE IF Offset(l + diff) = Offset(l) THEN change[l + diff, h]
            ELSE change[l, l + diff]
    IN change[low, high]

\* Variant: the change is sampled before it only.
UserOffsets_BeforeOnly(browser) ==
    LET Month(i) == OffsetAt(browser, i * MonthLength)
        Change(i) == FindChange(browser, (i - 1) * MonthLength, i * MonthLength)
        Changes(i) == IF Month(i).offset = Month(i - 1).offset THEN <<>>
                      ELSE <<OffsetAt(browser, Change(i))>>
    IN <<Month(0)>> \o FlattenSeq([i \in 1..47 |-> Changes(i)])
         \o FlattenSeq([y \in 1..4 |-> <<Month(12 * (y - 1)), Month(12 * (y - 1) + 6)>>])

\* userOffsets: the minutes around the change of every month that begins with
\* another offset than the one before, and each January and July of four years.
UserOffsets(browser) ==
    LET Month(i) == OffsetAt(browser, i * MonthLength)
        Change(i) == FindChange(browser, (i - 1) * MonthLength, i * MonthLength)
        Changes(i) == IF Month(i).offset = Month(i - 1).offset THEN <<>>
                      ELSE <<OffsetAt(browser, Change(i)), OffsetAt(browser, Change(i) + 1)>>
    IN <<Month(0)>> \o FlattenSeq([i \in 1..47 |-> Changes(i)])
         \o FlattenSeq([y \in 1..4 |-> <<Month(12 * (y - 1)), Month(12 * (y - 1) + 6)>>])

\* ZoneScore: how far a zone is from the samples.
Distance(a, b) == IF a < b THEN b - a ELSE a - b
ZoneScore(name, samples) ==
    LET zone == GetZone(name)
    IN [zone |-> zone,
        offsetScore |-> FoldLeft(LAMBDA sum, s :
            sum + Distance(UtcOffset(zone, s.at), s.offset), 0, samples),
        abbrScore |-> FoldLeft(LAMBDA sum, s :
            sum + (IF Abbr(zone, s.at) = s.abbr THEN 0 ELSE 1), 0, samples)]

\* sortZoneScores: the offsets first, then the abbreviations, then the people
\* who live there, then the name.
Before(a, b) ==
    IF a.offsetScore # b.offsetScore THEN a.offsetScore < b.offsetScore
    ELSE IF a.abbrScore # b.abbrScore THEN a.abbrScore < b.abbrScore
    ELSE IF a.zone.population # b.zone.population THEN a.zone.population > b.zone.population
    ELSE Rank(a.zone.name) > Rank(b.zone.name)

\* guess: the zones that ever have an offset sampled are the candidates.
Guess(browser) ==
    LET samples    == UserOffsets(browser)
        candidates == UNION {Guesses(samples[i].offset) : i \in DOMAIN samples}
        scores     == {ZoneScore(name, samples) : name \in candidates}
        first      == CHOOSE s \in scores : \A other \in scores \ {s} : Before(s, other)
    IN IF browser.intl \in Names \ ShortNames THEN browser.intl
       ELSE IF scores = {} THEN NoName ELSE first.zone.name

-----------------------------------------------------------------------------
\* What the samples cannot tell apart: two changes within one month, or a change
\* in the last one.
Sampled(zone) ==
    \A i \in DOMAIN zone.untils : zone.untils[i] # Forever =>
        /\ zone.untils[i] < 47 * MonthLength
        /\ \A j \in DOMAIN zone.untils : j # i =>
              zone.untils[j] \div MonthLength # zone.untils[i] \div MonthLength

\* Two zones that agree at every minute of the four years.
SameClock(a, b) ==
    \A at \in 0..(48 * MonthLength - 1) : UtcOffset(a, at) = UtcOffset(b, at)

\* A browser that gives no name, but whose clock is that of a zone of the tables,
\* is given a zone with the same clock: the few samples are enough, whatever the
\* other zones look like.
GuessKeepsTime(browser) ==
    /\ browser.intl \notin Names \ ShortNames
    /\ Sampled(browser.clock)
    /\ \A name \in ZoneNames : Sampled(GetZone(name))
    /\ \E name \in ZoneNames : SameClock(GetZone(name), browser.clock)
    => SameClock(GetZone(Guess(browser)), browser.clock)

=============================================================================
