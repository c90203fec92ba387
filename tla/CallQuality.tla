---------------------------- MODULE CallQuality ----------------------------
(***************************************************************************)
(* What the call-quality collector makes of a row: the RTP statistics as   *)
(* internal/data/rtpqos.go reads them, and the counters and histograms of  *)
(* internal/exporter/quality/collector.go, added to QualityCollector.      *)
(*                                                                         *)
(* A column of statistics is Blank, or says for each direction how many    *)
(* packets came and were lost and the score (MES), 0 where the key is      *)
(* missing or is no number.  Scores are whole, a MOS is in millionths.     *)
(***************************************************************************)
EXTENDS QualityCollector, Functions

CONSTANTS
    Blank,      \* a column that is empty or not there
    Raw         \* what each call's row says: [local, peer]

Streams == [mes : Nat, count : Nat, lost : Nat]
Columns == [rx : Streams, tx : Streams]

ASSUME CallQualityAssumption ==
    /\ Blank \notin Columns
    /\ Raw \in [Calls -> [local : Columns, peer : Columns \cup {Blank}]]

Sides == {"local", "peer"}
Directions == {"rx", "tx"}
Bands == {"", "EXCELLENT", "GOOD", "FAIR", "POOR", "BAD"}

VARIABLES
    callsByBand,   \* asterisk_call_quality_total{band, side}
    mosScore,      \* observations of asterisk_call_rtp_mos_score{direction, side}
    lossPercent,   \* observations of asterisk_call_rtp_loss_percent{direction, side}
    scrapeRows,    \* asterisk_call_quality_scrape_rows_total
    before         \* history: what was counted when this process started

metrics == <<callsByBand, mosScore, lossPercent, scrapeRows>>
allVars == <<vars, metrics, before>>
-----------------------------------------------------------------------------
(* rtpqos.go.                                                              *)

\* The score, 0 to 100, as a MOS of 1.0 to 4.5; 0 is "none was received".
mesToMOS(mes) ==
    LET mos == 1000000 + 35000 * mes + 7 * mes * (mes - 60) * (100 - mes)
    IN  CASE mes = 0 -> 0
          [] mes >= 100 -> 4500000
          [] OTHER -> IF mes =< 6 \/ mos < 1000000 THEN 1000000
                      ELSE IF mos > 4500000 THEN 4500000 ELSE mos

BandOf(mos) ==
    IF mos = 0 THEN ""
    ELSE IF mos >= 4300000 THEN "EXCELLENT"
    ELSE IF mos >= 4000000 THEN "GOOD"
    ELSE IF mos >= 3600000 THEN "FAIR"
    ELSE IF mos >= 3100000 THEN "POOR" ELSE "BAD"

\* The worst of the directions that were scored.
quality(rx, tx) == BandOf(IF tx > 0 /\ (rx = 0 \/ tx < rx) THEN tx ELSE rx)

\* Whole percents; of nothing, 0.
Loss(s) == IF s.count + s.lost = 0 THEN 0 ELSE (100 * s.lost) \div (s.count + s.lost)

\* nil for a blank column only: what cannot be read is 0, not nil.
ParseRTPQoS(col) ==
    IF col = Blank THEN Blank
    ELSE [mos |-> [d \in Directions |-> mesToMOS(col[d].mes)],
          count |-> [d \in Directions |-> col[d].count],
          loss |-> [d \in Directions |-> Loss(col[d])],
          quality |-> quality(mesToMOS(col.rx.mes), mesToMOS(col.tx.mes))]
-----------------------------------------------------------------------------
(* observe and recordSide, for the rows a scrape counted.                  *)

Parsed == [c \in Calls |-> [s \in Sides |-> ParseRTPQoS(Raw[c][s])]]

QoS(c, side) == Parsed[c][side]

\* Slip: the side that was not scored is left out.
OnlyScored(side, rows) == {c \in rows : QoS(c, side) # Blank /\ QoS(c, side).quality # ""}

\* The sides of a row that are recorded: the peer's only if its column is filled.
Recorded(side, rows) == {c \in rows : side = "local" \/ QoS(c, side) # Blank}

\* seen has for each side and row the keys that go up by one.
Tally(series, keys, seen, rows) ==
    [s \in Sides |-> [k \in keys |->
        series[s][k] + Cardinality({c \in Recorded(s, rows) : k \in seen[s][c]})]]

\* A histogram observes what was received only.
InBand == [s \in Sides |-> [c \in Calls |-> {IF QoS(c, s) = Blank THEN "" ELSE QoS(c, s).quality}]]
HasMos == [s \in Sides |-> [c \in Calls |-> {d \in Directions : QoS(c, s) # Blank /\ QoS(c, s).mos[d] > 0}]]
HasLoss ==
    [s \in Sides |-> [c \in Calls |->
        {d \in Directions : QoS(c, s) # Blank /\ (QoS(c, s).loss[d] > 0 \/ QoS(c, s).count[d] > 0)}]]

recordSide(rows) ==
    /\ callsByBand' = Tally(callsByBand, Bands, InBand, rows)
    /\ mosScore' = Tally(mosScore, Directions, HasMos, rows)
    /\ lossPercent' = Tally(lossPercent, Directions, HasLoss, rows)

observe(rows) ==
    /\ scrapeRows' = scrapeRows + Cardinality(rows)
    /\ recordSide(rows)

\* The metrics as New makes them.
NewMetrics ==
    [callsByBand |-> [s \in Sides |-> [b \in Bands |-> 0]],
     mosScore |-> [s \in Sides |-> [d \in Directions |-> 0]],
     lossPercent |-> [s \in Sides |-> [d \in Directions |-> 0]],
     scrapeRows |-> 0]

QualityInit ==
    /\ Init
    /\ callsByBand = NewMetrics.callsByBand
    /\ mosScore = NewMetrics.mosScore
    /\ lossPercent = NewMetrics.lossPercent
    /\ scrapeRows = NewMetrics.scrapeRows
    /\ before = counted

\* A step of the PBX, the clock, or a scrape that reads nothing.
Unmeasured ==
    /\ \/ \E c \in Calls : Begin(c) \/ End(c)
       \/ Tick
       \/ CollectFails \/ CollectNothing
    /\ UNCHANGED <<metrics, before>>

CollectAndObserve ==
    /\ Collect
    /\ observe({c \in Calls : counted'[c] # counted[c]})
    /\ UNCHANGED before

RestartAnew ==
    /\ Restart
    /\ callsByBand' = NewMetrics.callsByBand
    /\ mosScore' = NewMetrics.mosScore
    /\ lossPercent' = NewMetrics.lossPercent
    /\ scrapeRows' = NewMetrics.scrapeRows
    /\ before' = counted

QualityNext == Unmeasured \/ CollectAndObserve \/ RestartAnew

QualitySpec == QualityInit /\ [][QualityNext]_allVars /\ WF_allVars(CollectAndObserve)
-----------------------------------------------------------------------------
\* The bands from the worst to the best.
Ranked == <<"BAD", "POOR", "FAIR", "GOOD", "EXCELLENT">>

Rank(band) == IF band = "" THEN 0 ELSE CHOOSE i \in DOMAIN Ranked : Ranked[i] = band

\* A direction that was scored can make a call no better, and one that was not
\* changes nothing; a better score is never in a worse band.
ScoresDecide ==
    \A rx, tx \in 0 .. 101 :
        LET rank == Rank(quality(mesToMOS(rx), mesToMOS(tx)))
            of(mes) == Rank(BandOf(mesToMOS(mes)))
        IN  /\ rx = 0 => rank = of(tx)
            /\ tx = 0 => rank = of(rx)
            /\ 0 < rx /\ rx =< tx => rank = of(rx) /\ of(rx) =< of(tx)
            /\ 0 < tx /\ tx =< rx => rank = of(tx)

\* The counters of one process agree with each other and with the rows it
\* counted: each row is in one band of its own side, the peer's side is there
\* for no more rows, and a band other than unknown stands for at least one and
\* at most two observed scores.  And the band is that of the worse direction,
\* whatever was scored.
MetricsAddUp ==
    /\ scrapeRows = Cardinality({c \in Calls : counted[c] > before[c]})
    /\ SumFunction(callsByBand["local"]) = scrapeRows
    /\ SumFunction(callsByBand["peer"]) =< scrapeRows
    /\ \A s \in Sides :
           LET scored == SumFunction(callsByBand[s]) - callsByBand[s][""]
               scores == SumFunction(mosScore[s])
           IN  scored =< scores /\ scores =< 2 * scored
    /\ \A s \in Sides, d \in Directions :
           mosScore[s][d] =< SumFunction(callsByBand[s]) /\ lossPercent[s][d] =< SumFunction(callsByBand[s])
    /\ ScoresDecide
=============================================================================
