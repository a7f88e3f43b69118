--------------------------- MODULE MCCalculations ---------------------------
(* Instances of TextEmbedding and ScheduleTime for TLC: a behaviour is of the *)
(* one or of the other.                                                      *)
EXTENDS TextEmbedding, ScheduleTime

VARIABLE calculation

calculations == <<textVars, timeVars, calculation>>

\* A unit of time is half an hour.  From Baker Island (-12 h) to Kiritimati (+14 h), summer
\* time half an hour or an hour, northern and southern: the shift begins and ends at some
\* instants.
ManyZones ==
    {z \in [base : {-24, -10, 0, 11, 26, 28}, shift : {0, 1, 2}, from : {-30, 0, 10},
            to : {20, 30, 50}] :
        z.base + z.shift \in Offsets}

ZoneOffset(z, t) == IF z.from <= t /\ t < z.to THEN z.base + z.shift ELSE z.base

\* Around every transition of every zone.
ManyValues == -14..62

ManyInstants == -50..100

CalculationsInit ==
    \/ /\ calculation = "text"
       /\ zone = (CHOOSE z \in Zones : TRUE) /\ value = 0 /\ choice = "undefined"
       /\ TimeInit /\ TextInit
    \/ /\ calculation = "time"
       /\ text = <<"letter">> /\ provider = "openai"
       /\ TextInit /\ TimeInit

CalculationsNext ==
    \/ calculation = "text" /\ TextNext /\ UNCHANGED <<timeVars, calculation>>
    \/ calculation = "time" /\ Resolve /\ UNCHANGED <<textVars, calculation>>

CalculationsSpec == CalculationsInit /\ [][CalculationsNext]_calculations
=============================================================================
