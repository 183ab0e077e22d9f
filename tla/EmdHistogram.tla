---------------------------- MODULE EmdHistogram ----------------------------
(***************************************************************************)
(* The distance that VisitAssertSimilarEmdHistogram of the executor        *)
(* computes from the pixels of two renderbuffers of one size: for each     *)
(* channel a loop over the bins of the two histograms, and the largest     *)
(* distance of all channels.                                               *)
(*                                                                         *)
(* Numbers of pixels are not divided by that of all pixels, nor sums by    *)
(* that of the bins, so all is in whole numbers; what floating point       *)
(* rounds off is left out.                                                 *)
(***************************************************************************)
EXTENDS Integers, FiniteSetsExt, Functions

CONSTANTS
    Pixels,     \* of each renderbuffer
    Channels,   \* how many there are: 4
    NumBins,    \* num_bins: 256
    Images      \* contents: the value of each pixel, channel by channel

ASSUME PixelsAssumption == IsFiniteSet(Pixels)
ASSUME ChannelsAssumption == Channels \in Nat \ {0}
ASSUME NumBinsAssumption == NumBins \in Nat
ASSUME ImagesAssumption == Images \subseteq [1 .. Channels -> [Pixels -> 0 .. NumBins - 1]]

VARIABLES
    first, second,  \* data[0] and data[1]
    channel, bin,   \* where the loops are, from 1 and from 0
    diffAccum, diffTotal, maxEmd

emdVars == <<first, second, channel, bin, diffAccum, diffTotal, maxEmd>>

EmdInit ==
    /\ first \in Images /\ second \in Images
    /\ channel = 1 /\ bin = 0
    /\ diffAccum = 0 /\ diffTotal = 0 /\ maxEmd = 0

\* histogram[index][channel][bin]
InBin(image) == Cardinality({p \in Pixels : image[channel][p] = bin})

Size(n) == IF n < 0 THEN -n ELSE n

\* Mutant: what earlier bins have too many or too few of is forgotten.
AddBinAlone ==
    /\ channel <= Channels /\ bin < NumBins
    /\ diffAccum' = InBin(first) - InBin(second)
    /\ diffTotal' = diffTotal + Size(diffAccum')
    /\ bin' = bin + 1
    /\ UNCHANGED <<first, second, channel, maxEmd>>

AddBin ==
    /\ channel <= Channels /\ bin < NumBins
    /\ diffAccum' = diffAccum + InBin(first) - InBin(second)
    /\ diffTotal' = diffTotal + Size(diffAccum')
    /\ bin' = bin + 1
    /\ UNCHANGED <<first, second, channel, maxEmd>>

EndChannel ==
    /\ channel <= Channels /\ bin = NumBins
    /\ maxEmd' = Max({maxEmd, diffTotal})
    /\ channel' = channel + 1
    /\ bin' = 0 /\ diffAccum' = 0 /\ diffTotal' = 0
    /\ UNCHANGED <<first, second>>

EmdNext == AddBin \/ EndChannel

EmdSpec == EmdInit /\ [][EmdNext]_emdVars

-----------------------------------------------------------------------------
\* What it costs to turn one image into the other by moving each pixel of the first to a
\* pixel of the second: how far all of them are moved.
CostOfMoving(moves, c) ==
    MapThenSumSet(LAMBDA p : Size(first[c][p] - second[c][moves[p]]), Pixels)

LeastCost(c) == Min({CostOfMoving(moves, c) : moves \in Bijection(Pixels, Pixels)})

\* The sum of the cumulative differences is what the comment in the code and the
\* documentation call it, "the minimal cost of moving earth", and the tolerance is compared
\* with that of the worst channel.
DistanceIsTheLeastCost ==
    channel > Channels => maxEmd = Max({LeastCost(c) : c \in 1 .. Channels})
=============================================================================
