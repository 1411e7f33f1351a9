----------------------------- MODULE MCChannel ------------------------------
(* Three instances of ChannelCells for TLC: "reads", with the constants of   *)
(* the configuration, and "setter" and "crowd", with those given here.       *)
EXTENDS ChannelCells

CONSTANT Parts
VARIABLE part   \* the instance this behaviour belongs to

\* Neighbouring keys share chains: two words per home, wrapped at the end.
Hashes  == [key \in Keys |-> key % Words]
Crowded == [key \in Keys |-> 0]
PanOnly == [f \in Fields |-> 0]
PanArm  == [f \in Fields |-> IF f = "pan" THEN 0 ELSE 1]

Three    == 1 .. 3
PanAlone == {"pan"}
NoOffset == [f \in PanAlone |-> 0]
OneChain == [key \in Three |-> 0]
\* The owner's own thread commits instead of the audio thread.
Setter == INSTANCE ChannelCells WITH Committers <- {"ui"}
\* Three owners in one chain of words, over two cells, without values.
Crowd == INSTANCE ChannelCells WITH
    Addresses <- Three, Fields <- PanAlone, Offset <- NoOffset, OwnerOnly <- {},
    HashOf <- OneChain, OwnerSlots <- 3, Cells <- 2, Words <- 3, Probes <- 2,
    Budget <- 2, Tries <- 2, Generations <- 3, LastRevision <- 6, Retries <- 1, Bits <- {0},
    Committers <- {}, Wanted <- {}

MCInit == /\ part \in Parts
          /\ \/ part = "reads" /\ Init
             \/ part = "setter" /\ Setter!Init
             \/ part = "crowd" /\ Crowd!Init
In(p) == part = p /\ UNCHANGED part
MCNext == \/ In("reads") /\ Next
          \/ In("setter") /\ Setter!Next
          \/ In("crowd") /\ Crowd!Next
MCSpec == MCInit /\ [][MCNext]_<<vars, part>>

\* channel_write and channel_birth: every word stays within its type, so no
\* revision wraps and no index leaves its table.
ChannelTypeOK == CASE part = "reads" -> TypeOK [] part = "setter" -> Setter!TypeOK
                   [] OTHER -> Crowd!TypeOK

\* channel_birth and channel_owner_birth: no reclaimed, recycled or moved word
\* hides the field of a living object.
FieldsAreReachable ==
    CASE part = "reads" -> LiveFieldsAreReachable
      [] part = "setter" -> Setter!LiveFieldsAreReachable
      [] OTHER -> Crowd!LiveFieldsAreReachable

\* channel_write: a cell at rest holds a value committed to its own property.
CellsHoldTheirOwn == part = "reads" => CellHoldsOwnValue
=============================================================================
