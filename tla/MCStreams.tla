------------------------------ MODULE MCStreams ------------------------------
(* A small instance of Streams for TLC. *)
EXTENDS Streams, TLC

CONSTANTS c1, c2, stream1, stream2    \* model values

MCClients == {c1, c2}
MCKeys    == {stream1, stream2}

Only(k, id) == [j \in MCKeys |-> IF j = k THEN id ELSE NotRead]

(* Entries named in each of the three ways, with ids that arrive out of order
   and some that are refused; a reader that follows both streams, readers from
   "$" and from an id ahead of the stream; a SET that hides a stream.        *)
MCMenu ==
    {XaddCommand(stream1, AutoGen), XaddCommand(stream1, AutoGenSeq(1)),
     XaddCommand(stream2, Explicit(0, 1)),
     XaddCommand(stream1, Explicit(1, 1)), SetCommand(stream1),
     FollowShape({stream1, stream2}, "finite"), FollowShape({stream1}, "no"),
     XreadCommand(Only(stream1, DollarId), "forever"),
     XreadCommand(Only(stream1, <<1, 1>>), "finite")}
=============================================================================
