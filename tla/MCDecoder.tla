----------------------------- MODULE MCDecoder -----------------------------
(* A small instance of Decoder for TLC. *)
EXTENDS Decoder

Seen(tag, cand, grid, x, y) ==
    [kind |-> "candidate", tag |-> tag, cand |-> cand, grid |-> grid, x |-> x, y |-> y]

\* The tags at both ends of the index, two tags of the same bits, candidates at one place, the
\* corner of a picture, a column beyond a short, a negative tag, and a line of each sort that is
\* not kept.
SomeLines ==
    {[kind |-> "short"], [kind |-> "throws"], Seen(0, 0, 0, -1, 5),
     Seen(0, 0, 0, 5, 5), Seen(0, 0, 2, 5, 5), Seen(0, 1, 0, 6, 5), Seen(144, 3, 3, 5, 5),
     Seen(399, 0, 0, 3999, 4193), Seen(399, 0, 1, 40000, 0),
     Seen(-1, 0, 0, 5, 5)}

Picture(camID, timestamp, offset) ==
    [camID |-> camID, timestamp |-> timestamp, offset |-> offset]

\* A day apart across the end of a month, an hour apart across another, a tenth of a second
\* apart, and two cameras at one time.
Midnight(year, month, day) == <<year, month, day, 0, 0, 0>>
TwoPictures ==
    {<<Picture(2, Midnight(2014, 8, 31), <<9, 9>>), Picture(2, Midnight(2014, 9, 1), <<9, 9, 1>>)>>,
     <<Picture(2, <<2014, 7, 31, 23, 0, 0>>, <<0, 2>>), Picture(2, Midnight(2014, 8, 1), <<0, 2>>)>>,
     <<Picture(3, Midnight(2014, 8, 1), <<1, 9>>), Picture(3, Midnight(2014, 8, 1), <<2, 9>>)>>,
     <<Picture(0, Midnight(2014, 8, 1), <<1, 9>>), Picture(1, Midnight(2014, 8, 1), <<1, 9>>)>>}
=============================================================================
