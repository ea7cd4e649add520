---------------------------- MODULE MCRatingWalk ----------------------------
(* Games of four teams, slates of two among them, and their closing prices *)
EXTENDS RatingWalk

MCSettled(e, s, h, a, p, sc) ==
    [event |-> e, start |-> s, home |-> h, away |-> a, period |-> p, score |-> sc]
MCRatingRows ==
    {MCSettled(1, 1, "A", "B", 1, "home"), MCSettled(2, 1, "C", "D", 1, "away"),
     MCSettled(3, 3, "A", "C", 1, "home"), MCSettled(4, 3, "B", "D", 1, "away"),
     MCSettled(6, 5, "C", "A", 2, "home"), MCSettled(7, 7, "B", "A", 3, "tie"),
     MCSettled(1, 1, "A", "B", 1, "away"), MCSettled(8, 7, "C", "D", 3, "garbled"),
     MCSettled(9, 0, "A", "B", 3, "home")}

\* Games that start while others are played, no team in two at once
MCStaggeredRows ==
    {MCSettled(1, 1, "A", "B", 1, "home"), MCSettled(2, 2, "C", "D", 1, "away"),
     MCSettled(3, 3, "A", "B", 1, "home"), MCSettled(4, 4, "C", "D", 1, "away")}

MCClose(e, b, s, t, i) == [event |-> e, book |-> b, side |-> s, time |-> t, implied |-> i]
MCCloseSets ==
    LET one == {MCClose(3, "x", "home", 1, 60), MCClose(3, "x", "away", 1, 50),
                MCClose(4, "x", "home", 1, 40), MCClose(4, "x", "away", 1, 40),
                MCClose(6, "x", "home", 1, 50), MCClose(6, "x", "away", 1, 55)}
        more == {MCClose(3, "x", "home", 2, 99), MCClose(3, "y", "home", 1, 50),
                 MCClose(3, "y", "away", 1, 52), MCClose(3, "z", "home", 1, 45),
                 MCClose(3, "z", "away", 1, 58)}
        odd == {MCClose(3, "x", "draw", 1, 20), MCClose(4, "x", "home", 2, 0)}
    IN  {{}, one \cup more, one \cup odd}
MCScoreGaps == {<<0, 0, 0, 0>>, <<1, 1, 1, 1>>, <<3, 4, 3, 4>>, <<-3, -4, -3, -3>>, <<2, -1, 1, 0>>}
=============================================================================
