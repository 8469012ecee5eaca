----------------------------- MODULE MCDisplay -----------------------------
(* Instances of Display for TLC. *)
EXTENDS Display

Entry(n, v) == [name |-> n, value |-> v]
MCDefaults == {<<>>, <<Entry(1, 1), Entry(3, 1)>>, <<Entry(3, 0), Entry(1, 1)>>}
MCValues == {-1, 0, 1}

\* What camera.h:306-364 lists, from noclip to imgui: sixteen names in no order.
MCNames == 1..16
MCCamera ==
    {<<Entry(14, 0), Entry(9, 0), Entry(1, 1), Entry(4, 1),
       Entry(3, 1), Entry(5, 1), Entry(6, 1), Entry(16, 0),
       Entry(12, 0), Entry(13, 5), Entry(2, 1), Entry(15, 1),
       Entry(7, 1), Entry(8, 1), Entry(11, 1), Entry(10, 1)>>}
MCCameraValues == {0, 1, 5}

\* One is inside the level, one is turned over, one begins outside.
Viewpoint(a, b, c, d) == [x1 |-> a, y1 |-> b, x2 |-> c, y2 |-> d]
MCViewpoints == {Viewpoint(0, 0, 2, 1), Viewpoint(2, 1, 1, 0), Viewpoint(-1, -1, 1, 0)}
MCSteps == -1..1
=============================================================================
