---------------------------- MODULE MCMapLoading ----------------------------
(***************************************************************************)
(* Maps of two by three tiles, so that width and height cannot be mixed    *)
(* up, with up to two layers, of any names and at most one tile each, and  *)
(* at most one object.  The tilesets are those of res/testmap.tmx.         *)
(***************************************************************************)
EXTENDS MapLoading

OneTile == {[c \in Cells |-> IF c = cell THEN gid ELSE 0] :
              cell \in Cells, gid \in {0, 2, ObjectsetGid + ID_WALL, ObjectsetGid + ID_VENT}}

Layers == [name : {"background", "foreground", "walls", "areas"}, tiles : OneTile]

Objects == [group : {"lights", "other"}, ellipse : BOOLEAN,
            x : {10}, y : {70}, rx : {5}, ry : {5, 6}, rgba : {NULL, "red"}]
=============================================================================
