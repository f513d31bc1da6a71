---------------------------- MODULE MCSessionStore ----------------------------
EXTENDS SessionStore

CONSTANTS f1, f2

\* Appends and saves may throw and a copy may be taken; a begin_acquisition
\* that throws has a run of its own.
RecordingEvents ==
  {<<"detailed", "copy">>, <<"compact", "append">>, <<"compact", "update">>,
   <<"rak", "append">>, <<"rak", "update">>}
BeginFault == {<<"compact", "begin">>}

\* A behaviour is followed until its copy is finished, or another recording has
\* taken the place of the one being copied.
StillThere == /\ Len(disk.rows) >= Len(copy.rev.rows)
              /\ eng.phase = "new" \/ Len(disk.segs) >= Len(copy.rev.segs)
UntilCopied == copy.state = "none" \/ (copy.state = "pinned" /\ StillThere)

FixSymmetry == Permutations(Fixes)
=============================================================================
