-------------------------- MODULE MCLogAssociation --------------------------
EXTENDS LogAssociation

\* One recording that ran with both logs, and one that ran with the first.
TwoRecordings == {1, 2}
TwoLogs == {1, 2}
Together == {<<1, 1>>, <<1, 2>>, <<2, 1>>}
TheFirst == {1}

\* Two recordings with a log, or one, and then the other recording, or the
\* other log, alone.
SmallDrops == <<{<<{1, 2}, {1}>>, <<{1}, {1}>>}, {<<{2}, {}>>, <<{}, {2}>>}>>
=============================================================================
