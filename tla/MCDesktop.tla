----------------------------- MODULE MCDesktop -----------------------------
EXTENDS Desktop

\* A press that carries the cursor upwards onto the title bar, and a release.
MCReports == {<<9, 0, 127>>, <<8, 0, 0>>}
=============================================================================
