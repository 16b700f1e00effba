------------------------------- MODULE MCJournal -------------------------------
EXTENDS Journal

Lens == {1, 2}
===============================================================================
