----------------------------- MODULE MCElfLoad -----------------------------
EXTENDS ElfLoad

MCSegments == {s \in [vaddr : 0..5, filesz : 0..5, memsz : 0..5] : s.filesz <= s.memsz}
=============================================================================
