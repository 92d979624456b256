--------------------------- MODULE MCDescritores ---------------------------
EXTENDS Descritores
MCFileSystem == {<<"rozipfs">>}
MCOpenMode == {"RDONLY", "RDWR"}
MCFcntlArg == {{}, {"NONBLOCK", "EXCL"}}
MCFileName == {<<"rozipfs", "a">>, <<"b">>}
=============================================================================
