---------------------------- MODULE StudioLinuxMC ----------------------------
EXTENDS StudioLinux, TLC

\* Two spellings of one file, another file, and a folder with both.
MCKey == "a" :> 1 @@ "./a" :> 1 @@ "b" :> 2
MCScan == "file" :> <<"./a">> @@ "folder" :> <<"a", "b">> @@ "empty" :> <<>>
          @@ "gone" :> Unreadable
==============================================================================
