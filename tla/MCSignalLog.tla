----------------------------- MODULE MCSignalLog -----------------------------
EXTENDS SignalLog

BothPrograms == ServerCode \cup ClientCode

\* The labels at which a frame holds a mutex, read off the scopes in the code.
Scopes ==
  [log |-> {"main.write1", "main.write2", "recv.write1", "recv.write2",
            "user.write1", "user.write2", "sub.write1", "sig.write"},
   m_mtx |-> {"main.check", "main.log1", "main.write1", "main.log2",
              "main.write2", "main.unlock", "recv.push"}]

=============================================================================
