----------------------------- MODULE MCAssistant -----------------------------
\* One task of every type, with each of a few payloads; tasks that share a session; a
\* goal of each kind beside a task; in three offices.
EXTENDS Assistant, Specialists

\* The fields that any request or call of the task's handler names.
FieldsOf(task) ==
    LET h == Agents[task] IN
    UNION h.requests \cup UNION {h.calls[i].given : i \in DOMAIN h.calls}

Everything == {"llm", "memory", "engine", "workflow", "speaker", "tts", "stt", "pyautogui",
               "PIL", "pyperclip", "pytesseract", "playwright"}

MCOffices ==
    {[backends |-> Everything, libraries |-> {"PIL"}, consent |-> "asked"],
     [backends |-> Everything \ {"llm", "workflow"}, libraries |-> {}, consent |-> "auto"],
     [backends |-> {"llm", "workflow"}, libraries |-> {}, consent |-> "nobody"]}

Nothing == [task |-> "none", fields |-> {}]
Whole(task) == [task |-> task, fields |-> FieldsOf(task) \ Everything]

Plans(length) == [task |-> "plan", fields |-> {"goal", length}]

Offers ==
    UNION {{Whole(t), [task |-> t, fields |-> {"goal"}]} : t \in (DOMAIN Agents) \ {"plan"}}
    \cup {Plans(length) : length \in Lengths}
    \cup {[task |-> "calendar.sync", fields |-> {}]}

Single == {[goal |-> "none", tasks |-> <<offer, Nothing>>] : offer \in Offers}

Chatty ==
    <<Plans("short"), Plans("piece"), Plans("long"),
      Whole("code.generate"), Whole("code.review"), Whole("vision.ocr")>>

Pairs ==
    {[goal |-> "none", tasks |-> <<Chatty[p[1]], Chatty[p[2]]>>] :
        p \in {q \in (DOMAIN Chatty) \X (DOMAIN Chatty) : q[1] <= q[2]}}

Kinds == {"smalltalk", "knowledge", "process", "tool"}

Goals ==
    {[goal |-> kind, tasks |-> <<Nothing, Nothing>>] : kind \in Kinds}
    \cup {[goal |-> "knowledge", tasks |-> <<Nothing, Chatty[1]>>]}

MCLoads == Single \cup Pairs \cup Goals

MCWanted == {"research", "storage.organize", "web.fetch", "compute.process", "code.generate"}

MCToolCalls == {Call("calculator", {"expression"}), Call("file_system", {"operation", "path"}),
                Call("browser", {"operation"}), Call("no_such_tool", {})}
=============================================================================
