CONSTANT Programs = {"exec_linux"}
SPECIFICATION CmdSpec
PROPERTY ExecEndsAfterCommand
